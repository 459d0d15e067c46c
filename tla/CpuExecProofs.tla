---------------------------- MODULE CpuExecProofs ----------------------------
(***************************************************************************)
(* TLAPS proofs about the execution engine, for every guest program, hash  *)
(* function, buffer size, block limit and amount of memory.                *)
(***************************************************************************)
EXTENDS CpuExec, TLAPS

\* What TypeOK says of one block.
LEMMA BlockType ==
  ASSUME TypeOK, NEW b \in Blk
  PROVE  /\ block[b] \in Block
         /\ block[b].pc \in Addr /\ block[b].pc0 \in Addr
         /\ block[b].pc1 \in Addr
         /\ block[b].insn \in Nat /\ block[b].count \in Nat
         /\ block[b].blk0 \in Blk \cup {NULL}
         /\ block[b].blk1 \in Blk \cup {NULL}
         /\ block[b].hash_next \in Blk \cup {NULL}
<1>1. block[b] \in Block
  BY DEF TypeOK
<1> QED
  BY <1>1 DEF Block

\* Allocated blocks are blocks.
LEMMA AllocatedBlk ==
  ASSUME TypeOK, NEW b \in 1 .. nblk
  PROVE  b \in Blk
BY SizeAssumption DEF TypeOK, Blk

\* The slots of an allocated block lie in the buffer.
LEMMA SlotType ==
  ASSUME TypeOK, CodeInv, NEW b \in 1 .. nblk,
         NEW k \in 0 .. block[b].count - 1
  PROVE  /\ block[b].insn + k \in Slots
         /\ SlotOf(b, k) \in Slot
         /\ GoodSlot(SlotOf(b, k))
         /\ SlotOf(b, k).insn \in Insn
         /\ SlotOf(b, k).pc \in Addr
         /\ SlotOf(b, k).gpc \in Addr
<1>1. b \in Blk
  BY AllocatedBlk
<1>2. block[b].insn \in Nat /\ block[b].count \in Nat
  BY <1>1, BlockType
<1>3. block[b].insn + block[b].count <= BufSize /\ GoodSlot(SlotOf(b, k))
  BY <1>2 DEF CodeInv, GoodRun
<1>4. block[b].insn + k \in Slots
  BY <1>2, <1>3, SizeAssumption DEF Slots
<1>5. SlotOf(b, k) \in Slot
  BY <1>4 DEF SlotOf, TypeOK
<1> QED
  BY <1>3, <1>4, <1>5 DEF Slot

\* ROUND_UP never claims fewer slots than the block has.
LEMMA RoundUpBounds ==
  ASSUME NEW c \in Nat
  PROVE  RoundUp(c) \in Nat /\ c <= RoundUp(c)
BY DEF RoundUp

\* A step that touches only the links of blocks preserves what is said of
\* their code.
LEMMA CodeFrame ==
  ASSUME CodeInv, UNCHANGED <<text, nblk, insn_buf, insn_buffer_ptr>>,
         \A b \in 1 .. nblk :
           /\ block'[b].pc = block[b].pc
           /\ block'[b].insn = block[b].insn
           /\ block'[b].count = block[b].count
           /\ block'[b].pc0 = block[b].pc0
           /\ block'[b].pc1 = block[b].pc1
  PROVE  CodeInv'
<1> SUFFICES ASSUME NEW b \in 1 .. nblk
             PROVE (/\ GoodRun(b)
                    /\ block[b].insn <= insn_buffer_ptr
                    /\ b \in Translated =>
                         /\ block[b].count \in 1 .. TRANS_MAX
                         /\ block[b].insn + block[b].count <= insn_buffer_ptr
                         /\ GoodEdges(b))'
  BY DEF CodeInv
<1>1. /\ GoodRun(b)
      /\ block[b].insn <= insn_buffer_ptr
      /\ b \in Translated =>
           /\ block[b].count \in 1 .. TRANS_MAX
           /\ block[b].insn + block[b].count <= insn_buffer_ptr
           /\ GoodEdges(b)
  BY DEF CodeInv
<1>2. /\ block'[b].pc = block[b].pc
      /\ block'[b].insn = block[b].insn
      /\ block'[b].count = block[b].count
      /\ block'[b].pc0 = block[b].pc0
      /\ block'[b].pc1 = block[b].pc1
  OBVIOUS
<1>3. GoodRun(b)'
  BY <1>1, <1>2 DEF GoodRun, GoodSlot, SlotOf
<1>4. GoodEdges(b) => GoodEdges(b)'
  BY <1>2 DEF GoodEdges, LastSlot, SlotOf
<1>5. b \in Translated' => b \in Translated
  BY <1>2 DEF Translated
<1> QED
  BY <1>1, <1>2, <1>3, <1>4, <1>5

\* A step that leaves the cache and the text alone preserves what is said of
\* them.
LEMMA CacheFrame ==
  ASSUME CodeInv, LinkInv, OneBlockPerPc, UNCHANGED <<text, cacheVars>>
  PROVE  CodeInv' /\ LinkInv' /\ OneBlockPerPc'
<1> USE DEF cacheVars, Translated, SlotOf, LastSlot
<1>1. CodeInv'
  BY CodeFrame
<1>2. LinkInv'
  BY DEF LinkInv, LinkSound, Runs
<1>3. OneBlockPerPc'
  BY DEF OneBlockPerPc
<1> QED
  BY <1>1, <1>2, <1>3

LEMMA ChainFrame ==
  ASSUME HashChains, UNCHANGED cacheVars, (at = "tail") <=> (at' = "tail")
  PROVE  HashChains'
BY DEF HashChains, Linked, IsFirst, cacheVars

\* All other steps leave the cache and the text alone.
LEMMA QuietSteps ==
  ASSUME Next, ~NewBlock, ~TailLink, ~DecodeInsn, ~DecodeEnd, ~PatchBlock
  PROVE  UNCHANGED <<text, cacheVars>>
BY DEF Next, AllocInsnBuffer, LookUp, LeaveCpuExec, FindHit, FindNext,
       NewBlockFails, TailNext, DecodeFaults, FollowChain, LeaveBlockExec,
       DoSeq, DoWr0, DoIllegal, DoEcall, DoBranch, DoJal, DoJalr, Retire,
       SyscallReturns, SyscallExits, ReportIllegal, Over, vars, cacheVars

\* The instruction block_exec is at.
LEMMA ThisType ==
  ASSUME IndInv, at = "block_exec"
  PROVE  /\ cur \in 1 .. nblk /\ cur \in Blk
         /\ i \in 0 .. block[cur].count - 1
         /\ This = SlotOf(cur, i)
         /\ This \in Slot /\ GoodSlot(This)
         /\ This.insn \in Insn /\ This.pc \in Addr
<1>1. cur \in 1 .. nblk /\ i < block[cur].count
  BY DEF IndInv, ExecInv, Translated
<1>2. cur \in Blk
  BY <1>1, AllocatedBlk DEF IndInv
<1>3. i \in 0 .. block[cur].count - 1
  BY <1>1, <1>2, BlockType DEF IndInv, TypeOK
<1>4. This = SlotOf(cur, i)
  BY DEF This, SlotOf
<1> QED
  BY <1>1, <1>2, <1>3, <1>4, SlotType DEF IndInv

\* The addresses a handler can leave in env->pc are addresses.
LEMMA PcType ==
  ASSUME NEW s \in Slot, GoodSlot(s)
  PROVE  /\ s.insn.tgt \in Addr
         /\ s.insn.len \in {2, 4}
         /\ s.gpc + s.insn.len \in Addr
         /\ EndsBlock(s.insn) => s.pc + s.insn.len \in Addr
<1>1. s.insn.tgt \in Addr /\ s.insn.len \in {2, 4}
  BY DEF Slot, Insn
<1>2. s.gpc \in Half
  BY DEF GoodSlot
<1>3. s.gpc + s.insn.len \in Addr
  BY <1>1, <1>2, AddrAssumption
<1> QED
  BY <1>1, <1>3 DEF GoodSlot

\* The next slot of the block being translated.
LEMMA NextSlotType ==
  ASSUME IndInv, at = "translate", Fetchable(ctx_pc), NextSlot \in Slots
  PROVE  /\ cur = nblk /\ cur \in 1 .. nblk /\ cur \in Blk
         /\ ctx_pc \in Half
         /\ text[ctx_pc] \in Insn
         /\ ctx_pc + text[ctx_pc].len \in Addr
         /\ insn_buf[NextSlot] \in Slot
         /\ NextSlot = insn_buffer_ptr + block[cur].count
<1>1. cur = nblk /\ cur \in 1 .. nblk /\ block[cur].insn = insn_buffer_ptr
  BY SizeAssumption DEF IndInv, TranslateInv, TypeOK
<1>2. cur \in Blk
  BY <1>1, AllocatedBlk DEF IndInv
<1>3. ctx_pc \in Half
  BY DEF Fetchable
<1>4. text[ctx_pc] \in Insn
  BY <1>3 DEF IndInv, TypeOK
<1>5. ctx_pc + text[ctx_pc].len \in Addr
  BY <1>3, <1>4, AddrAssumption DEF Insn
<1>6. insn_buf[NextSlot] \in Slot
  BY DEF IndInv, TypeOK
<1> QED
  BY <1>1, <1>2, <1>3, <1>4, <1>5, <1>6 DEF NextSlot

\* One more instruction in a block.
LEMMA GrowType ==
  ASSUME NEW b \in Block, NEW a \in Half, NEW insn \in Insn
  PROVE  /\ Grow(b, a, insn) \in Block
         /\ Grow(b, a, insn).count = b.count + 1
         /\ Grow(b, a, insn).pc = b.pc
         /\ Grow(b, a, insn).insn = b.insn
         /\ Grow(b, a, insn).blk0 = b.blk0
         /\ Grow(b, a, insn).blk1 = b.blk1
         /\ Grow(b, a, insn).hash_next = b.hash_next
         /\ Grow(b, a, insn).pc0 = IF insn.op \in {"branch", "jal"}
                                   THEN insn.tgt ELSE b.pc0
         /\ Grow(b, a, insn).pc1 = IF insn.op = "branch"
                                   THEN a + insn.len ELSE b.pc1
<1>1. insn.tgt \in Addr /\ a + insn.len \in Addr
  BY AddrAssumption DEF Insn
<1> DEFINE g == Grow(b, a, insn)
<1>2. b.count + 1 \in Nat
  BY DEF Block
<1>3. g \in Block
  BY <1>1, <1>2 DEF Grow, Block
<1>4. g.count = b.count + 1 /\ g.pc = b.pc /\ g.insn = b.insn
  BY DEF Grow, Block
<1>5. g.blk0 = b.blk0 /\ g.blk1 = b.blk1 /\ g.hash_next = b.hash_next
  BY DEF Grow, Block
<1>6. /\ g.pc0 = IF insn.op \in {"branch", "jal"} THEN insn.tgt ELSE b.pc0
      /\ g.pc1 = IF insn.op = "branch" THEN a + insn.len ELSE b.pc1
  BY DEF Grow, Block
<1> QED
  BY <1>3, <1>4, <1>5, <1>6

\* The record DecodeEnd adds jmp_next[0].pc to.
LEMMA SetPc0 ==
  ASSUME NEW b \in Block, NEW a \in Addr
  PROVE  LET g == [b EXCEPT !.pc0 = a]
         IN  /\ g \in Block
             /\ g.count = b.count /\ g.pc = b.pc /\ g.insn = b.insn
             /\ g.blk0 = b.blk0 /\ g.blk1 = b.blk1
             /\ g.hash_next = b.hash_next
             /\ g.pc0 = a /\ g.pc1 = b.pc1
BY DEF Block

\* What every iteration of decode does to the cache.
LEMMA DecodeBlock ==
  ASSUME IndInv, DecodeInsn \/ DecodeEnd
  PROVE  /\ block' \in [Blk -> Block]
         /\ \A b \in Blk : b # cur => block'[b] = block[b]
         /\ block'[cur].pc = block[cur].pc
         /\ block'[cur].insn = block[cur].insn
         /\ block'[cur].count = block[cur].count + 1
         /\ block'[cur].blk0 = block[cur].blk0
         /\ block'[cur].blk1 = block[cur].blk1
         /\ block'[cur].hash_next = block[cur].hash_next
         /\ block'[cur].pc1 = IF text[ctx_pc].op = "branch"
                              THEN ctx_pc + text[ctx_pc].len
                              ELSE block[cur].pc1
         /\ EndsBlock(text[ctx_pc]) =>
              block'[cur].pc0 = IF text[ctx_pc].op \in {"branch", "jal"}
                                THEN text[ctx_pc].tgt ELSE block[cur].pc0
         /\ ~EndsBlock(text[ctx_pc]) /\ DecodeInsn =>
              block'[cur].pc0 = block[cur].pc0
<1> DEFINE insn == text[ctx_pc]
           g == Grow(block[cur], ctx_pc, insn)
<1>1. at = "translate" /\ Fetchable(ctx_pc) /\ NextSlot \in Slots
  BY DEF DecodeInsn, DecodeEnd
<1>2. /\ cur \in Blk /\ ctx_pc \in Half /\ insn \in Insn
      /\ ctx_pc + insn.len \in Addr
  BY <1>1, NextSlotType
<1>3. block \in [Blk -> Block] /\ block[cur] \in Block
  BY <1>2 DEF IndInv, TypeOK
<1>4. /\ g \in Block
      /\ g.count = block[cur].count + 1
      /\ g.pc = block[cur].pc
      /\ g.insn = block[cur].insn
      /\ g.blk0 = block[cur].blk0
      /\ g.blk1 = block[cur].blk1
      /\ g.hash_next = block[cur].hash_next
      /\ g.pc0 = IF insn.op \in {"branch", "jal"}
                 THEN insn.tgt ELSE block[cur].pc0
      /\ g.pc1 = IF insn.op = "branch"
                 THEN ctx_pc + insn.len ELSE block[cur].pc1
  BY <1>2, <1>3, GrowType
<1>5. CASE DecodeInsn
  <2>1. block' = [block EXCEPT ![cur] = g]
    BY <1>5 DEF DecodeInsn
  <2>2. /\ block' \in [Blk -> Block]
        /\ \A b \in Blk : b # cur => block'[b] = block[b]
        /\ block'[cur] = g
    BY <2>1, <1>2, <1>3, <1>4
  <2>3. ~EndsBlock(insn) /\ insn.op \notin {"branch", "jal"}
    BY <1>5 DEF DecodeInsn, EndsBlock
  <2> HIDE DEF g
  <2> QED
    BY <2>2, <2>3, <1>4
<1>6. CASE DecodeEnd /\ EndsBlock(insn)
  <2>1. block' = [block EXCEPT ![cur] = g]
    BY <1>6 DEF DecodeEnd
  <2>2. /\ block' \in [Blk -> Block]
        /\ \A b \in Blk : b # cur => block'[b] = block[b]
        /\ block'[cur] = g
    BY <2>1, <1>2, <1>3, <1>4
  <2> HIDE DEF g
  <2> QED
    BY <2>2, <1>4, <1>6
<1>7. CASE DecodeEnd /\ ~EndsBlock(insn)
  <2> DEFINE f == [g EXCEPT !.pc0 = ctx_pc + insn.len]
  <2>1. block' = [block EXCEPT ![cur] = f]
    BY <1>7 DEF DecodeEnd
  <2>2. /\ f \in Block
        /\ f.count = g.count /\ f.pc = g.pc /\ f.insn = g.insn
        /\ f.blk0 = g.blk0 /\ f.blk1 = g.blk1
        /\ f.hash_next = g.hash_next /\ f.pc1 = g.pc1
    BY <1>2, <1>4, SetPc0
  <2>3. /\ block' \in [Blk -> Block]
        /\ \A b \in Blk : b # cur => block'[b] = block[b]
        /\ block'[cur] = f
    BY <2>1, <2>2, <1>2, <1>3
  <2>4. ~DecodeInsn
    <3>1. block[cur].count + 1 >= TRANS_MAX
      BY <1>7 DEF DecodeEnd
    <3>2. block[cur].count \in Nat
      BY <1>2, BlockType DEF IndInv
    <3> QED
      BY <3>1, <3>2, SizeAssumption DEF DecodeInsn
  <2> HIDE DEF f, g
  <2> QED
    BY <2>2, <2>3, <2>4, <1>4, <1>7
<1> QED
  BY <1>5, <1>6, <1>7

LEMMA DecodeBuffer ==
  ASSUME IndInv, DecodeInsn \/ DecodeEnd
  PROVE  /\ insn_buf' \in [Slots -> Slot]
         /\ \A s \in Slots : s # NextSlot => insn_buf'[s] = insn_buf[s]
         /\ insn_buf'[NextSlot].insn = text[ctx_pc]
         /\ insn_buf'[NextSlot].gpc = ctx_pc
         /\ EndsBlock(text[ctx_pc]) => insn_buf'[NextSlot].pc = ctx_pc
<1>1. at = "translate" /\ Fetchable(ctx_pc) /\ NextSlot \in Slots
  BY DEF DecodeInsn, DecodeEnd
<1>2. ctx_pc \in Half /\ text[ctx_pc] \in Insn /\ insn_buf[NextSlot] \in Slot
  BY <1>1, NextSlotType
<1>3. insn_buf[NextSlot].pc \in Addr /\ ctx_pc \in Addr
  BY <1>2, AddrAssumption DEF Slot
<1> DEFINE new == [insn |-> text[ctx_pc],
                   pc   |-> IF SetsInsnPc(text[ctx_pc])
                            THEN ctx_pc ELSE insn_buf[NextSlot].pc,
                   gpc  |-> ctx_pc]
<1>4. new \in Slot
  BY <1>2, <1>3 DEF Slot
<1>5. insn_buf' = [insn_buf EXCEPT ![NextSlot] = new]
  BY DEF DecodeInsn, DecodeEnd, Emit
<1>6. insn_buf \in [Slots -> Slot]
  BY DEF IndInv, TypeOK
<1>7. EndsBlock(text[ctx_pc]) => new.pc = ctx_pc
  BY DEF SetsInsnPc
<1>8. new.insn = text[ctx_pc] /\ new.gpc = ctx_pc
  OBVIOUS
<1> HIDE DEF new
<1> QED
  BY <1>1, <1>4, <1>5, <1>6, <1>7, <1>8

-----------------------------------------------------------------------------
(***************************************************************************)
(* Type correctness.                                                       *)
(***************************************************************************)

\* What patch_block makes of the previous block.
LEMMA PatchEffect ==
  ASSUME IndInv, PatchBlock
  PROVE  /\ block' \in [Blk -> Block]
         /\ cur \in Translated /\ block[cur].pc = pc
         /\ \A b \in Blk :
              /\ block'[b].pc = block[b].pc
              /\ block'[b].insn = block[b].insn
              /\ block'[b].count = block[b].count
              /\ block'[b].pc0 = block[b].pc0
              /\ block'[b].pc1 = block[b].pc1
              /\ block'[b].hash_next = block[b].hash_next
              /\ \/ block'[b].blk0 = block[b].blk0
                 \/ b = prev_block /\ block[b].pc0 = pc
                    /\ block'[b].blk0 = cur
              /\ \/ block'[b].blk1 = block[b].blk1
                 \/ b = prev_block /\ block[b].pc0 # pc /\ block[b].pc1 = pc
                    /\ block'[b].blk1 = cur
<1>1. cur \in Translated /\ block[cur].pc = pc
  BY DEF PatchBlock, IndInv, ControlInv
<1>2. cur \in Blk
  BY <1>1, AllocatedBlk DEF Translated, IndInv
<1>3. block \in [Blk -> Block] /\ prev_block \in Blk \cup {NULL}
  BY DEF IndInv, TypeOK
<1>4. CASE prev_block = NULL
  BY <1>1, <1>3, <1>4 DEF PatchBlock
<1>5. CASE prev_block # NULL
  <2> DEFINE q == Patched(block[prev_block], cur)
  <2>1. prev_block \in Blk /\ block[prev_block] \in Block
    BY <1>3, <1>5
  <2>2. /\ q \in Block
        /\ q.pc = block[prev_block].pc
        /\ q.insn = block[prev_block].insn
        /\ q.count = block[prev_block].count
        /\ q.pc0 = block[prev_block].pc0
        /\ q.pc1 = block[prev_block].pc1
        /\ q.hash_next = block[prev_block].hash_next
    BY <1>2, <2>1 DEF Patched, Block
  <2>3. /\ \/ q.blk0 = block[prev_block].blk0
           \/ block[prev_block].pc0 = pc /\ q.blk0 = cur
        /\ \/ q.blk1 = block[prev_block].blk1
           \/ /\ block[prev_block].pc0 # pc /\ block[prev_block].pc1 = pc
              /\ q.blk1 = cur
    BY <1>1, <1>2, <2>1 DEF Patched, Block
  <2>4. block' = [block EXCEPT ![prev_block] = q]
    BY <1>5 DEF PatchBlock
  <2> HIDE DEF q
  <2> QED
    BY <1>1, <1>3, <2>1, <2>2, <2>3, <2>4
<1> QED
  BY <1>4, <1>5

LEMMA TypeStep ==
  ASSUME IndInv, Next
  PROVE  TypeOK'
<1> USE DEF cacheVars, Loc, Ended, Exception
<1>0. TypeOK
  BY DEF IndInv
<1>1. CASE AllocInsnBuffer \/ LookUp \/ LeaveCpuExec
  <2>1. AllocInsnBuffer => TypeOK'
    BY <1>0 DEF TypeOK, AllocInsnBuffer
  <2>2. LookUp => TypeOK'
    BY <1>0, AddrAssumption DEF TypeOK, LookUp
  <2>3. LeaveCpuExec => TypeOK'
    BY <1>0 DEF TypeOK, LeaveCpuExec
  <2> QED
    BY <1>1, <2>1, <2>2, <2>3
<1>2. CASE FindHit \/ FindNext \/ NewBlockFails \/ TailNext
  <2>1. walk \in Blk => block[walk].hash_next \in Blk \cup {NULL}
    BY <1>0, BlockType
  <2>2. TailNext => walk \in Blk
    BY AllocatedBlk, SizeAssumption DEF TailNext, IndInv, LookupInv, Blk, TypeOK
  <2>3. FindHit => TypeOK'
    BY <1>0 DEF TypeOK, FindHit
  <2>4. FindNext => TypeOK'
    BY <1>0, <2>1 DEF TypeOK, FindNext
  <2>5. NewBlockFails => TypeOK'
    BY <1>0 DEF TypeOK, NewBlockFails
  <2>6. TailNext => TypeOK'
    BY <1>0, <2>1, <2>2 DEF TypeOK, TailNext
  <2> QED
    BY <1>2, <2>3, <2>4, <2>5, <2>6
<1>3. CASE NewBlock
  <2>1. nblk + 1 \in 1 .. MaxBlocks /\ nblk + 1 \in Blk
    BY <1>0, <1>3, SizeAssumption DEF NewBlock, Room, TypeOK, Blk
  <2>2. [EmptyBlock EXCEPT !.pc = pc, !.insn = insn_buffer_ptr] \in Block
    BY <1>0, AddrAssumption DEF EmptyBlock, Block, TypeOK
  <2>3. block' \in [Blk -> Block]
    BY <1>0, <1>3, <2>1, <2>2 DEF NewBlock, TypeOK
  <2>4. table' \in [Bucket -> Blk \cup {NULL}] /\ walk' \in Blk \cup {NULL}
    BY <1>0, <1>3, <2>1, AddrAssumption DEF NewBlock, TypeOK
  <2> QED
    BY <1>0, <1>3, <2>1, <2>3, <2>4, SizeAssumption DEF NewBlock, TypeOK
<1>4. CASE TailLink
  <2>1. walk \in Blk /\ cur \in Blk
    BY <1>4, AllocatedBlk, SizeAssumption
       DEF TailLink, IndInv, LookupInv, TranslateInv, Blk, TypeOK
  <2>2. [block[walk] EXCEPT !.hash_next = cur] \in Block
    BY <1>0, <2>1, BlockType DEF Block
  <2>3. block' \in [Blk -> Block]
    BY <1>0, <1>4, <2>1, <2>2 DEF TailLink, TypeOK
  <2> QED
    BY <1>0, <1>4, <2>3 DEF TailLink, TypeOK
<1>5. CASE DecodeFaults
  BY <1>0, <1>5 DEF TypeOK, DecodeFaults
<1>6. CASE DecodeInsn \/ DecodeEnd
  <2>1. at = "translate" /\ Fetchable(ctx_pc) /\ NextSlot \in Slots
    BY <1>6 DEF DecodeInsn, DecodeEnd
  <2>2. ctx_pc + text[ctx_pc].len \in Addr /\ cur \in Blk
    BY <2>1, NextSlotType
  <2>3. block' \in [Blk -> Block] /\ insn_buf' \in [Slots -> Slot]
    BY <1>6, DecodeBlock, DecodeBuffer
  <2>4. DecodeInsn => TypeOK'
    BY <1>0, <2>2, <2>3 DEF TypeOK, DecodeInsn
  <2>5. block'[cur].count = block[cur].count + 1 /\ block[cur].count \in Nat
    BY <1>0, <1>6, <2>2, DecodeBlock, BlockType
  <2>6. Grow(block[cur], ctx_pc, text[ctx_pc]).count = block[cur].count + 1
    BY <1>0, <2>1, <2>2, NextSlotType, GrowType, BlockType
  <2>7. DecodeEnd => insn_buffer_ptr' \in Nat
    BY <1>0, <2>5, <2>6, RoundUpBounds DEF DecodeEnd, TypeOK
  <2>8. DecodeEnd => TypeOK'
    BY <1>0, <2>3, <2>7 DEF TypeOK, DecodeEnd
  <2> QED
    BY <1>6, <2>4, <2>8
<1>7. CASE PatchBlock
  BY <1>0, <1>7, PatchEffect DEF TypeOK, PatchBlock
<1>8. CASE FollowChain \/ LeaveBlockExec
  <2>1. cur \in Blk /\ at = "next"
    BY <1>8, AllocatedBlk
       DEF FollowChain, LeaveBlockExec, IndInv, ExecInv, Translated
  <2>2. Chained(cur) \in Blk \cup {NULL}
    BY <1>0, <2>1, BlockType DEF Chained
  <2> QED
    BY <1>0, <1>8, <2>1, <2>2 DEF TypeOK, FollowChain, LeaveBlockExec
<1>9. CASE DoSeq \/ DoIllegal \/ DoEcall \/ DoBranch \/ DoJal \/ DoJalr
  <2>1. at = "block_exec"
    BY <1>9 DEF DoSeq, DoIllegal, DoEcall, DoBranch, DoJal, DoJalr
  <2>2. This \in Slot /\ GoodSlot(This) /\ This.pc \in Addr
    BY <2>1, ThisType
  <2>3. /\ This.insn.tgt \in Addr
        /\ EndsBlock(This.insn) => This.pc + This.insn.len \in Addr
    BY <2>2, PcType
  <2>4. i + 1 \in Nat
    BY <1>0 DEF TypeOK
  <2>5. DoSeq => TypeOK'
    BY <1>0, <2>4 DEF TypeOK, DoSeq, Retire
  <2>6. DoIllegal \/ DoEcall => TypeOK'
    BY <1>0, <2>2, <2>4 DEF TypeOK, DoIllegal, DoEcall, Retire
  <2>7. DoBranch => TypeOK'
    <3> SUFFICES ASSUME DoBranch PROVE TypeOK'
      OBVIOUS
    <3>1. pc' \in Addr
      BY <2>3 DEF DoBranch, EndsBlock
    <3> QED
      BY <1>0, <2>4, <3>1 DEF TypeOK, DoBranch, Retire
  <2>8. DoJal => TypeOK'
    BY <1>0, <2>3, <2>4 DEF TypeOK, DoJal, Retire
  <2>9. DoJalr => TypeOK'
    <3> SUFFICES ASSUME DoJalr PROVE TypeOK'
      OBVIOUS
    <3>1. pc' \in Addr
      BY AddrAssumption DEF DoJalr
    <3> QED
      BY <1>0, <2>4, <3>1 DEF TypeOK, DoJalr, Retire
  <2> QED
    BY <1>9, <2>5, <2>6, <2>7, <2>8, <2>9
<1>10. CASE DoWr0 \/ SyscallExits \/ ReportIllegal \/ Over
  <2>1. DoWr0 => TypeOK'
    BY <1>0 DEF TypeOK, DoWr0
  <2>2. SyscallExits \/ ReportIllegal => TypeOK'
    BY <1>0 DEF TypeOK, SyscallExits, ReportIllegal
  <2>3. Over => TypeOK'
    BY <1>0 DEF TypeOK, Over, vars
  <2> QED
    BY <1>10, <2>1, <2>2, <2>3
<1>11. CASE SyscallReturns
  <2>1. pc \in Half
    BY <1>11 DEF SyscallReturns, IndInv, ControlInv
  <2>2. pc' \in Addr
    BY <1>11, <2>1, AddrAssumption DEF SyscallReturns
  <2> QED
    BY <1>0, <1>11, <2>2 DEF TypeOK, SyscallReturns
<1> QED
  BY <1>1, <1>2, <1>3, <1>4, <1>5, <1>6, <1>7, <1>8, <1>9, <1>10, <1>11
     DEF Next

-----------------------------------------------------------------------------
(***************************************************************************)
(* The code of the blocks.                                                 *)
(***************************************************************************)

\* The slots a block has do not change while decode fills another one.
LEMMA DecodeKeepsSlots ==
  ASSUME IndInv, DecodeInsn \/ DecodeEnd, NEW b \in 1 .. nblk,
         NEW k \in 0 .. block[b].count - 1
  PROVE  SlotOf(b, k)' = SlotOf(b, k)
<1>1. at = "translate" /\ Fetchable(ctx_pc) /\ NextSlot \in Slots
  BY DEF DecodeInsn, DecodeEnd
<1>2. /\ cur = nblk /\ cur \in Blk
      /\ NextSlot = insn_buffer_ptr + block[cur].count
  BY <1>1, NextSlotType
<1>3. b \in Blk /\ insn_buffer_ptr \in Nat /\ cur \in 1 .. nblk
  BY <1>1, AllocatedBlk, NextSlotType DEF IndInv, TypeOK
<1>4. /\ block[b].insn \in Nat /\ block[b].count \in Nat
      /\ block[cur].count \in Nat
  BY <1>2, <1>3, BlockType DEF IndInv
<1>5. block[b].insn + k \in Slots
  BY SlotType DEF IndInv
<1>6. block[b].insn + k # NextSlot
  <2>1. CASE b = cur
    <3>1. block[b].insn = insn_buffer_ptr
      BY <1>1, <2>1 DEF IndInv, TranslateInv
    <3> QED
      BY <2>1, <3>1, <1>2, <1>3, <1>4
  <2>2. CASE b # cur
    <3>1. block[b].insn + block[b].count <= insn_buffer_ptr
      BY <1>1, <2>2 DEF IndInv, TranslateInv, CodeInv
    <3> QED
      BY <3>1, <1>2, <1>3, <1>4
  <2> QED
    BY <2>1, <2>2
<1>7. block'[b].insn = block[b].insn
  BY <1>3, DecodeBlock
<1> QED
  BY <1>5, <1>6, <1>7, DecodeBuffer DEF SlotOf

\* A step that keeps a block's shape and its slots keeps the run good.
LEMMA RunFrame ==
  ASSUME NEW b \in 1 .. nblk, TypeOK,
         GoodRun(b), text' = text,
         block'[b].pc = block[b].pc, block'[b].insn = block[b].insn,
         block'[b].count = block[b].count,
         \A k \in 0 .. block[b].count - 1 : SlotOf(b, k)' = SlotOf(b, k)
  PROVE  GoodRun(b)'
<1>1. block[b].count \in Nat
  BY AllocatedBlk, BlockType
<1>2. \A k \in 0 .. block[b].count - 2 :
        /\ k \in 0 .. block[b].count - 1
        /\ k + 1 \in 0 .. block[b].count - 1
  BY <1>1
<1>3. block[b].count > 0 => 0 \in 0 .. block[b].count - 1
  BY <1>1
<1> QED
  BY <1>2, <1>3 DEF GoodRun, GoodSlot

\* The same for what translate left in jmp_next[].pc.
LEMMA EdgeFrame ==
  ASSUME NEW b \in 1 .. nblk, TypeOK, block[b].count > 0,
         GoodEdges(b),
         block'[b].count = block[b].count,
         block'[b].pc0 = block[b].pc0, block'[b].pc1 = block[b].pc1,
         \A k \in 0 .. block[b].count - 1 : SlotOf(b, k)' = SlotOf(b, k)
  PROVE  GoodEdges(b)' /\ LastSlot(b)' = LastSlot(b)
<1>1. block[b].count \in Nat
  BY AllocatedBlk, BlockType
<1>2. block[b].count - 1 \in 0 .. block[b].count - 1
  BY <1>1
<1>3. LastSlot(b)' = LastSlot(b)
  BY <1>2 DEF LastSlot
<1> QED
  BY <1>3 DEF GoodEdges

\* The block decode is working on, after one more instruction.
LEMMA DecodeGrowsRun ==
  ASSUME IndInv, DecodeInsn \/ DecodeEnd, NEW b \in 1 .. nblk, b = cur,
         NEW n, n = block[b].count
  PROVE  /\ GoodRun(b)'
         /\ LastSlot(b)' = insn_buf'[NextSlot]
<1>1. at = "translate" /\ Fetchable(ctx_pc) /\ NextSlot \in Slots
  BY DEF DecodeInsn, DecodeEnd
<1>2. /\ cur = nblk /\ b \in Blk /\ ctx_pc \in Half
      /\ NextSlot = insn_buffer_ptr + n
  BY <1>1, NextSlotType
<1>3. n \in Nat /\ block[b].insn = insn_buffer_ptr /\ insn_buffer_ptr \in Nat
  BY <1>1, <1>2, BlockType DEF IndInv, TranslateInv, TypeOK
<1>4. /\ block'[b].count = n + 1
      /\ block'[b].insn = block[b].insn
      /\ block'[b].pc = block[b].pc
      /\ text' = text
  BY DecodeBlock DEF DecodeInsn, DecodeEnd
<1>5. SlotOf(b, n)' = insn_buf'[NextSlot]
  BY <1>2, <1>3, <1>4 DEF SlotOf
<1>6. \A k \in 0 .. n - 1 : SlotOf(b, k)' = SlotOf(b, k)
  BY DecodeKeepsSlots
<1>7. GoodRun(b)
  BY DEF IndInv, CodeInv
<1>8. insn_buf'[NextSlot].gpc = ctx_pc
  BY DecodeBuffer
<1>9. (block[b].count > 0 => block[b].insn + block[b].count <= BufSize)'
  BY <1>1, <1>2, <1>3, <1>4, SizeAssumption DEF Slots
<1>10. (\A k \in 0 .. block[b].count - 1 : GoodSlot(SlotOf(b, k)))'
  <2> SUFFICES ASSUME NEW k \in 0 .. n PROVE GoodSlot(SlotOf(b, k))'
    BY <1>3, <1>4
  <2>1. CASE k = n
    <3>1. /\ insn_buf'[NextSlot].gpc \in Half
          /\ insn_buf'[NextSlot].insn = text'[insn_buf'[NextSlot].gpc]
          /\ EndsBlock(insn_buf'[NextSlot].insn) =>
               insn_buf'[NextSlot].pc = insn_buf'[NextSlot].gpc
      BY <1>2, <1>4, DecodeBuffer
    <3> QED
      BY <2>1, <3>1, <1>5 DEF GoodSlot
  <2>2. CASE k # n
    <3>1. k \in 0 .. n - 1
      BY <2>2, <1>3
    <3>2. SlotOf(b, k)' = SlotOf(b, k) /\ GoodSlot(SlotOf(b, k))
      BY <3>1, <1>6, <1>7 DEF GoodRun
    <3> QED
      BY <3>2, <1>4 DEF GoodSlot
  <2> QED
    BY <2>1, <2>2
<1>11. SlotOf(b, 0)'.gpc = block[b].pc
  <2>1. CASE n = 0
    BY <2>1, <1>1, <1>5, <1>8 DEF IndInv, TranslateInv
  <2>2. CASE n # 0
    BY <2>2, <1>3, <1>6, <1>7 DEF GoodRun
  <2> QED
    BY <2>1, <2>2
<1>12. (\A k \in 0 .. block[b].count - 2 :
          /\ ~EndsBlock(SlotOf(b, k).insn)
          /\ SlotOf(b, k + 1).gpc
               = SlotOf(b, k).gpc + SlotOf(b, k).insn.len)'
  <2> SUFFICES ASSUME NEW k \in 0 .. n - 1
               PROVE  /\ ~EndsBlock(SlotOf(b, k)'.insn)
                      /\ SlotOf(b, k + 1)'.gpc
                           = SlotOf(b, k)'.gpc + SlotOf(b, k)'.insn.len
    BY <1>3, <1>4
  <2>1. SlotOf(b, k)' = SlotOf(b, k)
    BY <1>6
  <2>2. CASE k = n - 1
    <3>1. k + 1 = n /\ n # 0
      BY <2>2, <1>3
    <3>2. /\ ~EndsBlock(LastSlot(b).insn)
          /\ ctx_pc = LastSlot(b).gpc + LastSlot(b).insn.len
      BY <3>1, <1>1 DEF IndInv, TranslateInv
    <3>3. SlotOf(b, k) = LastSlot(b)
      BY <2>2 DEF LastSlot
    <3> QED
      BY <2>1, <3>1, <3>2, <3>3, <1>5, <1>8
  <2>3. CASE k # n - 1
    <3>1. k \in 0 .. n - 2 /\ k + 1 \in 0 .. n - 1
      BY <2>3, <1>3
    <3>2. SlotOf(b, k + 1)' = SlotOf(b, k + 1)
      BY <3>1, <1>6
    <3> QED
      BY <2>1, <3>1, <3>2, <1>7 DEF GoodRun
  <2> QED
    BY <2>2, <2>3
<1>13. LastSlot(b)' = insn_buf'[NextSlot]
  BY <1>2, <1>3, <1>4 DEF LastSlot, SlotOf
<1> QED
  BY <1>4, <1>9, <1>10, <1>11, <1>12, <1>13 DEF GoodRun

\* What new_block's allocation does to the blocks.
LEMMA NewBlockEffect ==
  ASSUME IndInv, NewBlock
  PROVE  /\ nblk' = nblk + 1 /\ cur' = nblk + 1 /\ nblk + 1 \in Blk
         /\ nblk \in Nat
         /\ \A b \in 1 .. nblk : block'[b] = block[b]
         /\ block'[nblk + 1] =
              [EmptyBlock EXCEPT !.pc = pc, !.insn = insn_buffer_ptr]
         /\ block'[nblk + 1].pc = pc
         /\ block'[nblk + 1].hash_next = NULL
<1>1. nblk \in Nat /\ nblk + 1 \in Blk /\ block \in [Blk -> Block]
  BY SizeAssumption DEF NewBlock, Room, IndInv, TypeOK, Blk
<1>2. \A b \in 1 .. nblk : b \in Blk /\ b # nblk + 1
  BY <1>1, AllocatedBlk DEF IndInv
<1>3. block'[nblk + 1] =
        [EmptyBlock EXCEPT !.pc = pc, !.insn = insn_buffer_ptr]
  BY <1>1 DEF NewBlock
<1>4. block'[nblk + 1].pc = pc /\ block'[nblk + 1].hash_next = NULL
  BY <1>3 DEF EmptyBlock
<1> QED
  BY <1>1, <1>2, <1>3, <1>4 DEF NewBlock

\* What linking the newest block does to them.
LEMMA TailLinkEffect ==
  ASSUME IndInv, TailLink
  PROVE  /\ walk \in 1 .. nblk - 1 /\ cur = nblk /\ nblk \in Nat
         /\ \A b \in Blk :
              /\ block'[b].pc = block[b].pc
              /\ block'[b].insn = block[b].insn
              /\ block'[b].count = block[b].count
              /\ block'[b].pc0 = block[b].pc0
              /\ block'[b].pc1 = block[b].pc1
              /\ block'[b].blk0 = block[b].blk0
              /\ block'[b].blk1 = block[b].blk1
              /\ block'[b].hash_next =
                   IF b = walk THEN cur ELSE block[b].hash_next
<1>1. walk \in 1 .. nblk - 1 /\ cur = nblk /\ nblk \in Nat
  BY SizeAssumption DEF TailLink, IndInv, LookupInv, TranslateInv, TypeOK
<1>2. walk \in Blk /\ block \in [Blk -> Block]
  BY <1>1, AllocatedBlk DEF IndInv, TypeOK
<1>3. block[walk] \in Block
  BY <1>2
<1> QED
  BY <1>1, <1>2, <1>3 DEF TailLink, Block

LEMMA CodeStep ==
  ASSUME IndInv, Next
  PROVE  CodeInv'
<1>0. TypeOK /\ CodeInv
  BY DEF IndInv
<1>1. CASE NewBlock
  <2>1. /\ \A b \in 1 .. nblk : block'[b] = block[b]
        /\ nblk' = nblk + 1 /\ nblk \in Nat
        /\ UNCHANGED <<text, insn_buf, insn_buffer_ptr>>
    BY <1>1, NewBlockEffect DEF NewBlock
  <2> SUFFICES ASSUME NEW b \in 1 .. nblk + 1
               PROVE (/\ GoodRun(b)
                      /\ block[b].insn <= insn_buffer_ptr
                      /\ b \in Translated =>
                           /\ block[b].count \in 1 .. TRANS_MAX
                           /\ block[b].insn + block[b].count <= insn_buffer_ptr
                           /\ GoodEdges(b))'
    BY <2>1 DEF CodeInv
  <2>2. CASE b \in 1 .. nblk
    <3>1. /\ GoodRun(b)
          /\ block[b].insn <= insn_buffer_ptr
          /\ b \in Translated =>
               /\ block[b].count \in 1 .. TRANS_MAX
               /\ block[b].insn + block[b].count <= insn_buffer_ptr
               /\ GoodEdges(b)
      BY <1>0, <2>2 DEF CodeInv
    <3>2. block'[b] = block[b]
      BY <2>1, <2>2
    <3>3. GoodRun(b)'
      BY <2>1, <3>1, <3>2 DEF GoodRun, GoodSlot, SlotOf
    <3>4. GoodEdges(b) => GoodEdges(b)'
      BY <2>1, <3>2 DEF GoodEdges, LastSlot, SlotOf
    <3>5. b \in Translated' => b \in Translated
      BY <2>1, <2>2, <3>2 DEF Translated
    <3> QED
      BY <2>1, <3>1, <3>2, <3>3, <3>4, <3>5
  <2>3. CASE b = nblk + 1
    <3>1. /\ block'[b].count = 0 /\ block'[b].insn = insn_buffer_ptr
          /\ insn_buffer_ptr' = insn_buffer_ptr /\ insn_buffer_ptr \in Nat
      BY <1>0, <1>1, <2>1, <2>3, NewBlockEffect DEF EmptyBlock, TypeOK
    <3>2. GoodRun(b)'
      BY <3>1 DEF GoodRun
    <3>3. b \notin Translated'
      BY <3>1 DEF Translated
    <3> QED
      BY <3>1, <3>2, <3>3
  <2> QED
    BY <2>1, <2>2, <2>3
<1>2. CASE TailLink
  <2>1. /\ UNCHANGED <<text, nblk, insn_buf, insn_buffer_ptr>>
        /\ \A b \in 1 .. nblk :
             /\ block'[b].pc = block[b].pc
             /\ block'[b].insn = block[b].insn
             /\ block'[b].count = block[b].count
             /\ block'[b].pc0 = block[b].pc0
             /\ block'[b].pc1 = block[b].pc1
    BY <1>0, <1>2, TailLinkEffect, AllocatedBlk DEF TailLink
  <2> QED
    BY <1>0, <2>1, CodeFrame
<1>3. CASE PatchBlock
  <2>1. /\ UNCHANGED <<text, nblk, insn_buf, insn_buffer_ptr>>
        /\ \A b \in 1 .. nblk :
             /\ block'[b].pc = block[b].pc
             /\ block'[b].insn = block[b].insn
             /\ block'[b].count = block[b].count
             /\ block'[b].pc0 = block[b].pc0
             /\ block'[b].pc1 = block[b].pc1
    BY <1>0, <1>3, PatchEffect, AllocatedBlk DEF PatchBlock
  <2> QED
    BY <1>0, <2>1, CodeFrame
<1>4. CASE DecodeInsn \/ DecodeEnd
  <2>1. at = "translate" /\ Fetchable(ctx_pc) /\ NextSlot \in Slots
    BY <1>4 DEF DecodeInsn, DecodeEnd
  <2>2. /\ cur = nblk /\ cur \in 1 .. nblk /\ cur \in Blk
        /\ block[cur].insn = insn_buffer_ptr
        /\ block[cur].pc0 = 0 /\ block[cur].pc1 = 0
        /\ block[cur].count < TRANS_MAX
    BY <2>1, NextSlotType DEF IndInv, TranslateInv
  <2>3. nblk' = nblk /\ text' = text
    BY <1>4 DEF DecodeInsn, DecodeEnd
  <2>4. /\ insn_buffer_ptr \in Nat /\ insn_buffer_ptr' \in Nat
        /\ insn_buffer_ptr <= insn_buffer_ptr'
        /\ DecodeInsn => insn_buffer_ptr' = insn_buffer_ptr
        /\ DecodeEnd =>
             insn_buffer_ptr + block[cur].count + 1 <= insn_buffer_ptr'
    <3>1. block[cur].count \in Nat /\ insn_buffer_ptr \in Nat
      BY <1>0, <2>2, BlockType DEF TypeOK
    <3>2. Grow(block[cur], ctx_pc, text[ctx_pc]).count = block[cur].count + 1
      BY <1>0, <2>1, <2>2, NextSlotType, GrowType, BlockType
    <3>3. /\ RoundUp(block[cur].count + 1) \in Nat
          /\ block[cur].count + 1 <= RoundUp(block[cur].count + 1)
      BY <3>1, RoundUpBounds
    <3>4. DecodeEnd => insn_buffer_ptr' =
                         insn_buffer_ptr + RoundUp(block[cur].count + 1)
      BY <3>2 DEF DecodeEnd
    <3>5. DecodeInsn => insn_buffer_ptr' = insn_buffer_ptr
      BY DEF DecodeInsn
    <3> QED
      BY <1>4, <3>1, <3>3, <3>4, <3>5
  <2> SUFFICES ASSUME NEW b \in 1 .. nblk
               PROVE (/\ GoodRun(b)
                      /\ block[b].insn <= insn_buffer_ptr
                      /\ b \in Translated =>
                           /\ block[b].count \in 1 .. TRANS_MAX
                           /\ block[b].insn + block[b].count <= insn_buffer_ptr
                           /\ GoodEdges(b))'
    BY <2>3 DEF CodeInv
  <2>5. b \in Blk /\ block[b].insn \in Nat /\ block[b].count \in Nat
    BY <1>0, AllocatedBlk, BlockType
  <2>6. CASE b # cur
    <3>1. block'[b] = block[b]
      BY <1>4, <2>5, <2>6, DecodeBlock
    <3>2. \A k \in 0 .. block[b].count - 1 : SlotOf(b, k)' = SlotOf(b, k)
      BY <1>4, DecodeKeepsSlots
    <3>3. GoodRun(b)'
      BY <1>0, <2>3, <3>1, <3>2, RunFrame DEF CodeInv
    <3>4. b \in Translated
      BY <2>1, <2>6 DEF IndInv, TranslateInv
    <3>5. /\ block[b].count \in 1 .. TRANS_MAX
          /\ block[b].insn + block[b].count <= insn_buffer_ptr
          /\ GoodEdges(b)
      BY <1>0, <3>4 DEF CodeInv
    <3>6. GoodEdges(b)'
      BY <1>0, <3>1, <3>2, <3>5, EdgeFrame
    <3> QED
      BY <2>4, <2>5, <3>1, <3>3, <3>5, <3>6
  <2>7. CASE b = cur
    <3>1. GoodRun(b)' /\ LastSlot(b)' = insn_buf'[NextSlot]
      BY <1>4, <2>7, DecodeGrowsRun
    <3>2. /\ block'[b].insn = insn_buffer_ptr
          /\ block'[b].count = block[b].count + 1
      BY <1>4, <2>2, <2>7, DecodeBlock
    <3>3. DecodeInsn => b \notin Translated'
      BY <2>4, <3>2 DEF Translated
    <3>4. DecodeEnd => GoodEdges(b)'
      <4> SUFFICES ASSUME DecodeEnd PROVE GoodEdges(b)'
        OBVIOUS
      <4> DEFINE insn == text[ctx_pc]
      <4>1. insn_buf'[NextSlot].insn = insn /\ insn_buf'[NextSlot].gpc = ctx_pc
        BY DecodeBuffer
      <4>2. /\ block'[b].pc1 = IF insn.op = "branch"
                               THEN ctx_pc + insn.len ELSE 0
            /\ EndsBlock(insn) =>
                 block'[b].pc0 = IF insn.op \in {"branch", "jal"}
                                 THEN insn.tgt ELSE 0
        BY <2>2, <2>7, DecodeBlock
      <4> HIDE DEF insn
      <4> QED
        BY <3>1, <4>1, <4>2 DEF GoodEdges, EndsBlock
    <3>5. (block[b].count \in 1 .. TRANS_MAX)'
      BY <2>2, <2>5, <2>7, <3>2, SizeAssumption
    <3> QED
      BY <1>4, <2>2, <2>4, <2>5, <2>7, <3>1, <3>2, <3>3, <3>4, <3>5
  <2> QED
    BY <2>6, <2>7
<1>5. CASE ~NewBlock /\ ~TailLink /\ ~PatchBlock /\ ~DecodeInsn /\ ~DecodeEnd
  <2>1. UNCHANGED <<text, cacheVars>>
    BY <1>5, QuietSteps
  <2> QED
    BY <2>1, CacheFrame DEF IndInv
<1> QED
  BY <1>1, <1>2, <1>3, <1>4, <1>5

\* insn_buffer_ptr only grows.
LEMMA BufferGrows ==
  ASSUME IndInv, Next
  PROVE  /\ insn_buffer_ptr \in Nat /\ insn_buffer_ptr' \in Nat
         /\ insn_buffer_ptr <= insn_buffer_ptr'
<1>1. insn_buffer_ptr \in Nat /\ insn_buffer_ptr' \in Nat
  BY TypeStep DEF IndInv, TypeOK
<1>2. CASE DecodeEnd
  <2>1. /\ at = "translate" /\ Fetchable(ctx_pc) /\ NextSlot \in Slots
    BY <1>2 DEF DecodeEnd
  <2>2. /\ cur \in Blk /\ ctx_pc \in Half /\ text[ctx_pc] \in Insn
    BY <2>1, NextSlotType
  <2>3. Grow(block[cur], ctx_pc, text[ctx_pc]).count \in Nat
    BY <2>2, GrowType, BlockType DEF IndInv
  <2> QED
    BY <1>1, <1>2, <2>3, RoundUpBounds DEF DecodeEnd
<1>3. CASE ~DecodeEnd
  <2>1. insn_buffer_ptr' = insn_buffer_ptr
    <3>1. CASE NewBlock \/ TailLink \/ PatchBlock \/ DecodeInsn
      BY <3>1 DEF NewBlock, TailLink, PatchBlock, DecodeInsn
    <3>2. CASE ~NewBlock /\ ~TailLink /\ ~PatchBlock /\ ~DecodeInsn
      BY <1>3, <3>2, QuietSteps DEF cacheVars
    <3> QED
      BY <3>1, <3>2
  <2> QED
    BY <1>1, <2>1
<1> QED
  BY <1>2, <1>3

\* A finished block keeps its address, its code and its place; a link
\* changes only when patch_block sets it.
LEMMA KeepsTranslated ==
  ASSUME IndInv, Next, NEW b \in Translated
  PROVE  /\ b \in Translated'
         /\ block'[b].pc = block[b].pc
         /\ block'[b].insn = block[b].insn
         /\ block'[b].count = block[b].count
         /\ block'[b].pc0 = block[b].pc0
         /\ block'[b].pc1 = block[b].pc1
         /\ \A k \in 0 .. block[b].count - 1 : SlotOf(b, k)' = SlotOf(b, k)
         /\ ~PatchBlock => /\ block'[b].blk0 = block[b].blk0
                           /\ block'[b].blk1 = block[b].blk1
<1>0. TypeOK /\ b \in 1 .. nblk /\ b \in Blk
      /\ block[b].insn < insn_buffer_ptr /\ block[b].insn \in Nat
  BY AllocatedBlk, BlockType DEF IndInv, Translated
<1>1. insn_buffer_ptr \in Nat /\ insn_buffer_ptr' \in Nat
      /\ insn_buffer_ptr <= insn_buffer_ptr'
  BY BufferGrows
<1>2. CASE NewBlock
  <2>1. /\ nblk' = nblk + 1 /\ nblk \in Nat /\ block'[b] = block[b]
        /\ insn_buf' = insn_buf
    BY <1>0, <1>2, NewBlockEffect DEF NewBlock
  <2> QED
    BY <1>0, <1>1, <2>1 DEF Translated, SlotOf
<1>3. CASE TailLink
  <2>1. nblk' = nblk /\ insn_buf' = insn_buf
    BY <1>3 DEF TailLink
  <2> QED
    BY <1>0, <1>1, <1>3, <2>1, TailLinkEffect DEF Translated, SlotOf
<1>4. CASE PatchBlock
  <2>1. nblk' = nblk /\ insn_buf' = insn_buf
    BY <1>4 DEF PatchBlock
  <2> QED
    BY <1>0, <1>1, <1>4, <2>1, PatchEffect DEF Translated, SlotOf
<1>5. CASE DecodeInsn \/ DecodeEnd
  <2>1. nblk' = nblk /\ at = "translate"
    BY <1>5 DEF DecodeInsn, DecodeEnd
  <2>2. b # cur
    BY <1>0, <2>1 DEF IndInv, TranslateInv
  <2>3. block'[b] = block[b]
    BY <1>0, <1>5, <2>2, DecodeBlock
  <2>4. \A k \in 0 .. block[b].count - 1 : SlotOf(b, k)' = SlotOf(b, k)
    BY <1>0, <1>5, DecodeKeepsSlots
  <2> QED
    BY <1>0, <1>1, <2>1, <2>3, <2>4 DEF Translated
<1>6. CASE ~NewBlock /\ ~TailLink /\ ~PatchBlock /\ ~DecodeInsn /\ ~DecodeEnd
  <2>1. UNCHANGED cacheVars
    BY <1>6, QuietSteps
  <2> QED
    BY <1>0, <2>1 DEF Translated, SlotOf, cacheVars
<1> QED
  BY <1>2, <1>3, <1>4, <1>5, <1>6

\* So what is said of its last slot and of its handlers stays true.
LEMMA KeepsRuns ==
  ASSUME IndInv, Next, NEW b \in Translated
  PROVE  LastSlot(b)' = LastSlot(b) /\ (Runs(b)' <=> Runs(b))
<1>1. b \in 1 .. nblk /\ block[b].count \in 1 .. TRANS_MAX
  BY DEF IndInv, CodeInv, Translated
<1>2. block[b].count - 1 \in 0 .. block[b].count - 1
  BY <1>1, SizeAssumption
<1>3. /\ block'[b].count = block[b].count
      /\ \A k \in 0 .. block[b].count - 1 : SlotOf(b, k)' = SlotOf(b, k)
  BY KeepsTranslated
<1> QED
  BY <1>2, <1>3 DEF LastSlot, Runs

LEMMA LinkStep ==
  ASSUME IndInv, Next
  PROVE  LinkInv'
<1>0. TypeOK /\ LinkInv /\ LinkSound
  BY DEF IndInv, LinkInv
<1> SUFFICES ASSUME NEW b \in 1 .. nblk'
             PROVE  (/\ block[b].blk0 # NULL =>
                         /\ block[b].blk0 \in Translated
                         /\ block[block[b].blk0].pc = block[b].pc0
                     /\ block[b].blk1 # NULL =>
                         /\ block[b].blk1 \in Translated
                         /\ block[block[b].blk1].pc = block[b].pc1
                     /\ block[b].blk0 # NULL \/ block[b].blk1 # NULL =>
                         b \in Translated /\ Runs(b)
                     /\ block[b].blk1 # NULL =>
                         /\ block[b].pc0 # block[b].pc1
                         /\ ~EndsBlock(LastSlot(b).insn) =>
                              block[b].pc = 0)'
  BY DEF LinkInv, LinkSound
<1>1. CASE b \in Translated
  <2>1. /\ b \in 1 .. nblk /\ b \in Blk /\ b \in Translated'
        /\ block'[b].pc = block[b].pc
        /\ block'[b].pc0 = block[b].pc0
        /\ block'[b].pc1 = block[b].pc1
        /\ LastSlot(b)' = LastSlot(b) /\ (Runs(b)' <=> Runs(b))
    BY <1>0, <1>1, KeepsTranslated, KeepsRuns, AllocatedBlk DEF Translated
  <2>2. \A c \in Translated : c \in Translated' /\ block'[c].pc = block[c].pc
    BY KeepsTranslated
  <2>3. CASE PatchBlock
    <3>1. /\ cur \in Translated /\ block[cur].pc = pc
          /\ \/ block'[b].blk0 = block[b].blk0
             \/ b = prev_block /\ block[b].pc0 = pc /\ block'[b].blk0 = cur
          /\ \/ block'[b].blk1 = block[b].blk1
             \/ /\ b = prev_block /\ block[b].pc0 # pc /\ block[b].pc1 = pc
                /\ block'[b].blk1 = cur
      BY <2>1, <2>3, PatchEffect
    <3>2. b = prev_block => /\ Runs(b)
                            /\ ~EndsBlock(LastSlot(b).insn) => pc = block[b].pc
      <4>1. at = "patch_block" /\ exception = "none"
        BY <2>3 DEF PatchBlock, IndInv, ControlInv
      <4>2. b # NULL
        BY <2>1 DEF Blk, NULL
      <4> QED
        BY <4>1, <4>2 DEF IndInv, ControlInv, Ended
    <3>3. ~EndsBlock(LastSlot(b).insn) => block[b].pc1 = 0
      BY <1>1, <2>1 DEF IndInv, CodeInv, GoodEdges
    <3> QED
      BY <1>0, <1>1, <2>1, <2>2, <3>1, <3>2, <3>3 DEF LinkInv, LinkSound
  <2>4. CASE ~PatchBlock
    <3>1. block'[b].blk0 = block[b].blk0 /\ block'[b].blk1 = block[b].blk1
      BY <1>1, <2>4, KeepsTranslated
    <3> QED
      BY <1>0, <2>1, <2>2, <3>1 DEF LinkInv, LinkSound
  <2> QED
    BY <2>3, <2>4
<1>2. CASE b \notin Translated
  <2>1. block'[b].blk0 = NULL /\ block'[b].blk1 = NULL
    <3>1. b \in 1 .. nblk => b \in Blk /\ block[b].blk0 = NULL /\ block[b].blk1 = NULL
      BY <1>0, <1>2, AllocatedBlk DEF LinkInv
    <3>2. CASE NewBlock
      <4>1. b \in 1 .. nblk \/ b = nblk + 1
        BY <3>2, NewBlockEffect
      <4> QED
        <5>1. CASE b \in 1 .. nblk
          BY <3>1, <3>2, <5>1, NewBlockEffect
        <5>2. CASE b = nblk + 1
          BY <3>2, <5>2, NewBlockEffect DEF EmptyBlock
        <5> QED
          BY <4>1, <5>1, <5>2
    <3>3. CASE TailLink
      BY <3>1, <3>3, TailLinkEffect DEF TailLink
    <3>4. CASE PatchBlock
      <4>1. nblk' = nblk /\ b # prev_block
        BY <1>2, <3>4, <3>1 DEF PatchBlock, IndInv, ControlInv, Blk, NULL
      <4> QED
        BY <3>1, <3>4, <4>1, PatchEffect
    <3>5. CASE DecodeInsn \/ DecodeEnd
      <4>1. nblk' = nblk
        BY <3>5 DEF DecodeInsn, DecodeEnd
      <4> QED
        BY <3>1, <3>5, <4>1, DecodeBlock
    <3>6. CASE ~NewBlock /\ ~TailLink /\ ~PatchBlock
               /\ ~DecodeInsn /\ ~DecodeEnd
      <4>1. UNCHANGED cacheVars
        BY <3>6, QuietSteps
      <4> QED
        BY <3>1, <4>1 DEF cacheVars
    <3> QED
      BY <3>2, <3>3, <3>4, <3>5, <3>6
  <2> QED
    BY <2>1
<1> QED
  BY <1>1, <1>2

-----------------------------------------------------------------------------
(***************************************************************************)
(* The hash table and its chains.                                          *)
(***************************************************************************)

\* A block keeps its address, and its hash_next unless TailLink sets it.
LEMMA KeepsChains ==
  ASSUME IndInv, Next, NEW b \in 1 .. nblk
  PROVE  /\ b \in Blk
         /\ block'[b].pc = block[b].pc
         /\ ~TailLink => block'[b].hash_next = block[b].hash_next
<1>1. b \in Blk
  BY AllocatedBlk DEF IndInv
<1>2. CASE NewBlock
  BY <1>1, <1>2, NewBlockEffect
<1>3. CASE TailLink
  BY <1>1, <1>3, TailLinkEffect
<1>4. CASE PatchBlock
  BY <1>1, <1>4, PatchEffect
<1>5. CASE DecodeInsn \/ DecodeEnd
  BY <1>1, <1>5, DecodeBlock
<1>6. CASE ~NewBlock /\ ~TailLink /\ ~PatchBlock /\ ~DecodeInsn /\ ~DecodeEnd
  BY <1>1, <1>6, QuietSteps DEF cacheVars
<1> QED
  BY <1>2, <1>3, <1>4, <1>5, <1>6

\* A miss of find_block: no block has the address.
LEMMA Miss ==
  ASSUME IndInv, at = "find_block", walk = NULL, NEW b \in 1 .. nblk
  PROVE  block[b].pc # pc
BY DEF IndInv, LookupInv

LEMMA UniqueStep ==
  ASSUME IndInv, Next
  PROVE  OneBlockPerPc'
<1> SUFFICES ASSUME NEW b \in 1 .. nblk', NEW c \in 1 .. nblk',
                    block'[b].pc = block'[c].pc
             PROVE  b = c
  BY DEF OneBlockPerPc
<1>1. CASE NewBlock
  <2>1. /\ nblk' = nblk + 1 /\ nblk \in Nat
        /\ block'[nblk + 1].pc = pc
        /\ at = "find_block" /\ walk = NULL
    BY <1>1, NewBlockEffect DEF NewBlock
  <2>2. \A d \in 1 .. nblk : block'[d].pc = block[d].pc /\ block[d].pc # pc
    BY <2>1, KeepsChains, Miss
  <2>3. b \in 1 .. nblk \/ b = nblk + 1
    BY <2>1
  <2>4. c \in 1 .. nblk \/ c = nblk + 1
    BY <2>1
  <2> QED
    BY <2>1, <2>2, <2>3, <2>4 DEF IndInv, OneBlockPerPc
<1>2. CASE ~NewBlock
  <2>1. nblk' = nblk
    <3>1. CASE TailLink \/ PatchBlock \/ DecodeInsn \/ DecodeEnd
      BY <3>1 DEF TailLink, PatchBlock, DecodeInsn, DecodeEnd
    <3>2. CASE ~TailLink /\ ~PatchBlock /\ ~DecodeInsn /\ ~DecodeEnd
      BY <1>2, <3>2, QuietSteps DEF cacheVars
    <3> QED
      BY <3>1, <3>2
  <2> QED
    BY <2>1, KeepsChains DEF IndInv, OneBlockPerPc
<1> QED
  BY <1>1, <1>2

\* Steps that neither allocate nor link a block.
LEMMA ChainsUnchanged ==
  ASSUME IndInv, Next, ~NewBlock, ~TailLink
  PROVE  /\ nblk' = nblk /\ table' = table
         /\ (at = "tail") <=> (at' = "tail")
<1>1. CASE PatchBlock \/ DecodeInsn \/ DecodeEnd
  BY <1>1 DEF PatchBlock, DecodeInsn, DecodeEnd
<1>2. CASE ~PatchBlock /\ ~DecodeInsn /\ ~DecodeEnd
  <2>1. nblk' = nblk /\ table' = table
    BY <1>2, QuietSteps DEF cacheVars
  <2>2. (at = "tail") <=> (at' = "tail")
    BY <1>2
       DEF Next, AllocInsnBuffer, LookUp, LeaveCpuExec, FindHit, FindNext,
           NewBlockFails, TailNext, DecodeFaults, FollowChain, LeaveBlockExec,
           DoSeq, DoWr0, DoIllegal, DoEcall, DoBranch, DoJal, DoJalr, Retire,
           SyscallReturns, SyscallExits, ReportIllegal, Over, vars
  <2> QED
    BY <2>1, <2>2
<1> QED
  BY <1>1, <1>2

LEMMA ChainStep ==
  ASSUME IndInv, Next
  PROVE  HashChains'
<1>0. TypeOK /\ HashChains /\ nblk \in Nat
  BY SizeAssumption DEF IndInv, TypeOK
<1> DEFINE S(h) == {b \in Linked : fibhash[block[b].pc] = h}
           T(h) == {b \in Linked' : fibhash[block'[b].pc] = h}
<1> SUFFICES ASSUME NEW h \in Bucket
             PROVE  /\ IsFirst(table'[h], T(h))
                    /\ \A b \in T(h) :
                         IsFirst(block'[b].hash_next, {c \in T(h) : c > b})
  BY DEF HashChains, IsFirst
<1>1. CASE ~NewBlock /\ ~TailLink
  <2>1. Linked' = Linked /\ table' = table
    BY <1>1, ChainsUnchanged DEF Linked
  <2>2. \A b \in Linked : /\ block'[b].pc = block[b].pc
                          /\ block'[b].hash_next = block[b].hash_next
    BY <1>0, <1>1, KeepsChains DEF Linked
  <2>3. T(h) = S(h)
    BY <2>1, <2>2
  <2>4. /\ IsFirst(table[h], S(h))
        /\ \A b \in S(h) : IsFirst(block[b].hash_next, {c \in S(h) : c > b})
    BY <1>0 DEF HashChains
  <2>5. \A b \in S(h) : block'[b].hash_next = block[b].hash_next
    BY <2>2
  <2> HIDE DEF S, T
  <2> QED
    BY <2>1, <2>3, <2>4, <2>5
<1>2. CASE NewBlock
  <2>1. /\ at = "find_block" /\ Linked = 1 .. nblk
        /\ nblk' = nblk + 1 /\ nblk + 1 \in Blk
        /\ block'[nblk + 1].pc = pc /\ block'[nblk + 1].hash_next = NULL
    BY <1>2, NewBlockEffect DEF NewBlock, Linked
  <2>2. \A b \in 1 .. nblk : /\ block'[b].pc = block[b].pc
                             /\ block'[b].hash_next = block[b].hash_next
    BY <1>2, NewBlockEffect
  <2>3. /\ IsFirst(table[h], S(h))
        /\ \A b \in S(h) : IsFirst(block[b].hash_next, {c \in S(h) : c > b})
    BY <1>0 DEF HashChains
  <2>4. CASE table[fibhash[pc]] # NULL
    <3>1. Linked' = Linked /\ table' = table
      BY <1>0, <1>2, <2>1, <2>4 DEF NewBlock, Linked
    <3>2. T(h) = S(h)
      BY <2>1, <2>2, <3>1
    <3>3. \A b \in S(h) : block'[b].hash_next = block[b].hash_next
      BY <2>1, <2>2
    <3> HIDE DEF S, T
    <3> QED
      BY <2>3, <3>1, <3>2, <3>3
  <2>5. CASE table[fibhash[pc]] = NULL
    <3>1. Linked' = 1 .. nblk + 1
      BY <1>2, <2>1, <2>5 DEF NewBlock, Linked
    <3>2. /\ table' = [table EXCEPT ![fibhash[pc]] = nblk + 1]
          /\ table \in [Bucket -> Blk \cup {NULL}]
      BY <1>0, <1>2, <2>5 DEF NewBlock, TypeOK
    <3>3. CASE h = fibhash[pc]
      <4>1. S(h) = {}
        <5>1. table[h] = NULL
          BY <2>5, <3>3
        <5>2. NULL \notin S(h)
          BY <2>1 DEF NULL
        <5> HIDE DEF S
        <5> QED
          BY <2>3, <5>1, <5>2 DEF IsFirst
      <4>2. T(h) = {nblk + 1}
        <5>1. \A b \in 1 .. nblk : fibhash[block'[b].pc] # h
          BY <2>1, <2>2, <4>1
        <5>2. fibhash[block'[nblk + 1].pc] = h
          BY <2>1, <3>3
        <5> QED
          BY <1>0, <3>1, <5>1, <5>2
      <4>3. table'[h] = nblk + 1
        BY <3>2, <3>3
      <4> HIDE DEF T
      <4> QED
        BY <1>0, <2>1, <4>2, <4>3 DEF IsFirst
    <3>4. CASE h # fibhash[pc]
      <4>1. T(h) = S(h)
        <5>1. fibhash[block'[nblk + 1].pc] # h
          BY <2>1, <3>4
        <5> QED
          BY <1>0, <2>1, <2>2, <3>1, <5>1
      <4>2. table'[h] = table[h]
        BY <3>2, <3>4
      <4>3. \A b \in S(h) : block'[b].hash_next = block[b].hash_next
        BY <2>1, <2>2
      <4> HIDE DEF S, T
      <4> QED
        BY <2>3, <4>1, <4>2, <4>3
    <3> QED
      BY <3>3, <3>4
  <2> QED
    BY <2>4, <2>5
<1>3. CASE TailLink
  <2>1. /\ walk \in 1 .. nblk - 1 /\ cur = nblk
        /\ Linked = 1 .. nblk - 1 /\ Linked' = 1 .. nblk
        /\ table' = table
        /\ block[walk].hash_next = NULL
        /\ block[nblk].pc = pc /\ block[nblk].hash_next = NULL
        /\ fibhash[block[walk].pc] = fibhash[pc]
    BY <1>3, TailLinkEffect
       DEF TailLink, Linked, IndInv, LookupInv, TranslateInv
  <2>2. \A b \in 1 .. nblk :
          /\ block'[b].pc = block[b].pc
          /\ block'[b].hash_next = IF b = walk THEN nblk
                                   ELSE block[b].hash_next
    BY <1>0, <1>3, <2>1, AllocatedBlk, TailLinkEffect
  <2>3. /\ IsFirst(table[h], S(h))
        /\ \A b \in S(h) : IsFirst(block[b].hash_next, {c \in S(h) : c > b})
    BY <1>0 DEF HashChains
  <2>4. CASE h # fibhash[pc]
    <3>1. T(h) = S(h)
      BY <1>0, <2>1, <2>2, <2>4
    <3>2. walk \notin S(h)
      BY <2>1, <2>4
    <3>3. \A b \in S(h) : block'[b].hash_next = block[b].hash_next
      BY <1>0, <2>1, <2>2, <3>2
    <3> HIDE DEF S, T
    <3> QED
      BY <2>1, <2>3, <3>1, <3>3
  <2>5. CASE h = fibhash[pc]
    <3>1. T(h) = S(h) \cup {nblk}
      BY <1>0, <2>1, <2>2, <2>5
    <3>2. walk \in S(h) /\ S(h) \subseteq 1 .. nblk - 1
      BY <2>1, <2>5
    <3>3. \A c \in S(h) : c <= walk
      <4>1. IsFirst(NULL, {c \in S(h) : c > walk})
        BY <2>1, <2>3, <3>2
      <4>2. {c \in S(h) : c > walk} = {}
        BY <4>1, <3>2 DEF IsFirst, NULL
      <4> QED
        BY <4>2, <3>2, <1>0, <2>1
    <3>4. IsFirst(table'[h], T(h))
      <4>1. IsFirst(table[h], S(h)) /\ S(h) # {}
        BY <2>3, <3>2
      <4> HIDE DEF S, T
      <4> QED
        BY <1>0, <2>1, <3>1, <3>2, <4>1 DEF IsFirst
    <3>5. ASSUME NEW b \in T(h)
          PROVE  IsFirst(block'[b].hash_next, {c \in T(h) : c > b})
      <4>1. CASE b = nblk
        <5>1. {c \in T(h) : c > b} = {}
          BY <1>0, <3>1, <3>2, <4>1
        <5>2. block'[b].hash_next = NULL
          BY <1>0, <2>1, <2>2, <4>1
        <5> QED
          BY <5>1, <5>2 DEF IsFirst
      <4>2. CASE b = walk
        <5>1. {c \in T(h) : c > b} = {nblk}
          BY <1>0, <2>1, <3>1, <3>2, <3>3, <4>2
        <5>2. block'[b].hash_next = nblk
          BY <1>0, <2>1, <2>2, <4>2
        <5> QED
          BY <1>0, <5>1, <5>2 DEF IsFirst
      <4>3. CASE b # nblk /\ b # walk
        <5>1. b \in S(h) /\ b < walk
          BY <1>0, <2>1, <3>1, <3>2, <3>3, <4>3
        <5>2. block'[b].hash_next = block[b].hash_next
          BY <1>0, <2>1, <2>2, <3>2, <4>3, <5>1
        <5>3. IsFirst(block[b].hash_next, {c \in S(h) : c > b})
          BY <2>3, <5>1
        <5>4. walk \in {c \in S(h) : c > b}
          BY <2>1, <3>2, <5>1
        <5>5. {c \in T(h) : c > b} = {c \in S(h) : c > b} \cup {nblk}
          BY <1>0, <2>1, <3>1, <3>2, <5>1
        <5>6. block[b].hash_next \in S(h)
          BY <5>3, <5>4 DEF IsFirst
        <5>7. block[b].hash_next <= nblk
          BY <1>0, <3>2, <5>6
        <5> HIDE DEF S, T
        <5> QED
          BY <5>2, <5>3, <5>4, <5>5, <5>7 DEF IsFirst
      <4> QED
        BY <4>1, <4>2, <4>3
    <3> QED
      BY <3>4, <3>5
  <2> QED
    BY <2>4, <2>5
<1> QED
  BY <1>1, <1>2, <1>3

\* A chain's successor of a block is a later block of the same bucket, and
\* no block of the bucket lies between the two.
LEMMA ChainNext ==
  ASSUME IndInv, NEW b \in Linked
  PROVE  /\ block[b].hash_next # NULL =>
              /\ block[b].hash_next \in Linked
              /\ block[b].hash_next > b
              /\ fibhash[block[block[b].hash_next].pc] = fibhash[block[b].pc]
         /\ \A c \in Linked :
              fibhash[block[c].pc] = fibhash[block[b].pc] /\ c > b =>
                block[b].hash_next # NULL /\ block[b].hash_next <= c
<1>1. nblk \in Nat /\ Linked \subseteq 1 .. nblk
  BY SizeAssumption DEF IndInv, TypeOK, Linked
<1>2. b \in Blk /\ fibhash[block[b].pc] \in Bucket
  BY <1>1, AllocatedBlk, BlockType, AddrAssumption DEF IndInv
<1> DEFINE h == fibhash[block[b].pc]
           S == {c \in Linked : fibhash[block[c].pc] = h}
<1>3. IsFirst(block[b].hash_next, {c \in S : c > b})
  BY <1>2 DEF IndInv, HashChains
<1>4. CASE {c \in S : c > b} = {}
  BY <1>3, <1>4 DEF IsFirst
<1>5. CASE {c \in S : c > b} # {}
  BY <1>1, <1>3, <1>5 DEF IsFirst, NULL
<1> QED
  BY <1>4, <1>5

LEMMA LookupStep ==
  ASSUME IndInv, Next
  PROVE  LookupInv'
<1>0. TypeOK /\ nblk \in Nat
  BY SizeAssumption DEF IndInv, TypeOK
<1>1. CASE LookUp
  <2>1. /\ at' = "find_block" /\ walk' = table[fibhash[pc]]
        /\ UNCHANGED <<pc, block, nblk>> /\ Linked = 1 .. nblk
    BY <1>1 DEF LookUp, cacheVars, Linked
  <2>2. fibhash[pc] \in Bucket
    BY <1>0, AddrAssumption DEF TypeOK
  <2>3. IsFirst(table[fibhash[pc]],
                {b \in Linked : fibhash[block[b].pc] = fibhash[pc]})
    BY <2>2 DEF IndInv, HashChains
  <2> QED
    BY <1>0, <2>1, <2>3 DEF LookupInv, IsFirst, NULL
<1>2. CASE FindNext
  <2>1. /\ at = "find_block" /\ at' = at /\ walk' = block[walk].hash_next
        /\ walk # NULL /\ block[walk].pc # pc
        /\ UNCHANGED <<pc, block, nblk>> /\ Linked = 1 .. nblk
    BY <1>2 DEF FindNext, cacheVars, Linked
  <2>2. walk \in Linked /\ fibhash[block[walk].pc] = fibhash[pc]
    BY <2>1 DEF IndInv, LookupInv
  <2>3. ASSUME walk' # NULL
        PROVE  walk' \in 1 .. nblk /\ fibhash[block[walk'].pc] = fibhash[pc]
    BY <2>1, <2>2, <2>3, ChainNext
  <2>4. ASSUME NEW b \in 1 .. nblk, walk' = NULL \/ b < walk'
        PROVE  block[b].pc # pc
    <3>1. CASE b < walk
      BY <2>1, <3>1 DEF IndInv, LookupInv
    <3>2. CASE b = walk
      BY <2>1, <3>2
    <3>3. CASE b > walk
      <4>1. \/ fibhash[block[b].pc] # fibhash[block[walk].pc]
            \/ walk' # NULL /\ walk' <= b
        BY <2>1, <2>2, <3>3, ChainNext
      <4>2. CASE walk' # NULL /\ walk' <= b
        BY <1>0, <2>3, <2>4, <4>2
      <4> QED
        BY <2>2, <4>1, <4>2
    <3> QED
      BY <1>0, <2>1, <2>2, <3>1, <3>2, <3>3
  <2> QED
    BY <2>1, <2>3, <2>4 DEF LookupInv
<1>3. CASE NewBlock
  <2>1. CASE table[fibhash[pc]] = NULL
    BY <1>3, <2>1 DEF NewBlock, LookupInv
  <2>2. CASE table[fibhash[pc]] # NULL
    <3>1. /\ at' = "tail" /\ walk' = table[fibhash[pc]] /\ pc' = pc
          /\ nblk' = nblk + 1 /\ Linked = 1 .. nblk
      BY <1>3, <2>2 DEF NewBlock, Linked
    <3>2. fibhash[pc] \in Bucket
      BY <1>0, AddrAssumption DEF TypeOK
    <3>3. IsFirst(table[fibhash[pc]],
                  {b \in Linked : fibhash[block[b].pc] = fibhash[pc]})
      BY <3>2 DEF IndInv, HashChains
    <3>4. walk' \in 1 .. nblk /\ fibhash[block[walk'].pc] = fibhash[pc]
      BY <2>2, <3>1, <3>3 DEF IsFirst
    <3>5. block'[walk'].pc = block[walk'].pc
      BY <1>3, <3>4, NewBlockEffect
    <3> QED
      BY <1>0, <3>1, <3>4, <3>5 DEF LookupInv
  <2> QED
    BY <2>1, <2>2
<1>4. CASE TailNext
  <2>1. /\ at = "tail" /\ at' = at /\ walk' = block[walk].hash_next
        /\ block[walk].hash_next # NULL
        /\ UNCHANGED <<pc, block, nblk>> /\ Linked = 1 .. nblk - 1
    BY <1>4 DEF TailNext, cacheVars, Linked
  <2>2. walk \in Linked /\ fibhash[block[walk].pc] = fibhash[pc]
    BY <2>1 DEF IndInv, LookupInv
  <2> QED
    BY <2>1, <2>2, ChainNext DEF LookupInv
<1>5. CASE ~LookUp /\ ~FindNext /\ ~NewBlock /\ ~TailNext
  <2>1. at' \notin {"find_block", "tail"}
    BY <1>5
       DEF Next, AllocInsnBuffer, LeaveCpuExec, FindHit, NewBlockFails,
           TailLink, DecodeFaults, DecodeInsn, DecodeEnd, PatchBlock,
           FollowChain, LeaveBlockExec, DoSeq, DoWr0, DoIllegal, DoEcall,
           DoBranch, DoJal, DoJalr, Retire, SyscallReturns, SyscallExits,
           ReportIllegal, Over, vars, Ended
  <2> QED
    BY <2>1 DEF LookupInv
<1> QED
  BY <1>1, <1>2, <1>3, <1>4, <1>5

LEMMA TranslateStep ==
  ASSUME IndInv, Next
  PROVE  TranslateInv'
<1>0. TypeOK /\ nblk \in Nat
  BY SizeAssumption DEF IndInv, TypeOK
<1>1. CASE NewBlock
  <2>1. /\ nblk' = nblk + 1 /\ cur' = nblk + 1
        /\ pc' = pc /\ ctx_pc' = pc /\ insn_buffer_ptr' = insn_buffer_ptr
        /\ at = "find_block"
    BY <1>1 DEF NewBlock
  <2>2. block'[nblk + 1] =
          [EmptyBlock EXCEPT !.pc = pc, !.insn = insn_buffer_ptr]
    BY <1>1, NewBlockEffect
  <2>3. /\ block'[nblk + 1].pc = pc
        /\ block'[nblk + 1].insn = insn_buffer_ptr
        /\ block'[nblk + 1].count = 0
        /\ block'[nblk + 1].pc0 = 0 /\ block'[nblk + 1].blk0 = NULL
        /\ block'[nblk + 1].pc1 = 0 /\ block'[nblk + 1].blk1 = NULL
        /\ block'[nblk + 1].hash_next = NULL
    BY <2>2 DEF EmptyBlock
  <2>4. \A b \in 1 .. nblk + 1 : b # nblk + 1 => b \in Translated'
    <3>1. \A b \in 1 .. nblk : b \in Translated
      BY <2>1 DEF IndInv, ControlInv
    <3> QED
      BY <1>0, <3>1, KeepsTranslated
  <2> QED
    BY <1>0, <2>1, <2>3, <2>4, SizeAssumption DEF TranslateInv
<1>2. CASE TailNext
  BY <1>2
     DEF TailNext, IndInv, TranslateInv, cacheVars, LastSlot, SlotOf, Translated
<1>3. CASE TailLink
  <2>1. /\ UNCHANGED <<nblk, cur, pc, ctx_pc, insn_buffer_ptr>>
        /\ at = "tail" /\ at' = "translate"
    BY <1>3 DEF TailLink
  <2>2. /\ cur = nblk /\ cur # walk /\ cur \in Blk /\ nblk > 0
        /\ block[cur].count = 0 /\ ctx_pc = pc
        /\ block[cur].pc = pc /\ block[cur].insn = insn_buffer_ptr
        /\ block[cur].pc0 = 0 /\ block[cur].blk0 = NULL
        /\ block[cur].pc1 = 0 /\ block[cur].blk1 = NULL
        /\ block[cur].hash_next = NULL
        /\ \A b \in 1 .. nblk : b # cur => b \in Translated
    BY <1>0, <1>3, <2>1, TailLinkEffect, AllocatedBlk
       DEF IndInv, TranslateInv
  <2>3. \A b \in 1 .. nblk : b # cur => b \in Translated'
    BY <2>2, KeepsTranslated
  <2> QED
    BY <1>3, <2>1, <2>2, <2>3, TailLinkEffect, SizeAssumption DEF TranslateInv
<1>4. CASE DecodeInsn
  <2>1. /\ UNCHANGED <<nblk, cur, pc, insn_buffer_ptr>>
        /\ at = "translate" /\ at' = "translate"
        /\ Fetchable(ctx_pc) /\ NextSlot \in Slots
        /\ ~EndsBlock(text[ctx_pc])
        /\ block[cur].count + 1 < TRANS_MAX
        /\ ctx_pc' = ctx_pc + text[ctx_pc].len
    BY <1>4 DEF DecodeInsn
  <2>2. /\ cur = nblk /\ cur \in 1 .. nblk /\ cur \in Blk
        /\ nblk > 0
        /\ block[cur].pc = pc /\ block[cur].insn = insn_buffer_ptr
        /\ block[cur].pc0 = 0 /\ block[cur].blk0 = NULL
        /\ block[cur].pc1 = 0 /\ block[cur].blk1 = NULL
        /\ block[cur].hash_next = NULL
        /\ \A b \in 1 .. nblk : b # cur => b \in Translated
    BY <2>1, NextSlotType DEF IndInv, TranslateInv
  <2>3. text[ctx_pc].op # "branch"
    BY <2>1 DEF EndsBlock
  <2>4. /\ block'[cur].pc = pc /\ block'[cur].insn = insn_buffer_ptr
        /\ block'[cur].pc0 = 0 /\ block'[cur].blk0 = NULL
        /\ block'[cur].pc1 = 0 /\ block'[cur].blk1 = NULL
        /\ block'[cur].hash_next = NULL
        /\ block'[cur].count = block[cur].count + 1
    BY <1>4, <2>1, <2>2, <2>3, DecodeBlock
  <2>5. block[cur].count \in Nat
    BY <1>0, <2>2, BlockType
  <2>6. LastSlot(cur)' = insn_buf'[NextSlot]
    <3>1. \A b \in 1 .. nblk : b = cur => LastSlot(b)' = insn_buf'[NextSlot]
      BY <1>4, DecodeGrowsRun
    <3>2. PICK b \in 1 .. nblk : b = cur
      BY <2>2
    <3>3. cur' = b /\ LastSlot(b)' = insn_buf'[NextSlot]
      BY <2>1, <3>1, <3>2
    <3> QED
      BY <3>3 DEF LastSlot, SlotOf
  <2>7. insn_buf'[NextSlot].insn = text[ctx_pc] /\ insn_buf'[NextSlot].gpc = ctx_pc
    BY <1>4, DecodeBuffer
  <2>8. \A b \in 1 .. nblk : b # cur => b \in Translated'
    BY <2>2, KeepsTranslated
  <2> QED
    BY <2>1, <2>2, <2>4, <2>5, <2>6, <2>7, <2>8 DEF TranslateInv
<1>5. CASE ~NewBlock /\ ~TailNext /\ ~TailLink /\ ~DecodeInsn
  <2>1. at' \notin {"tail", "translate"}
    BY <1>5
       DEF Next, AllocInsnBuffer, LookUp, LeaveCpuExec, FindHit, FindNext,
           NewBlockFails, DecodeFaults, DecodeEnd, PatchBlock,
           FollowChain, LeaveBlockExec, DoSeq, DoWr0, DoIllegal, DoEcall,
           DoBranch, DoJal, DoJalr, Retire, SyscallReturns, SyscallExits,
           ReportIllegal, Over, vars, Ended
  <2> QED
    BY <2>1 DEF TranslateInv
<1> QED
  BY <1>1, <1>2, <1>3, <1>4, <1>5

-----------------------------------------------------------------------------
(***************************************************************************)
(* Execution.                                                              *)
(***************************************************************************)

\* Only the last instruction of a block ends it.
LEMMA ThisSlot ==
  ASSUME IndInv, at = "block_exec"
  PROVE  /\ cur \in Translated
         /\ block[cur].count \in Nat /\ i \in Nat /\ i < block[cur].count
         /\ i + 1 < block[cur].count => ~EndsBlock(This.insn)
         /\ ~(i + 1 < block[cur].count) =>
              i + 1 = block[cur].count /\ This = LastSlot(cur)
<1>1. /\ cur \in Translated /\ cur \in 1 .. nblk
      /\ i \in 0 .. block[cur].count - 1 /\ This = SlotOf(cur, i)
  BY ThisType DEF IndInv, ExecInv
<1>2. block[cur].count \in Nat
  BY ThisType, BlockType DEF IndInv
<1>3. i + 1 < block[cur].count => i \in 0 .. block[cur].count - 2
  BY <1>1, <1>2
<1>4. i + 1 < block[cur].count => ~EndsBlock(This.insn)
  BY <1>1, <1>3 DEF IndInv, CodeInv, GoodRun
<1>5. ~(i + 1 < block[cur].count) =>
        i + 1 = block[cur].count /\ This = LastSlot(cur)
  BY <1>1, <1>2 DEF LastSlot
<1> QED
  BY <1>1, <1>2, <1>4, <1>5

\* The block block_exec chains to is the block for env->pc, and no
\* exception is pending: the handlers of a linked block raise none.
LEMMA ChainTarget ==
  ASSUME IndInv, at = "next", Chained(cur) # NULL
  PROVE  /\ Chained(cur) \in Translated
         /\ block[Chained(cur)].pc = pc
         /\ exception = "none"
<1>1. /\ cur \in Translated /\ cur \in 1 .. nblk
      /\ i = block[cur].count
  BY DEF IndInv, ExecInv, Translated
<1>2. block[cur].blk0 # NULL \/ block[cur].blk1 # NULL
  BY DEF Chained
<1>3. Runs(cur)
  BY <1>1, <1>2 DEF IndInv, LinkInv
<1>4. exception = "none"
  BY <1>1, <1>3 DEF IndInv, ExecInv, Runs
<1>5. CASE pc = block[cur].pc0
  BY <1>1, <1>4, <1>5 DEF Chained, IndInv, LinkInv, LinkSound
<1>6. CASE pc # block[cur].pc0
  <2>1. Chained(cur) = block[cur].blk1
    BY <1>6 DEF Chained
  <2>2. /\ block[cur].blk1 \in Translated
        /\ block[block[cur].blk1].pc = block[cur].pc1
        /\ block[cur].pc0 # block[cur].pc1
        /\ ~EndsBlock(LastSlot(cur).insn) => block[cur].pc = 0
    BY <1>1, <2>1 DEF IndInv, LinkInv, LinkSound
  <2>3. GoodEdges(cur)
    BY <1>1 DEF IndInv, CodeInv
  <2> DEFINE s == LastSlot(cur)
  <2>4. /\ s.insn.op = "branch" => pc \in {s.insn.tgt, s.gpc + s.insn.len}
        /\ s.insn.op = "jal" => pc = s.insn.tgt
        /\ ~EndsBlock(s.insn) => pc = block[cur].pc
    BY <1>4 DEF IndInv, ExecInv
  <2>5. pc = block[cur].pc1
    <3> HIDE DEF s
    <3>1. CASE s.insn.op = "branch"
      BY <1>6, <2>3, <2>4, <3>1 DEF GoodEdges, s
    <3>2. CASE s.insn.op = "jal"
      BY <1>6, <2>3, <2>4, <3>2 DEF GoodEdges, s
    <3>3. CASE s.insn.op \in {"jalr", "ecall", "illegal"}
      BY <2>2, <2>3, <3>3 DEF GoodEdges, s
    <3>4. CASE ~EndsBlock(s.insn)
      BY <2>2, <2>3, <2>4, <3>4 DEF GoodEdges, s
    <3> QED
      BY <3>1, <3>2, <3>3, <3>4 DEF EndsBlock
  <2> QED
    BY <1>4, <2>1, <2>2, <2>5
<1> QED
  BY <1>5, <1>6

\* The handlers.
HandlerStep ==
  DoSeq \/ DoIllegal \/ DoEcall \/ DoBranch \/ DoJal \/ DoJalr

\* What a handler leaves in env->exception and env->pc.
LEMMA HandlerEffect ==
  ASSUME IndInv, HandlerStep
  PROVE  /\ at = "block_exec"
         /\ UNCHANGED <<text, cacheVars, cur, prev_block>>
         /\ i' = i + 1
         /\ at' = IF i + 1 < block[cur].count THEN "block_exec" ELSE "next"
         /\ exception' = IF Raises(This.insn)
                         THEN IF This.insn.op = "ecall"
                              THEN "ecall" ELSE "illegal"
                         ELSE exception
         /\ This.insn.op = "branch" =>
              pc' \in {This.insn.tgt, This.gpc + This.insn.len}
         /\ This.insn.op = "jal" => pc' = This.insn.tgt
         /\ This.insn.op = "ecall" => pc' = This.gpc
         /\ ~EndsBlock(This.insn) /\ ~Raises(This.insn) => pc' = pc
<1>1. at = "block_exec"
  BY DEF HandlerStep, DoSeq, DoIllegal, DoEcall, DoBranch, DoJal, DoJalr
<1>2. GoodSlot(This)
  BY <1>1, ThisType
<1>3. EndsBlock(This.insn) => This.pc = This.gpc
  BY <1>2 DEF GoodSlot
<1>4. /\ UNCHANGED <<text, cacheVars, cur, prev_block>>
      /\ i' = i + 1
      /\ at' = IF i + 1 < block[cur].count THEN "block_exec" ELSE "next"
  BY DEF HandlerStep, DoSeq, DoIllegal, DoEcall, DoBranch, DoJal, DoJalr,
         Retire
<1>5. CASE DoSeq
  BY <1>1, <1>4, <1>5 DEF DoSeq, Raises
<1>6. CASE DoIllegal
  BY <1>1, <1>4, <1>6 DEF DoIllegal, Raises
<1>7. CASE DoEcall
  BY <1>1, <1>3, <1>4, <1>7 DEF DoEcall, Raises, EndsBlock
<1>8. CASE DoBranch
  <2>1. This.insn.op = "branch" /\ This.pc = This.gpc
    BY <1>3, <1>8 DEF DoBranch, EndsBlock
  <2>2. pc' \in {This.insn.tgt, This.gpc + This.insn.len}
    BY <1>8, <2>1 DEF DoBranch
  <2>3. exception' = exception
    BY <1>8 DEF DoBranch
  <2> QED
    BY <1>1, <1>4, <2>1, <2>2, <2>3 DEF Raises, EndsBlock
<1>9. CASE DoJal
  BY <1>1, <1>4, <1>9 DEF DoJal, Raises, EndsBlock
<1>10. CASE DoJalr
  BY <1>1, <1>4, <1>10 DEF DoJalr, Raises, EndsBlock
<1> QED
  BY <1>5, <1>6, <1>7, <1>8, <1>9, <1>10 DEF HandlerStep

LEMMA ExecStep ==
  ASSUME IndInv, Next
  PROVE  ExecInv'
<1>1. CASE PatchBlock
  <2>1. /\ at = "patch_block" /\ at' = "block_exec" /\ i' = 0
        /\ prev_block' = NULL
        /\ UNCHANGED <<cur, pc, exception>>
    BY <1>1 DEF PatchBlock
  <2>2. cur \in Translated /\ block[cur].pc = pc /\ exception = "none"
    BY <2>1 DEF IndInv, ControlInv
  <2>3. /\ cur \in Translated' /\ block'[cur].pc = pc
        /\ block'[cur].count = block[cur].count
    BY <2>2, KeepsTranslated
  <2>4. block[cur].count \in 1 .. TRANS_MAX
    BY <2>2 DEF IndInv, CodeInv, Translated
  <2>5. (\A k \in 0 .. i - 1 : FALSE)'
    BY <2>1
  <2> QED
    BY <2>1, <2>2, <2>3, <2>4, <2>5, SizeAssumption DEF ExecInv
<1>2. CASE FollowChain
  <2>1. /\ at = "next" /\ at' = "block_exec" /\ i' = 0
        /\ cur' = Chained(cur) /\ Chained(cur) # NULL
        /\ UNCHANGED <<pc, exception, prev_block, cacheVars>>
    BY <1>2 DEF FollowChain
  <2>2. /\ Chained(cur) \in Translated
        /\ block[Chained(cur)].pc = pc
        /\ exception = "none"
        /\ prev_block = NULL
    BY <2>1, ChainTarget DEF IndInv, ExecInv
  <2>3. cur' \in Translated' /\ block'[cur'].pc = pc
    BY <2>1, <2>2, KeepsTranslated
  <2>4. block[cur'].count \in 1 .. TRANS_MAX /\ block' = block
    BY <2>1, <2>2 DEF IndInv, CodeInv, Translated, cacheVars
  <2>5. (\A k \in 0 .. i - 1 : FALSE)'
    BY <2>1
  <2> QED
    BY <2>1, <2>2, <2>3, <2>4, <2>5, SizeAssumption DEF ExecInv
<1>3. CASE HandlerStep
  <2>1. /\ at = "block_exec"
        /\ UNCHANGED <<text, cacheVars, cur, prev_block>>
        /\ i' = i + 1
        /\ at' = IF i + 1 < block[cur].count THEN "block_exec" ELSE "next"
        /\ exception' = IF Raises(This.insn)
                        THEN IF This.insn.op = "ecall"
                             THEN "ecall" ELSE "illegal"
                        ELSE exception
        /\ This.insn.op = "branch" =>
             pc' \in {This.insn.tgt, This.gpc + This.insn.len}
        /\ This.insn.op = "jal" => pc' = This.insn.tgt
        /\ ~EndsBlock(This.insn) /\ ~Raises(This.insn) => pc' = pc
    BY <1>3, HandlerEffect
  <2>2. /\ cur \in Translated
        /\ block[cur].count \in Nat /\ i \in Nat /\ i < block[cur].count
        /\ i + 1 < block[cur].count => ~EndsBlock(This.insn)
        /\ ~(i + 1 < block[cur].count) =>
             i + 1 = block[cur].count /\ This = LastSlot(cur)
    BY <2>1, ThisSlot
  <2>3. This = SlotOf(cur, i) /\ This.insn.op \in Op
    BY <2>1, ThisType DEF Insn
  <2>4. /\ prev_block = NULL
        /\ exception = "none" =>
             \A k \in 0 .. i - 1 : ~Raises(SlotOf(cur, k).insn)
        /\ exception # "none" =>
             \E k \in 0 .. i - 1 : Raises(SlotOf(cur, k).insn)
        /\ exception \in {"none", "illegal"}
        /\ exception = "none" => block[cur].pc = pc
    BY <2>1 DEF IndInv, ExecInv
  <2>5. /\ cur' \in Translated' /\ block' = block /\ cur' = cur
        /\ LastSlot(cur)' = LastSlot(cur)
        /\ \A k : SlotOf(cur, k)' = SlotOf(cur, k)
    BY <2>1, <2>2 DEF Translated, cacheVars, LastSlot, SlotOf
  <2>6. exception' = "none" =>
          \A k \in 0 .. i : ~Raises(SlotOf(cur, k).insn)
    <3> SUFFICES ASSUME exception' = "none", NEW k \in 0 .. i
                 PROVE  ~Raises(SlotOf(cur, k).insn)
      OBVIOUS
    <3>1. ~Raises(This.insn) /\ exception = "none"
      BY <2>1
    <3> QED
      BY <2>2, <2>3, <2>4, <3>1
  <2>7. exception' # "none" =>
          \E k \in 0 .. i : Raises(SlotOf(cur, k).insn)
    <3>1. CASE Raises(This.insn)
      BY <2>2, <2>3, <3>1
    <3>2. CASE ~Raises(This.insn)
      BY <2>1, <2>2, <2>4, <3>2
    <3> QED
      BY <3>1, <3>2
  <2>8. 0 .. i' - 1 = 0 .. i
    BY <2>1, <2>2
  <2>9. /\ exception' = "none" =>
             \A k \in 0 .. i' - 1 : ~Raises(SlotOf(cur, k)'.insn)
        /\ exception' # "none" =>
             \E k \in 0 .. i' - 1 : Raises(SlotOf(cur, k)'.insn)
    BY <2>5, <2>6, <2>7, <2>8
  <2>10. ASSUME at' = "block_exec"
         PROVE  /\ i' < block[cur].count
                /\ exception' \in {"none", "illegal"}
                /\ exception' = "none" => block[cur].pc = pc'
    <3>1. i + 1 < block[cur].count /\ ~EndsBlock(This.insn)
      BY <2>1, <2>2, <2>10
    <3>2. This.insn.op # "ecall"
      BY <3>1 DEF EndsBlock
    <3> QED
      BY <2>1, <2>4, <3>1, <3>2
  <2>11. ASSUME at' = "next"
         PROVE  /\ i' = block[cur].count
                /\ exception' = "none" =>
                     /\ LastSlot(cur).insn.op = "branch" =>
                          pc' \in {LastSlot(cur).insn.tgt,
                                   LastSlot(cur).gpc + LastSlot(cur).insn.len}
                     /\ LastSlot(cur).insn.op = "jal" =>
                          pc' = LastSlot(cur).insn.tgt
                     /\ ~EndsBlock(LastSlot(cur).insn) =>
                          pc' = block[cur].pc
    <3>1. i + 1 = block[cur].count /\ This = LastSlot(cur)
      BY <2>1, <2>2, <2>11
    <3>2. exception' = "none" => ~Raises(This.insn) /\ exception = "none"
      BY <2>1
    <3> QED
      BY <2>1, <2>4, <3>1, <3>2
  <2>12. at' \in {"block_exec", "next"} /\ prev_block' = NULL
    BY <2>1, <2>4
  <2> QED
    BY <2>5, <2>9, <2>10, <2>11, <2>12 DEF ExecInv, LastSlot, SlotOf
<1>4. CASE ~PatchBlock /\ ~FollowChain /\ ~HandlerStep
  <2>1. at' \notin {"block_exec", "next"}
    BY <1>4
       DEF Next, AllocInsnBuffer, LookUp, LeaveCpuExec, FindHit, FindNext,
           NewBlockFails, NewBlock, TailNext, TailLink, DecodeFaults,
           DecodeInsn, DecodeEnd, LeaveBlockExec, DoWr0, SyscallReturns,
           SyscallExits, ReportIllegal, Over, vars, Ended, HandlerStep
  <2> QED
    BY <2>1 DEF ExecInv
<1> QED
  BY <1>1, <1>2, <1>3, <1>4

LEMMA ControlStep ==
  ASSUME IndInv, Next
  PROVE  ControlInv'
<1>0. TypeOK /\ nblk \in Nat
  BY SizeAssumption DEF IndInv, TypeOK
\* The program is never replaced.
<1>1. text' \in Programs
  <2>1. text' = text
    <3>1. CASE NewBlock \/ TailLink \/ PatchBlock \/ DecodeInsn \/ DecodeEnd
      BY <3>1 DEF NewBlock, TailLink, PatchBlock, DecodeInsn, DecodeEnd
    <3>2. CASE ~NewBlock /\ ~TailLink /\ ~PatchBlock /\ ~DecodeInsn
               /\ ~DecodeEnd
      BY <3>2, QuietSteps
    <3> QED
      BY <3>1, <3>2
  <2> QED
    BY <2>1 DEF IndInv, ControlInv
\* Outside translation every allocated block is translated.
<1>2. at' \notin {"tail", "translate", "segv"} =>
        \A b \in 1 .. nblk' : b \in Translated'
  <2>1. CASE DecodeEnd
    <3>1. /\ at = "translate" /\ Fetchable(ctx_pc) /\ NextSlot \in Slots
          /\ nblk' = nblk
      BY <2>1 DEF DecodeEnd
    <3>2. /\ cur = nblk /\ cur \in 1 .. nblk /\ cur \in Blk
          /\ block[cur].insn = insn_buffer_ptr
          /\ \A b \in 1 .. nblk : b # cur => b \in Translated
      BY <3>1, NextSlotType DEF IndInv, TranslateInv
    <3>3. block[cur].count + 1 \in Nat /\ block[cur].count + 1 > 0
      BY <1>0, <3>2, BlockType
    <3>4. Grow(block[cur], ctx_pc, text[ctx_pc]).count = block[cur].count + 1
      BY <1>0, <3>1, <3>2, NextSlotType, GrowType, BlockType
    <3>5. insn_buffer_ptr < insn_buffer_ptr'
      BY <1>0, <2>1, <3>3, <3>4, RoundUpBounds DEF DecodeEnd, TypeOK
    <3>6. block'[cur].insn = block[cur].insn
      BY <2>1, DecodeBlock
    <3> QED
      BY <3>1, <3>2, <3>5, <3>6, KeepsTranslated DEF Translated
  <2>2. CASE ~DecodeEnd
    <3>1. at' \notin {"tail", "translate", "segv"} =>
            nblk' = nblk /\ at \notin {"tail", "translate", "segv"}
      <4>1. CASE AllocInsnBuffer \/ LookUp \/ LeaveCpuExec \/ FindHit
                 \/ FindNext \/ PatchBlock \/ FollowChain \/ LeaveBlockExec
        BY <4>1 DEF AllocInsnBuffer, LookUp, LeaveCpuExec, FindHit, FindNext,
                    PatchBlock, FollowChain, LeaveBlockExec, cacheVars
      <4>2. CASE HandlerStep
        BY <4>2, HandlerEffect DEF cacheVars
      <4>3. CASE DoWr0 \/ SyscallReturns \/ SyscallExits \/ ReportIllegal
                 \/ Over
        BY <4>3 DEF DoWr0, SyscallReturns, SyscallExits, ReportIllegal, Over,
                    vars, cacheVars
      <4>4. CASE NewBlockFails \/ NewBlock \/ TailNext \/ TailLink
                 \/ DecodeFaults \/ DecodeInsn
        BY <4>4 DEF NewBlockFails, NewBlock, TailNext, TailLink, DecodeFaults,
                    DecodeInsn
      <4> QED
        BY <2>2, <4>1, <4>2, <4>3, <4>4 DEF Next, HandlerStep
    <3> QED
      BY <3>1, KeepsTranslated DEF IndInv, ControlInv
  <2> QED
    BY <2>1, <2>2
<1>3. at' = "boot" => nblk' = 0
  <2>1. at' # "boot"
    BY DEF Next, AllocInsnBuffer, LookUp, LeaveCpuExec, FindHit, FindNext,
           NewBlockFails, NewBlock, TailNext, TailLink, DecodeFaults,
           DecodeInsn, DecodeEnd, PatchBlock, FollowChain, LeaveBlockExec,
           DoSeq, DoWr0, DoIllegal, DoEcall, DoBranch, DoJal, DoJalr, Retire,
           SyscallReturns, SyscallExits, ReportIllegal, Over, vars, Ended
  <2> QED
    BY <2>1
<1>4. at' \in {"find_block", "tail", "translate", "patch_block"} =>
        exception' = "none"
  <2>1. CASE HandlerStep
    BY <2>1, HandlerEffect
  <2>2. CASE ~HandlerStep
    BY <2>2
       DEF IndInv, ControlInv, Next, AllocInsnBuffer, LookUp, LeaveCpuExec,
           FindHit, FindNext, NewBlockFails, NewBlock, TailNext, TailLink,
           DecodeFaults, DecodeInsn, DecodeEnd, PatchBlock, FollowChain,
           LeaveBlockExec, DoWr0, SyscallReturns, SyscallExits, ReportIllegal,
           Over, vars, Ended, HandlerStep
  <2> QED
    BY <2>1, <2>2
<1>5. at' = "patch_block" => cur' \in Translated' /\ block'[cur'].pc = pc'
  <2> SUFFICES ASSUME at' = "patch_block"
               PROVE  cur' \in Translated' /\ block'[cur'].pc = pc'
    OBVIOUS
  <2>1. CASE FindHit
    <3>1. /\ cur' = walk /\ walk # NULL /\ block[walk].pc = pc
          /\ pc' = pc /\ at = "find_block"
      BY <2>1 DEF FindHit
    <3>2. walk \in Translated
      BY <3>1 DEF IndInv, LookupInv, ControlInv
    <3> QED
      BY <3>1, <3>2, KeepsTranslated
  <2>2. CASE DecodeEnd
    <3>1. /\ at = "translate" /\ Fetchable(ctx_pc) /\ NextSlot \in Slots
          /\ cur' = cur /\ pc' = pc /\ nblk' = nblk
      BY <2>2 DEF DecodeEnd
    <3>2. cur \in 1 .. nblk /\ block[cur].pc = pc
      BY <3>1, NextSlotType DEF IndInv, TranslateInv
    <3>3. cur \in Translated'
      BY <1>2, <3>1, <3>2
    <3> QED
      BY <2>2, <3>1, <3>2, <3>3, DecodeBlock
  <2>3. CASE ~FindHit /\ ~DecodeEnd
    <3>1. ~HandlerStep
      BY HandlerEffect
    <3> QED
      BY <2>3, <3>1
         DEF Next, AllocInsnBuffer, LookUp, LeaveCpuExec, FindNext,
             NewBlockFails, NewBlock, TailNext, TailLink, DecodeFaults,
             DecodeInsn, PatchBlock, FollowChain, LeaveBlockExec, DoWr0,
             SyscallReturns, SyscallExits, ReportIllegal, Over, vars, Ended,
             HandlerStep
  <2> QED
    BY <2>1, <2>2, <2>3
<1>6. at' \notin {"boot", "quit"} => exception' # "addr_mis"
  <2>1. CASE HandlerStep
    BY <2>1, HandlerEffect DEF IndInv, ControlInv
  <2>2. CASE ~HandlerStep
    BY <2>2
       DEF IndInv, ControlInv, Next, AllocInsnBuffer, LookUp, LeaveCpuExec,
           FindHit, FindNext, NewBlockFails, NewBlock, TailNext, TailLink,
           DecodeFaults, DecodeInsn, DecodeEnd, PatchBlock, FollowChain,
           LeaveBlockExec, DoWr0, SyscallReturns, SyscallExits, ReportIllegal,
           Over, vars, Ended, HandlerStep
  <2> QED
    BY <2>1, <2>2
<1>7. at' = "cpu_loop" => exception' # "none"
  <2>1. ~HandlerStep \/ at' # "cpu_loop"
    BY HandlerEffect
  <2> QED
    BY <2>1
       DEF Next, AllocInsnBuffer, LookUp, LeaveCpuExec, FindHit, FindNext,
           NewBlockFails, NewBlock, TailNext, TailLink, DecodeFaults,
           DecodeInsn, DecodeEnd, PatchBlock, FollowChain, LeaveBlockExec,
           DoWr0, SyscallReturns, SyscallExits, ReportIllegal, Over, vars,
           Ended, HandlerStep
<1>8. exception' = "ecall" =>
        /\ at' # "block_exec"
        /\ pc' \in Half /\ text'[pc'].op = "ecall"
  <2> SUFFICES ASSUME exception' = "ecall"
               PROVE  /\ at' # "block_exec"
                      /\ pc' \in Half /\ text'[pc'].op = "ecall"
    OBVIOUS
  <2>1. CASE HandlerStep
    <3>1. at = "block_exec" /\ text' = text
      BY <2>1, HandlerEffect
    <3>2. exception # "ecall"
      BY <3>1 DEF IndInv, ControlInv
    <3>3. This.insn.op = "ecall" /\ pc' = This.gpc
      BY <2>1, <3>2, HandlerEffect
    <3>4. GoodSlot(This)
      BY <3>1, ThisType
    <3>5. at' # "block_exec"
      <4>1. EndsBlock(This.insn)
        BY <3>3 DEF EndsBlock
      <4> QED
        BY <2>1, <3>1, <4>1, ThisSlot, HandlerEffect
    <3> QED
      BY <3>1, <3>3, <3>4, <3>5 DEF GoodSlot
  <2>2. CASE ~HandlerStep
    <3>1. exception = "ecall" /\ pc' = pc /\ text' = text
          /\ (at' = "block_exec" =>
                at = "patch_block" \/ (at = "next" /\ Chained(cur) # NULL))
      BY <2>2
         DEF Next, AllocInsnBuffer, LookUp, LeaveCpuExec, FindHit, FindNext,
             NewBlockFails, NewBlock, TailNext, TailLink, DecodeFaults,
             DecodeInsn, DecodeEnd, PatchBlock, FollowChain, LeaveBlockExec,
             DoWr0, SyscallReturns, SyscallExits, ReportIllegal, Over, vars,
             Ended, HandlerStep
    <3>2. at' # "block_exec"
      BY <3>1, ChainTarget DEF IndInv, ControlInv
    <3> QED
      BY <3>1, <3>2 DEF IndInv, ControlInv
  <2> QED
    BY <2>1, <2>2
<1>9. prev_block' # NULL =>
        /\ prev_block' \in Translated'
        /\ at' \notin Ended /\ exception' = "none" =>
             /\ Runs(prev_block)'
             /\ ~EndsBlock(LastSlot(prev_block).insn)' =>
                  pc' = block'[prev_block'].pc
  <2> SUFFICES ASSUME prev_block' # NULL
               PROVE  /\ prev_block' \in Translated'
                      /\ at' \notin Ended /\ exception' = "none" =>
                           /\ Runs(prev_block)'
                           /\ ~EndsBlock(LastSlot(prev_block).insn)' =>
                                pc' = block'[prev_block'].pc
    OBVIOUS
  <2>1. CASE LeaveBlockExec
    <3>1. /\ at = "next" /\ prev_block' = cur
          /\ UNCHANGED <<pc, exception, cacheVars>>
      BY <2>1 DEF LeaveBlockExec
    <3>2. /\ cur \in Translated /\ i = block[cur].count
          /\ exception = "none" =>
               /\ \A k \in 0 .. i - 1 : ~Raises(SlotOf(cur, k).insn)
               /\ ~EndsBlock(LastSlot(cur).insn) => pc = block[cur].pc
      BY <3>1 DEF IndInv, ExecInv
    <3>3. exception = "none" => Runs(cur)
      BY <3>2 DEF Runs
    <3>4. /\ Translated' = Translated
          /\ Runs(prev_block)' <=> Runs(cur)
          /\ LastSlot(prev_block)' = LastSlot(cur)
          /\ block' = block
      BY <3>1 DEF Translated, Runs, LastSlot, SlotOf, cacheVars
    <3> QED
      BY <3>1, <3>2, <3>3, <3>4
  <2>2. CASE ~LeaveBlockExec
    <3>1. ~HandlerStep
      <4>1. HandlerStep => prev_block' = NULL
        BY HandlerEffect DEF IndInv, ExecInv
      <4> QED
        BY <4>1
    <3>2. /\ prev_block' = prev_block /\ pc' = pc
          /\ at' \notin Ended /\ exception' = "none" =>
               at \notin Ended /\ (exception = "none" \/ at = "boot")
      BY <2>2, <3>1
         DEF Next, AllocInsnBuffer, LookUp, LeaveCpuExec, FindHit, FindNext,
             NewBlockFails, NewBlock, TailNext, TailLink, DecodeFaults,
             DecodeInsn, DecodeEnd, PatchBlock, FollowChain,
             DoWr0, SyscallReturns, SyscallExits, ReportIllegal, Over, vars,
             Ended, HandlerStep
    <3>3. prev_block \in Translated
      BY <3>2 DEF IndInv, ControlInv
    <3>4. at # "boot"
      BY <3>3 DEF IndInv, ControlInv, Translated
    <3>5. /\ prev_block \in Translated'
          /\ block'[prev_block].pc = block[prev_block].pc
          /\ LastSlot(prev_block)' = LastSlot(prev_block)
          /\ Runs(prev_block)' <=> Runs(prev_block)
      <4>1. PICK b \in Translated : b = prev_block
        BY <3>3
      <4>2. /\ b \in Translated' /\ block'[b].pc = block[b].pc
            /\ LastSlot(b)' = LastSlot(b) /\ (Runs(b)' <=> Runs(b))
        BY KeepsTranslated, KeepsRuns
      <4> QED
        BY <3>2, <4>1, <4>2 DEF LastSlot, Runs, SlotOf
    <3> QED
      BY <3>2, <3>4, <3>5 DEF IndInv, ControlInv
  <2> QED
    BY <2>1, <2>2
<1> QED
  BY <1>1, <1>2, <1>3, <1>4, <1>5, <1>6, <1>7, <1>8, <1>9 DEF ControlInv

-----------------------------------------------------------------------------
(***************************************************************************)
(* The theorems.                                                           *)
(***************************************************************************)

LEMMA InitIndInv == Init => IndInv
<1> SUFFICES ASSUME Init PROVE IndInv
  OBVIOUS
<1>1. nblk = 0 /\ at = "boot" /\ 1 .. nblk = {}
  BY DEF Init
<1>2. TypeOK
  <2>1. text \in [Half -> Insn] /\ pc \in Addr /\ ctx_pc \in Addr
    BY AddrAssumption, ProgramAssumption DEF Init
  <2>2. EmptyBlock \in Block
    BY AddrAssumption DEF EmptyBlock, Block
  <2>3. ZeroSlot \in Slot
    BY AddrAssumption DEF ZeroSlot, Slot, Insn, Op
  <2> QED
    BY <2>1, <2>2, <2>3, SizeAssumption DEF Init, TypeOK, Loc, Exception
<1>3. CodeInv /\ LinkInv /\ OneBlockPerPc
  BY <1>1 DEF CodeInv, LinkInv, LinkSound, OneBlockPerPc
<1>4. HashChains
  BY <1>1 DEF Init, HashChains, Linked, IsFirst
<1>5. LookupInv /\ TranslateInv /\ ExecInv
  BY <1>1 DEF LookupInv, TranslateInv, ExecInv
<1>6. ControlInv
  BY <1>1 DEF Init, ControlInv
<1> QED
  BY <1>2, <1>3, <1>4, <1>5, <1>6 DEF IndInv

LEMMA StepIndInv == IndInv /\ [Next]_vars => IndInv'
<1> SUFFICES ASSUME IndInv, [Next]_vars PROVE IndInv'
  OBVIOUS
<1>1. CASE Next
  BY <1>1, TypeStep, CodeStep, LinkStep, UniqueStep, ChainStep, LookupStep,
     TranslateStep, ExecStep, ControlStep DEF IndInv
<1>2. CASE UNCHANGED vars
  <2>1. UNCHANGED <<text, cacheVars>> /\ UNCHANGED cacheVars
    BY <1>2 DEF vars, cacheVars
  <2>2. TypeOK'
    BY <1>2 DEF IndInv, TypeOK, vars
  <2>3. CodeInv' /\ LinkInv' /\ OneBlockPerPc'
    BY <2>1, CacheFrame DEF IndInv
  <2>4. HashChains'
    BY <1>2, <2>1, ChainFrame DEF IndInv, vars
  <2>5. LookupInv'
    BY <1>2 DEF IndInv, LookupInv, vars
  <2>6. TranslateInv'
    BY <1>2 DEF IndInv, TranslateInv, vars, Translated, LastSlot, SlotOf
  <2>7. ExecInv'
    BY <1>2 DEF IndInv, ExecInv, vars, Translated, LastSlot, SlotOf
  <2>8. ControlInv'
    BY <1>2 DEF IndInv, ControlInv, vars, Translated, LastSlot, SlotOf, Runs
  <2> QED
    BY <2>2, <2>3, <2>4, <2>5, <2>6, <2>7, <2>8 DEF IndInv
<1> QED
  BY <1>1, <1>2

(***************************************************************************)
(* The inductive invariant holds in every reachable state of the engine,   *)
(* for every set of programs, every hash function and every size of the    *)
(* cache.                                                                  *)
(***************************************************************************)
THEOREM Invariance == Spec => []IndInv
<1>1. Init => IndInv
  BY InitIndInv
<1>2. IndInv /\ [Next]_vars => IndInv'
  BY StepIndInv
<1> QED
  BY <1>1, <1>2, PTL DEF Spec

\* Every variable of the engine keeps its type.
THEOREM TypeCorrect == Spec => []TypeOK
<1>1. IndInv => TypeOK
  BY DEF IndInv
<1> QED
  BY <1>1, Invariance, PTL

(***************************************************************************)
(* block_exec only ever starts the translated block of env->pc, however it *)
(* got to it (find_block, translate, or a jmp_next link).                  *)
(***************************************************************************)
THEOREM RunsBlockOfPc == Spec => []RunsTheBlockOfPc
<1>1. IndInv => RunsTheBlockOfPc
  <2> SUFFICES ASSUME IndInv, at = "block_exec"
               PROVE  /\ cur \in Translated
                      /\ i < block[cur].count
                      /\ i = 0 => block[cur].pc = pc
    BY DEF RunsTheBlockOfPc
  <2>1. exception = "none" \/ \E k \in 0 .. i - 1 : Raises(SlotOf(cur, k).insn)
    BY DEF IndInv, ExecInv
  <2>2. i = 0 => exception = "none"
    BY <2>1
  <2> QED
    BY <2>2 DEF IndInv, ExecInv
<1> QED
  BY <1>1, Invariance, PTL

(***************************************************************************)
(* Every translated block is a copy of the program text at consecutive     *)
(* guest addresses, and no later translation overlaps it.                  *)
(***************************************************************************)
THEOREM CodeFaithful == Spec => []TranslationFaithful
<1>1. IndInv => TranslationFaithful
  <2> SUFFICES ASSUME IndInv, NEW b \in Translated
               PROVE  /\ block[b].count \in 1 .. TRANS_MAX
                      /\ SlotOf(b, 0).gpc = block[b].pc
                      /\ \A k \in 0 .. block[b].count - 1 :
                           /\ SlotOf(b, k).gpc \in Half
                           /\ SlotOf(b, k).insn = text[SlotOf(b, k).gpc]
                      /\ \A k \in 0 .. block[b].count - 2 :
                           /\ ~EndsBlock(SlotOf(b, k).insn)
                           /\ SlotOf(b, k + 1).gpc =
                                SlotOf(b, k).gpc + SlotOf(b, k).insn.len
    BY DEF TranslationFaithful
  <2>1. b \in 1 .. nblk /\ GoodRun(b) /\ block[b].count \in 1 .. TRANS_MAX
    BY DEF IndInv, CodeInv, Translated
  <2>2. block[b].count > 0
    BY <2>1, SizeAssumption
  <2> QED
    BY <2>1, <2>2 DEF GoodRun, GoodSlot
<1> QED
  BY <1>1, Invariance, PTL

\* patch_block's links lead where the translator said the edge goes.
THEOREM LinksSound == Spec => []LinkSound
<1>1. IndInv => LinkSound
  BY DEF IndInv, LinkInv
<1> QED
  BY <1>1, Invariance, PTL

\* The collision chains of block_hash_table are complete and acyclic.
THEOREM ChainsSound == Spec => []HashChains
<1>1. IndInv => HashChains
  BY DEF IndInv
<1> QED
  BY <1>1, Invariance, PTL

\* cpu_exec never translates the same address twice.
THEOREM UniqueBlocks == Spec => []OneBlockPerPc
<1>1. IndInv => OneBlockPerPc
  BY DEF IndInv
<1> QED
  BY <1>1, Invariance, PTL

\* cpu_loop steps over an ecall and nothing else, and its switch over the
\* exceptions never reaches assert_not_reached.
THEOREM SyscallSound == Spec => []SyscallAtItsEcall
<1>1. IndInv => SyscallAtItsEcall
  <2> SUFFICES ASSUME IndInv PROVE SyscallAtItsEcall
    OBVIOUS
  <2>1. exception \in Exception
    BY DEF IndInv, TypeOK
  <2> QED
    BY <2>1 DEF IndInv, ControlInv, SyscallAtItsEcall, Exception
<1> QED
  BY <1>1, Invariance, PTL

\* No block is entered with an exception pending, although block_exec's
\* chaining loop does not test for one.
THEOREM NoPendingException == Spec => []NoEntryWithException
<1>1. IndInv => NoEntryWithException
  <2> SUFFICES ASSUME IndInv, at = "block_exec", i = 0
               PROVE  exception = "none"
    BY DEF NoEntryWithException
  <2>1. exception # "none" =>
          \E k \in 0 .. i - 1 : Raises(SlotOf(cur, k).insn)
    BY DEF IndInv, ExecInv
  <2> QED
    BY <2>1
<1> QED
  BY <1>1, Invariance, PTL

\* A link that is set stays: patch_block can only set it again to the block
\* it leads to already.
LEMMA LinksStay ==
  ASSUME IndInv, PatchBlock, NEW b \in Translated
  PROVE  /\ block[b].blk0 # NULL => block'[b].blk0 = block[b].blk0
         /\ block[b].blk1 # NULL => block'[b].blk1 = block[b].blk1
<1>1. b \in 1 .. nblk /\ b \in Blk
  BY AllocatedBlk DEF IndInv, Translated
<1>2. cur \in 1 .. nblk /\ block[cur].pc = pc
  BY PatchEffect DEF Translated
<1>3. \A c \in 1 .. nblk : block[c].pc = pc => c = cur
  BY <1>2 DEF IndInv, OneBlockPerPc
<1>4. ASSUME block[b].blk0 # NULL PROVE block'[b].blk0 = block[b].blk0
  <2>1. block[b].blk0 \in 1 .. nblk
        /\ block[block[b].blk0].pc = block[b].pc0
    BY <1>1, <1>4 DEF IndInv, LinkInv, LinkSound, Translated
  <2> QED
    BY <1>1, <1>3, <2>1, PatchEffect
<1>5. ASSUME block[b].blk1 # NULL PROVE block'[b].blk1 = block[b].blk1
  <2>1. block[b].blk1 \in 1 .. nblk
        /\ block[block[b].blk1].pc = block[b].pc1
    BY <1>1, <1>5 DEF IndInv, LinkInv, LinkSound, Translated
  <2> QED
    BY <1>1, <1>3, <2>1, PatchEffect
<1> QED
  BY <1>4, <1>5

(***************************************************************************)
(* Once translate has claimed a block's slots, no step of the engine       *)
(* changes the block's address, its code or a link that is already         *)
(* patched.                                                                *)
(***************************************************************************)
THEOREM NeverRewritten == Spec => CodeNeverRewritten
<1> DEFINE Kept(b) ==
      /\ b \in Translated'
      /\ block'[b].pc = block[b].pc /\ block'[b].count = block[b].count
      /\ \A k \in 0 .. block[b].count - 1 : SlotOf(b, k)' = SlotOf(b, k)
      /\ block[b].blk0 # NULL => block'[b].blk0 = block[b].blk0
      /\ block[b].blk1 # NULL => block'[b].blk1 = block[b].blk1
<1>1. IndInv /\ [Next]_vars => [\A b \in Translated : Kept(b)]_vars
  <2> SUFFICES ASSUME IndInv, Next, NEW b \in Translated PROVE Kept(b)
    OBVIOUS
  <2>1. CASE PatchBlock
    BY <2>1, KeepsTranslated, LinksStay
  <2>2. CASE ~PatchBlock
    BY <2>2, KeepsTranslated
  <2> QED
    BY <2>1, <2>2
<1> QED
  BY <1>1, Invariance, PTL DEF Spec, CodeNeverRewritten

=============================================================================
