------------------------------ MODULE HartProofs ------------------------------
(***************************************************************************)
(* TLAPS proof that the execution engine implements the abstract hart: a   *)
(* guest that is run from a cache of chained blocks goes through its       *)
(* program as one that has no cache. Of every servable program, for every  *)
(* hash function, buffer size, block limit and amount of memory.           *)
(***************************************************************************)
EXTENDS CpuExecProofs

(***************************************************************************)
(* What IndInv does not say: for a servable program no translated block    *)
(* was cut, and the address of a pending illegal instruction is known.     *)
(***************************************************************************)
HartInv ==
  /\ Servable(text)
  /\ \A b \in Translated : EndsBlock(LastSlot(b).insn)
  /\ exception = "illegal" => pc \in Half /\ text[pc].op = "illegal"

\* A block of TRANS_MAX slots is ended by an instruction: otherwise its slots
\* would be a straight line.
LEMMA FullBlockEnds ==
  IndInv /\ Servable(text) =>
    \A b \in Translated :
      block[b].count = TRANS_MAX => EndsBlock(LastSlot(b).insn)
<1> SUFFICES ASSUME IndInv, Servable(text), NEW b \in Translated,
                    block[b].count = TRANS_MAX, ~EndsBlock(LastSlot(b).insn)
             PROVE  FALSE
  OBVIOUS
<1> DEFINE line == [k \in 0 .. TRANS_MAX - 1 |-> SlotOf(b, k).gpc]
<1>1. /\ \A k \in 0 .. TRANS_MAX - 1 : GoodSlot(SlotOf(b, k))
      /\ \A k \in 0 .. TRANS_MAX - 2 :
           /\ ~EndsBlock(SlotOf(b, k).insn)
           /\ SlotOf(b, k + 1).gpc = SlotOf(b, k).gpc + SlotOf(b, k).insn.len
  BY DEF IndInv, CodeInv, GoodRun, Translated
<1>2. line \in [0 .. TRANS_MAX - 1 -> Half]
  BY <1>1 DEF GoodSlot
<1>3. ASSUME NEW k \in 0 .. TRANS_MAX - 1
      PROVE  /\ ~EndsBlock(text[line[k]])
             /\ k > 0 => line[k] = line[k - 1] + text[line[k - 1]].len
  <2>1. text[line[k]] = SlotOf(b, k).insn
    BY <1>1 DEF GoodSlot
  <2>2. ~EndsBlock(SlotOf(b, k).insn)
    <3>1. CASE k = TRANS_MAX - 1
      BY <3>1 DEF LastSlot
    <3>2. CASE k # TRANS_MAX - 1
      BY <1>1, <3>2, SizeAssumption
    <3> QED
      BY <3>1, <3>2
  <2>3. ASSUME k > 0
        PROVE  line[k] = line[k - 1] + text[line[k - 1]].len
    <3>1. k - 1 \in 0 .. TRANS_MAX - 2 /\ k - 1 \in 0 .. TRANS_MAX - 1
          /\ k - 1 + 1 = k
      BY <2>3, SizeAssumption
    <3>2. SlotOf(b, k).gpc = SlotOf(b, k - 1).gpc + SlotOf(b, k - 1).insn.len
      BY <1>1, <3>1
    <3>3. text[line[k - 1]] = SlotOf(b, k - 1).insn
      BY <1>1, <3>1 DEF GoodSlot
    <3> QED
      BY <3>1, <3>2, <3>3
  <2> QED
    BY <2>1, <2>2, <2>3
<1>4. StraightLine(text, line)
  <2> HIDE DEF line
  <2> QED
    BY <1>3 DEF StraightLine
<1> QED
  BY <1>2, <1>4 DEF Servable

\* translate cuts a block only when it is full, so it cuts none.
LEMMA NoBlockIsCut ==
  ASSUME IndInv, IndInv', DecodeEnd, Servable(text), cur \in Translated'
  PROVE  EndsBlock(LastSlot(cur).insn)'
<1>1. /\ at = "translate" /\ Fetchable(ctx_pc) /\ NextSlot \in Slots
      /\ text' = text /\ cur' = cur /\ nblk' = nblk
  BY DEF DecodeEnd
<1>2. /\ cur \in Blk /\ ctx_pc \in Half
      /\ block[cur].count \in Nat /\ block[cur].count < TRANS_MAX
      /\ NextSlot = block[cur].insn + block[cur].count
      /\ block[cur].insn \in Nat
  BY <1>1, NextSlotType, BlockType DEF IndInv, TranslateInv, NextSlot
<1>3. /\ block'[cur].count = block[cur].count + 1
      /\ block'[cur].insn = block[cur].insn
  BY DecodeBlock
<1>4. LastSlot(cur)' = insn_buf'[NextSlot]
  BY <1>1, <1>2, <1>3 DEF LastSlot, SlotOf
<1>5. CASE EndsBlock(text[ctx_pc])
  <2>1. LastSlot(cur)'.insn = text[ctx_pc]
    BY <1>4, DecodeBuffer
  <2> QED
    BY <1>5, <2>1 DEF EndsBlock
<1>6. CASE ~EndsBlock(text[ctx_pc])
  <2>1. block'[cur].count = TRANS_MAX
    BY <1>2, <1>3, <1>6, SizeAssumption DEF DecodeEnd
  <2>2. (IndInv /\ Servable(text) =>
           \A b \in Translated :
             block[b].count = TRANS_MAX => EndsBlock(LastSlot(b).insn))'
    BY FullBlockEnds, PTL
  <2>3. Servable(text)'
    BY <1>1 DEF Servable
  <2> QED
    BY <1>1, <2>1, <2>2, <2>3
<1> QED
  BY <1>5, <1>6

-----------------------------------------------------------------------------
\* Inside a block nothing is pending: what raises an exception ends a block.
LEMMA NothingPending ==
  IndInv /\ HartInv /\ at = "block_exec" =>
    /\ exception = "none"
    /\ This.insn.op # "csr_bad"
    /\ This.gpc \in Half /\ text[This.gpc] = This.insn
    /\ i + 1 < block[cur].count <=> ~EndsBlock(This.insn)
<1> SUFFICES ASSUME IndInv, HartInv, at = "block_exec"
             PROVE  /\ exception = "none"
                    /\ This.insn.op # "csr_bad"
                    /\ This.gpc \in Half /\ text[This.gpc] = This.insn
                    /\ i + 1 < block[cur].count <=> ~EndsBlock(This.insn)
  OBVIOUS
<1>1. /\ cur \in Translated /\ cur \in 1 .. nblk
      /\ i \in 0 .. block[cur].count - 1 /\ GoodSlot(This)
      /\ block[cur].count \in Nat
  BY ThisType, ThisSlot
<1>2. This.gpc \in Half /\ text[This.gpc] = This.insn
  BY <1>1 DEF GoodSlot
<1>3. This.insn.op # "csr_bad"
  BY <1>2 DEF HartInv, Servable
<1>4. i + 1 < block[cur].count <=> ~EndsBlock(This.insn)
  BY <1>1, ThisSlot DEF HartInv
<1>5. ASSUME NEW k \in 0 .. i - 1 PROVE ~Raises(SlotOf(cur, k).insn)
  <2>1. k \in 0 .. block[cur].count - 2 /\ k \in 0 .. block[cur].count - 1
    BY <1>1
  <2>2. GoodSlot(SlotOf(cur, k)) /\ ~EndsBlock(SlotOf(cur, k).insn)
    BY <1>1, <2>1 DEF IndInv, CodeInv, GoodRun
  <2>3. SlotOf(cur, k).insn.op # "csr_bad"
    BY <2>2 DEF GoodSlot, HartInv, Servable
  <2> QED
    BY <2>2, <2>3 DEF EndsBlock, Raises
<1>6. exception = "none"
  BY <1>5 DEF IndInv, ExecInv
<1> QED
  BY <1>2, <1>3, <1>4, <1>6

LEMMA HartInvInit == Init /\ Servable(text) => HartInv
BY DEF Init, HartInv, Translated

\* No step cuts a block, and do_illegal leaves env->pc at its instruction.
LEMMA HartInvStep ==
  ASSUME IndInv, IndInv', HartInv, [Next]_vars
  PROVE  HartInv'
<1>1. CASE UNCHANGED vars
  BY <1>1 DEF vars, HartInv, Translated, LastSlot, SlotOf
<1>2. CASE Next
  <2>1. text' = text
    <3>1. CASE NewBlock \/ TailLink \/ PatchBlock \/ DecodeInsn \/ DecodeEnd
      BY <3>1 DEF NewBlock, TailLink, PatchBlock, DecodeInsn, DecodeEnd
    <3> QED
      BY <1>2, <3>1, QuietSteps
  <2>2. ASSUME NEW b \in Translated' PROVE EndsBlock(LastSlot(b).insn)'
    <3>1. CASE b \in Translated
      <4>1. LastSlot(b)' = LastSlot(b)
        BY <1>2, <3>1, KeepsRuns
      <4> QED
        BY <3>1, <4>1 DEF HartInv, EndsBlock
    <3>2. CASE b \notin Translated
      <4>1. CASE DecodeEnd
        <5>1. b \in 1 .. nblk /\ at = "translate" /\ cur' = cur
          BY <4>1 DEF DecodeEnd, Translated
        <5>2. b = cur
          BY <3>2, <5>1 DEF IndInv, TranslateInv
        <5>3. EndsBlock(LastSlot(cur).insn)'
          BY <4>1, <5>2, NoBlockIsCut DEF HartInv
        <5> QED
          BY <5>1, <5>2, <5>3 DEF LastSlot, SlotOf, EndsBlock
      <4>2. CASE ~DecodeEnd
        <5>1. insn_buffer_ptr' = insn_buffer_ptr
          BY <1>2, <4>2, QuietSteps
             DEF NewBlock, TailLink, PatchBlock, DecodeInsn, cacheVars
        <5>2. b \in 1 .. nblk' /\ block'[b].insn < insn_buffer_ptr
          BY <5>1 DEF Translated
        <5>3. CASE NewBlock
          <6>1. /\ nblk \in Nat /\ nblk' = nblk + 1 /\ nblk + 1 \in Blk
                /\ block'[nblk + 1].insn = insn_buffer_ptr
                /\ \A c \in 1 .. nblk : block'[c] = block[c]
            BY <5>3, NewBlockEffect DEF IndInv, TypeOK, NewBlock
          <6>2. b # nblk + 1
            BY <5>2, <6>1 DEF IndInv, TypeOK
          <6> QED
            BY <3>2, <5>2, <6>1, <6>2 DEF Translated
        <5>4. CASE ~NewBlock
          <6>1. nblk' = nblk /\ b \in Blk
            BY <1>2, <4>2, <5>2, <5>4, QuietSteps, AllocatedBlk
               DEF TailLink, PatchBlock, DecodeInsn, cacheVars, IndInv
          <6>2. block'[b].insn = block[b].insn
            <7>1. CASE TailLink
              BY <6>1, <7>1, TailLinkEffect
            <7>2. CASE PatchBlock
              BY <6>1, <7>2, PatchEffect
            <7>3. CASE DecodeInsn
              BY <6>1, <7>3, DecodeBlock
            <7> QED
              BY <1>2, <4>2, <5>4, <7>1, <7>2, <7>3, QuietSteps DEF cacheVars
          <6> QED
            BY <3>2, <5>2, <6>1, <6>2 DEF Translated
        <5> QED
          BY <5>3, <5>4
      <4> QED
        BY <4>1, <4>2
    <3> QED
      BY <3>1, <3>2
  <2>3. exception' = "illegal" => pc' \in Half /\ text'[pc'].op = "illegal"
    <3>1. CASE HandlerStep
      <4>1. at = "block_exec"
        BY <3>1, HandlerEffect
      <4>2. /\ exception = "none" /\ This.insn.op # "csr_bad"
            /\ This.gpc \in Half /\ text[This.gpc] = This.insn
        BY <4>1, NothingPending
      <4>3. exception' = "illegal" => This.insn.op = "illegal"
        BY <3>1, <4>2, HandlerEffect DEF Raises
      <4>4. This.insn.op = "illegal" => pc' = This.gpc
        <5>1. This.insn.op = "illegal" => This.pc = This.gpc
          BY <4>1, ThisType DEF GoodSlot, EndsBlock
        <5> QED
          BY <3>1, <5>1
             DEF HandlerStep, DoSeq, DoIllegal, DoEcall, DoBranch, DoJal, DoJalr
      <4> QED
        BY <2>1, <4>2, <4>3, <4>4
    <3>2. CASE SyscallReturns \/ AllocInsnBuffer
      BY <2>1, <3>2 DEF SyscallReturns, AllocInsnBuffer, HartInv
    <3>3. CASE ~HandlerStep /\ ~SyscallReturns /\ ~AllocInsnBuffer
      <4>1. exception' = exception /\ pc' = pc
        BY <1>2, <3>3
           DEF Next, LookUp, LeaveCpuExec, FindHit, FindNext, NewBlockFails,
               NewBlock, TailNext, TailLink, DecodeFaults, DecodeInsn,
               DecodeEnd, PatchBlock, FollowChain, LeaveBlockExec, DoWr0,
               SyscallExits, ReportIllegal, Over, vars, HandlerStep
      <4> QED
        BY <2>1, <4>1 DEF HartInv
    <3> QED
      BY <3>1, <3>2, <3>3
  <2>4. Servable(text)'
    BY <2>1 DEF HartInv, Servable
  <2> QED
    BY <2>2, <2>3, <2>4 DEF HartInv
<1> QED
  BY <1>1, <1>2

-----------------------------------------------------------------------------
(***************************************************************************)
(* The refinement, action by action.                                       *)
(***************************************************************************)

\* While cpu_exec looks up, translates and patches, the hart rests.
LEMMA LookupRests ==
  ASSUME IndInv, IndInv', Next,
         at \notin {"block_exec", "cpu_loop", "next", "boot"}
  PROVE  HartView!Next \/ UNCHANGED <<text, HartPc, HartStatus>>
<1>1. CASE PatchBlock
  <2>1. /\ cur' = cur /\ i' = 0 /\ at' = "block_exec" /\ at = "patch_block"
        /\ UNCHANGED <<text, pc, insn_buf>>
    BY <1>1 DEF PatchBlock
  <2>2. /\ cur \in Translated /\ cur \in 1 .. nblk /\ block[cur].pc = pc
        /\ cur \in Blk
    BY <2>1, AllocatedBlk DEF IndInv, ControlInv, Translated
  <2>3. block[cur].count > 0 /\ block[cur].insn \in Nat
        /\ block'[cur].insn = block[cur].insn
    BY <1>1, <2>2, PatchEffect, BlockType, SizeAssumption
       DEF IndInv, CodeInv
  <2>4. SlotOf(cur, 0).gpc = pc
    BY <2>2, <2>3 DEF IndInv, CodeInv, GoodRun
  <2>5. This' = SlotOf(cur, 0)
    BY <2>1, <2>3 DEF This, SlotOf
  <2> QED
    BY <2>1, <2>4, <2>5 DEF HartPc, HartStatus
<1>2. CASE NewBlockFails \/ DecodeFaults
  BY <1>2 DEF NewBlockFails, DecodeFaults, HartStatus,
              HartView!Next, HartView!HostFails
<1>3. CASE ~PatchBlock /\ ~NewBlockFails /\ ~DecodeFaults
  <2>1. CASE Over
    BY <2>1 DEF Over, vars, HartPc, HartStatus, This
  <2>2. CASE ~Over
    <3>1. /\ UNCHANGED <<text, pc>>
          /\ at \notin Ended \cup {"block_exec"}
          /\ at' \notin Ended \cup {"block_exec"}
      BY <1>3, <2>2
         DEF Next, LookUp, LeaveCpuExec, FindHit, FindNext, NewBlock,
             TailNext, TailLink, DecodeInsn, DecodeEnd, AllocInsnBuffer,
             FollowChain, LeaveBlockExec, DoSeq, DoWr0, DoIllegal, DoEcall,
             DoBranch, DoJal, DoJalr, SyscallReturns, SyscallExits,
             ReportIllegal, Ended
    <3> QED
      BY <3>1 DEF HartPc, HartStatus, Ended
  <2> QED
    BY <2>1, <2>2
<1> QED
  BY <1>1, <1>2, <1>3

\* A handler is one instruction of the hart; the traps wait for cpu_loop.
LEMMA HandlerExecutes ==
  ASSUME IndInv, IndInv', HartInv, HandlerStep
  PROVE  HartView!Execute \/ UNCHANGED <<text, HartPc, HartStatus>>
<1>1. /\ at = "block_exec" /\ UNCHANGED <<text, cacheVars, cur>>
      /\ i' = i + 1
      /\ at' = IF i + 1 < block[cur].count THEN "block_exec" ELSE "next"
  BY HandlerEffect
<1>2. /\ This.insn.op # "csr_bad"
      /\ This.gpc \in Half /\ text[This.gpc] = This.insn
      /\ i + 1 < block[cur].count <=> ~EndsBlock(This.insn)
  BY <1>1, NothingPending
<1>3. HartPc = This.gpc /\ HartStatus = "running"
      /\ HartStatus' = "running"
  BY <1>1 DEF HartPc, HartStatus
<1>4. EndsBlock(This.insn) => /\ at' = "next" /\ HartPc' = pc'
                              /\ This.pc = This.gpc
  BY <1>1, <1>2, ThisType DEF HartPc, GoodSlot
<1>5. CASE DoSeq
  <2>1. ~EndsBlock(This.insn) /\ at' = "block_exec"
    BY <1>1, <1>2, <1>5 DEF DoSeq, EndsBlock
  <2>2. /\ cur \in 1 .. nblk /\ i \in 0 .. block[cur].count - 1
        /\ This = SlotOf(cur, i) /\ block[cur].count \in Nat
        /\ block[cur].insn \in Nat
    BY <1>1, ThisType, BlockType DEF IndInv
  <2>3. i \in 0 .. block[cur].count - 2
    BY <1>2, <2>1, <2>2
  <2>4. SlotOf(cur, i + 1).gpc = This.gpc + This.insn.len
    BY <2>2, <2>3 DEF IndInv, CodeInv, GoodRun
  <2>5. HartPc' = SlotOf(cur, i + 1).gpc
    BY <1>1, <2>1 DEF HartPc, This, SlotOf, cacheVars
  <2>6. This.insn.op \in {"seq", "wr0"}
    BY <1>5 DEF DoSeq
  <2> QED
    BY <1>1, <1>2, <1>3, <2>4, <2>5, <2>6
       DEF HartView!Execute, HartView!Successors
<1>6. CASE DoBranch
  <2>1. /\ This.insn.op = "branch"
        /\ HartPc' \in {This.insn.tgt, This.gpc + This.insn.len}
    BY <1>4, <1>6 DEF DoBranch, EndsBlock
  <2> QED
    BY <1>1, <1>2, <1>3, <2>1 DEF HartView!Execute, HartView!Successors
<1>7. CASE DoJal
  <2>1. This.insn.op = "jal" /\ HartPc' = This.insn.tgt
    BY <1>4, <1>7 DEF DoJal, EndsBlock
  <2> QED
    BY <1>1, <1>2, <1>3, <2>1 DEF HartView!Execute, HartView!Successors
<1>8. CASE DoJalr
  <2>1. This.insn.op = "jalr" /\ HartPc' \in JumpTarget
    BY <1>4, <1>8 DEF DoJalr, EndsBlock
  <2> QED
    BY <1>1, <1>2, <1>3, <2>1 DEF HartView!Execute, HartView!Successors
<1>9. CASE DoIllegal \/ DoEcall
  <2>1. EndsBlock(This.insn) /\ pc' = This.pc
    BY <1>2, <1>9 DEF DoIllegal, DoEcall, EndsBlock
  <2> QED
    BY <1>1, <1>3, <1>4, <2>1
<1> QED
  BY <1>5, <1>6, <1>7, <1>8, <1>9 DEF HandlerStep

\* Between two blocks the hart rests: a link leads to the block of env->pc.
LEMMA ChainRests ==
  ASSUME IndInv, IndInv', FollowChain \/ LeaveBlockExec
  PROVE  UNCHANGED <<text, HartPc, HartStatus>>
<1>1. CASE FollowChain
  <2>1. /\ at = "next" /\ Chained(cur) # NULL /\ cur' = Chained(cur)
        /\ i' = 0 /\ at' = "block_exec"
        /\ UNCHANGED <<text, pc, cacheVars>>
    BY <1>1 DEF FollowChain
  <2> DEFINE c == Chained(cur)
  <2>2. c \in Translated /\ block[c].pc = pc
    BY <2>1, ChainTarget
  <2> HIDE DEF c
  <2>3. c \in 1 .. nblk /\ c \in Blk
    BY <2>2, AllocatedBlk DEF Translated, IndInv
  <2>4. block[c].count > 0 /\ block[c].insn \in Nat
    BY <2>2, <2>3, BlockType, SizeAssumption DEF IndInv, CodeInv
  <2>5. SlotOf(c, 0).gpc = pc
    BY <2>2, <2>3, <2>4 DEF IndInv, CodeInv, GoodRun
  <2>6. cur' = c
    BY <2>1 DEF c
  <2>7. This' = SlotOf(c, 0)
    BY <2>1, <2>4, <2>6 DEF This, SlotOf, cacheVars
  <2> QED
    BY <2>1, <2>5, <2>7 DEF HartPc, HartStatus
<1>2. CASE LeaveBlockExec
  BY <1>2 DEF LeaveBlockExec, HartPc, HartStatus
<1> QED
  BY <1>1, <1>2

\* cpu_loop serves a trap at its instruction.
LEMMA TrapServed ==
  ASSUME IndInv, HartInv, SyscallReturns \/ SyscallExits \/ ReportIllegal
  PROVE  HartView!Next
<1> USE DEF HartPc, HartStatus
<1>1. HartPc = pc /\ HartStatus = "running"
  BY DEF SyscallReturns, SyscallExits, ReportIllegal
<1>2. CASE SyscallReturns
  <2>1. pc \in Half /\ text[pc].op = "ecall" /\ text[pc].len = 4
    BY <1>2, ProgramAssumption DEF SyscallReturns, IndInv, ControlInv
  <2>2. /\ HartPc' = pc + 4 /\ HartStatus' = "running" /\ text' = text
    BY <1>2 DEF SyscallReturns
  <2> HIDE DEF HartPc, HartStatus
  <2> QED
    BY <1>1, <2>1, <2>2 DEF HartView!Next, HartView!Execute, HartView!Successors
<1>3. CASE SyscallExits
  <2>1. pc \in Half /\ text[pc].op = "ecall"
    BY <1>3 DEF SyscallExits, IndInv, ControlInv
  <2>2. HartPc' = pc /\ HartStatus' = "exited" /\ text' = text
    BY <1>3 DEF SyscallExits
  <2> HIDE DEF HartPc, HartStatus
  <2> QED
    BY <1>1, <2>1, <2>2 DEF HartView!Next, HartView!Exit
<1>4. CASE ReportIllegal
  <2>1. pc \in Half /\ text[pc].op = "illegal"
    BY <1>4 DEF ReportIllegal, HartInv
  <2>2. HartPc' = pc /\ HartStatus' = "killed" /\ text' = text
    BY <1>4 DEF ReportIllegal
  <2> HIDE DEF HartPc, HartStatus
  <2> QED
    BY <1>1, <2>1, <2>2 DEF HartView!Next, HartView!Kill
<1> QED
  BY <1>2, <1>3, <1>4

\* Every step of the engine is one of the hart or none.
LEMMA HartStep ==
  ASSUME IndInv, IndInv', HartInv, [Next]_vars
  PROVE  [HartView!Next]_<<text, HartPc, HartStatus>>
<1>1. CASE UNCHANGED vars
  BY <1>1 DEF vars, HartPc, HartStatus, This
<1>2. CASE Next /\ at \notin {"block_exec", "cpu_loop", "next", "boot"}
  BY <1>2, LookupRests
<1>3. CASE HandlerStep
  BY <1>3, HandlerExecutes DEF HartView!Next
<1>4. CASE FollowChain \/ LeaveBlockExec
  BY <1>4, ChainRests
<1>5. CASE SyscallReturns \/ SyscallExits \/ ReportIllegal
  BY <1>5, TrapServed
<1>6. CASE AllocInsnBuffer \/ DoWr0
  BY <1>6 DEF AllocInsnBuffer, DoWr0, HartPc, HartStatus,
              HartView!Next, HartView!HostFails
<1>7. CASE Next /\ at \in {"block_exec", "cpu_loop", "next", "boot"}
  BY <1>3, <1>4, <1>5, <1>6, <1>7
     DEF Next, HandlerStep, LookUp, LeaveCpuExec, FindHit, FindNext,
         NewBlockFails, NewBlock, TailNext, TailLink, DecodeFaults,
         DecodeInsn, DecodeEnd, PatchBlock, Over, Ended
<1> QED
  BY <1>1, <1>2, <1>7

(***************************************************************************)
(* rvvk executes the guest's program: for a program without an access to   *)
(* an unknown CSR and without a straight line of TRANS_MAX instructions,   *)
(* every run of the engine, with its cache, its links and its translations *)
(* in between, is a run of the hart that executes one instruction after    *)
(* the other.                                                              *)
(***************************************************************************)
THEOREM EngineImplementsHart == Spec /\ Servable(text) => ImplementsHart
<1>1. Init => HartView!Init
  BY AddrAssumption DEF Init, HartView!Init, HartPc, HartStatus
<1>2. Init /\ Servable(text) => HartInv
  BY HartInvInit
<1>3. IndInv /\ IndInv' /\ HartInv /\ [Next]_vars => HartInv'
  BY HartInvStep
<1>4. IndInv /\ IndInv' /\ HartInv /\ [Next]_vars =>
        [HartView!Next]_<<text, HartPc, HartStatus>>
  BY HartStep
<1> QED
  BY <1>1, <1>2, <1>3, <1>4, Invariance, PTL
     DEF Spec, ImplementsHart, HartView!Spec

=============================================================================
