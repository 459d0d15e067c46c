------------------------------- MODULE Decode -------------------------------
(***************************************************************************)
(* Instruction decoding: the bit fields, decode_insn16, decode_insn32 and  *)
(* the trans_X of arch/riscv/translate.c, and what the control transfer    *)
(* handlers of arch/riscv/cpu.c make of the result.                        *)
(*                                                                         *)
(* A word is a function from bit numbers to bits, so that an immediate is  *)
(* followed bit by bit. insn_t is a record with those fields only that the *)
(* translator assigned: a missing field is whatever the slot of the        *)
(* instruction buffer held before. The module RvIsa says what the ISA      *)
(* makes of the same word.                                                 *)
(***************************************************************************)
EXTENDS Integers, Sequences, RvIsa

CONSTANTS
  Codes,     \* names of the words cpu_lduw may fetch
  WordOf(_), \* the bits of such a word
  Pcs,       \* the addresses they are fetched from
  Bases      \* what the base register of jalr may hold

Bit == {0, 1}
Word == [0 .. 31 -> Bit]

ASSUME DecodeAssumption ==
  /\ \A c \in Codes : WordOf(c) \in Word
  /\ Pcs \subseteq Nat
  /\ Bases \subseteq Nat

-----------------------------------------------------------------------------
(***************************************************************************)
(* The bit operations of rvvk.h and the ex_X of translate.c.               *)
(***************************************************************************)
extract32(value, start, length) ==
  [b \in 0 .. 31 |-> IF b < length THEN value[start + b] ELSE 0]

sextract32(value, start, length) ==
  [b \in 0 .. 31 |-> value[start + (IF b < length THEN b ELSE length - 1)]]

deposit32(value, start, length, field) ==
  [b \in 0 .. 31 |-> IF b \in start .. start + length - 1
                     THEN field[b - start] ELSE value[b]]

ex_shift(imm, amount) ==
  [b \in 0 .. 31 |-> IF b < amount THEN 0 ELSE imm[b - amount]]

\* A whole word as an int.
Int32(value) ==
  IF value[31] = 1 THEN Num(value, 0, 31) - 2147483647 - 1
  ELSE Num(value, 0, 31)

Reg(op, start) == Num(op, start, 5)

\* Mutant of ex_rvc_register: five bits are taken for a bank of eight.
ex_rvc_register5(op, start) == 8 + Num(op, start, 5)

ex_rvc_register(op, start) == 8 + Num(op, start, 3)

-----------------------------------------------------------------------------
(***************************************************************************)
(* Immediates. The widths given to deposit32 are those of the code.        *)
(***************************************************************************)
ImmI(op) == sextract32(op, 20, 12)

ImmS(op) == deposit32(extract32(op, 7, 5), 5, 27, sextract32(op, 25, 7))

ImmB(op) ==
  ex_shift(deposit32(deposit32(deposit32(
    extract32(op, 8, 4),
      4, 28, extract32(op, 25, 6)),
      10, 22, extract32(op, 7, 1)),
      11, 21, sextract32(op, 31, 1)), 1)

ImmU(op) == ex_shift(sextract32(op, 12, 20), 12)

ImmJ(op) ==
  ex_shift(deposit32(deposit32(deposit32(
    extract32(op, 21, 10),
      10, 22, extract32(op, 20, 1)),
      11, 21, extract32(op, 12, 8)),
      19, 13, sextract32(op, 31, 1)), 1)

ImmCsr(op) == extract32(op, 20, 12)

ImmC_addi4spn(op) ==
  ex_shift(deposit32(deposit32(deposit32(
    extract32(op, 6, 1),
      1, 31, extract32(op, 5, 1)),
      2, 30, extract32(op, 11, 2)),
      4, 28, extract32(op, 7, 4)), 2)

ImmC_w(op) ==
  ex_shift(deposit32(deposit32(
    extract32(op, 6, 1),
      1, 31, extract32(op, 10, 3)),
      4, 28, extract32(op, 5, 1)), 2)

ImmC_d(op) ==
  ex_shift(deposit32(extract32(op, 10, 3), 3, 29, extract32(op, 5, 2)), 3)

\* c.addi, c.addiw, c.li and c.andi; c.lui shifts it.
ImmC_6(op) == deposit32(extract32(op, 2, 5), 5, 27, sextract32(op, 12, 1))

ImmC_lui(op) == ex_shift(ImmC_6(op), 12)

\* Mutant of ImmC_shamt: the amount has a sign.
ImmC_shamtSigned(op) == ImmC_6(op)

\* c.slli, c.srli and c.srai.
ImmC_shamt(op) == deposit32(extract32(op, 2, 5), 5, 27, extract32(op, 12, 1))

ImmC_addi16sp(op) ==
  ex_shift(deposit32(deposit32(deposit32(deposit32(
    extract32(op, 6, 1),
      1, 31, extract32(op, 2, 1)),
      2, 30, extract32(op, 5, 1)),
      3, 29, extract32(op, 3, 2)),
      5, 27, sextract32(op, 12, 1)), 4)

ImmC_j(op) ==
  ex_shift(deposit32(deposit32(deposit32(deposit32(deposit32(deposit32(deposit32(
    extract32(op, 3, 3),
      3, 29, extract32(op, 11, 1)),
      4, 28, extract32(op, 2, 1)),
      5, 27, extract32(op, 7, 1)),
      6, 26, extract32(op, 6, 1)),
      7, 25, extract32(op, 9, 2)),
      9, 23, extract32(op, 8, 1)),
      10, 22, sextract32(op, 12, 1)), 1)

ImmC_b(op) ==
  ex_shift(deposit32(deposit32(deposit32(deposit32(
    extract32(op, 3, 2),
      2, 30, extract32(op, 10, 2)),
      4, 28, extract32(op, 2, 1)),
      5, 27, extract32(op, 5, 2)),
      7, 25, sextract32(op, 12, 1)), 1)

ImmC_ldsp(op) ==
  ex_shift(deposit32(deposit32(
    extract32(op, 5, 2),
      2, 30, extract32(op, 12, 1)),
      3, 29, extract32(op, 2, 3)), 3)

ImmC_lwsp(op) ==
  ex_shift(deposit32(deposit32(
    extract32(op, 4, 3),
      3, 29, extract32(op, 12, 1)),
      4, 28, extract32(op, 2, 2)), 2)

ImmC_swsp(op) ==
  ex_shift(deposit32(extract32(op, 9, 4), 4, 28, extract32(op, 7, 2)), 2)

ImmC_sdsp(op) ==
  ex_shift(deposit32(extract32(op, 10, 3), 3, 29, extract32(op, 7, 3)), 3)

ImmZero == [b \in 0 .. 31 |-> 0]

-----------------------------------------------------------------------------
(***************************************************************************)
(* The fields of each format: decode_insn32_extract_X.                     *)
(***************************************************************************)
NoFields == <<>>

FieldsR(op) == [rs1 |-> Reg(op, 15), rd |-> Reg(op, 7), rs2 |-> Reg(op, 20)]
FieldsI(op) == [rs1 |-> Reg(op, 15), rd |-> Reg(op, 7), imm |-> ImmI(op)]
FieldsS(op) == [rs1 |-> Reg(op, 15), rs2 |-> Reg(op, 20), imm |-> ImmS(op)]
FieldsB(op) == [rs1 |-> Reg(op, 15), rs2 |-> Reg(op, 20), imm |-> ImmB(op)]
FieldsU(op) == [rd |-> Reg(op, 7), imm |-> ImmU(op)]
FieldsJ(op) == [rd |-> Reg(op, 7), imm |-> ImmJ(op)]
FieldsCsr(op) ==
  [rs1 |-> Reg(op, 15), rd |-> Reg(op, 7), imm |-> ImmCsr(op)]
FieldsAtomLd(op) == [rs1 |-> Reg(op, 15), rd |-> Reg(op, 7)]
FieldsAtomSt(op) ==
  [rs1 |-> Reg(op, 15), rd |-> Reg(op, 7), rs2 |-> Reg(op, 20)]

(***************************************************************************)
(* What a trans_X leaves behind: the slot, ctx->exit, and the edges        *)
(* written through ctx->pc_next (ctx->link is set exactly with them).      *)
(***************************************************************************)
With(fields, more) ==
  [f \in DOMAIN fields \cup DOMAIN more |->
     IF f \in DOMAIN fields THEN fields[f] ELSE more[f]]

Runs(fields, handler) ==
  [insn |-> With(fields, [handler |-> handler]), exit |-> FALSE,
   next |-> <<>>]

Ends(fields, handler, pc, next) ==
  [insn |-> With(fields, [handler |-> handler, pc |-> pc]),
   exit |-> TRUE, next |-> next]

trans_illegal(fields, pc) == Ends(fields, "illegal", pc, <<>>)

JumpTo(fields, handler, pc) ==
  Ends(fields, handler, pc, <<pc + Int32(fields.imm)>>)

\* Mutant of BranchTo: every branch falls through by four.
BranchToFour(fields, handler, pc, len) ==
  Ends(fields, handler, pc, <<pc + Int32(fields.imm), pc + 4>>)

BranchTo(fields, handler, pc, len) ==
  Ends(fields, handler, pc, <<pc + Int32(fields.imm), pc + len>>)

-----------------------------------------------------------------------------
(***************************************************************************)
(* decode_insn32: the handler each switch selects, "illegal" where it      *)
(* breaks out.                                                             *)
(***************************************************************************)
funct3(op) == Num(op, 12, 3)
funct7(op) == Num(op, 25, 7)

LoadOp(op) ==
  <<"lb", "lh", "lw", "ld", "lbu", "lhu", "lwu", "illegal">>[funct3(op) + 1]

\* trans_pause is followed by trans_fence, which stores the same handler.
FenceOp(op) == IF funct3(op) \in {0, 1} THEN "empty" ELSE "illegal"

OpImm(op) ==
  LET high == Num(op, 26, 6) IN
  CASE funct3(op) = 1 -> IF high = 0 THEN "slli" ELSE "illegal"
    [] funct3(op) = 5 -> IF high = 0 THEN "srli"
                         ELSE IF high = 16 THEN "srai" ELSE "illegal"
    [] OTHER -> <<"addi", "", "slti", "sltiu", "xori", "", "ori", "andi">>
                  [funct3(op) + 1]

OpImm32(op) ==
  CASE funct3(op) = 0 -> "addiw"
    [] funct3(op) = 1 /\ funct7(op) = 0 -> "slliw"
    [] funct3(op) = 5 /\ funct7(op) = 0 -> "srliw"
    [] funct3(op) = 5 /\ funct7(op) = 32 -> "sraiw"
    [] OTHER -> "illegal"

StoreOp(op) ==
  IF funct3(op) < 4 THEN <<"sb", "sh", "sw", "sd">>[funct3(op) + 1]
  ELSE "illegal"

\* By bits 27 to 31, for words and for doublewords.
AmoName(funct5) ==
  CASE funct5 = 0  -> <<"amoadd_w", "amoadd_d">>
    [] funct5 = 1  -> <<"amoswap_w", "amoswap_d">>
    [] funct5 = 2  -> <<"lr_w", "lr_d">>
    [] funct5 = 3  -> <<"sc_w", "sc_d">>
    [] funct5 = 4  -> <<"amoxor_w", "amoxor_d">>
    [] funct5 = 8  -> <<"amoor_w", "amoor_d">>
    [] funct5 = 12 -> <<"amoand_w", "amoand_d">>
    [] funct5 = 16 -> <<"amomin_w", "amomin_d">>
    [] funct5 = 20 -> <<"amomax_w", "amomax_d">>
    [] funct5 = 24 -> <<"amominu_w", "amominu_d">>
    [] funct5 = 28 -> <<"amomaxu_w", "amomaxu_d">>
    [] OTHER       -> <<"illegal", "illegal">>

\* Mutant of AmoFits: lr does not look at bits 20 to 24.
AmoFitsLoose(op) == funct3(op) \in {2, 3}

AmoFits(op) ==
  /\ funct3(op) \in {2, 3}
  /\ Num(op, 27, 5) = 2 => Num(op, 20, 5) = 0

AmoOp(op) ==
  IF AmoFits(op) THEN AmoName(Num(op, 27, 5))[funct3(op) - 1] ELSE "illegal"

Op(op) ==
  CASE funct7(op) = 0 -> <<"add", "sll", "slt", "sltu", "xor", "srl", "or",
                           "and">>[funct3(op) + 1]
    [] funct7(op) = 1 -> <<"mul", "mulh", "mulhsu", "mulhu", "div", "divu",
                           "rem", "remu">>[funct3(op) + 1]
    [] funct7(op) = 32 /\ funct3(op) = 0 -> "sub"
    [] funct7(op) = 32 /\ funct3(op) = 5 -> "sra"
    [] OTHER -> "illegal"

Op32(op) ==
  CASE funct7(op) = 0 /\ funct3(op) \in {0, 1, 5} ->
         <<"addw", "sllw", "", "", "", "srlw">>[funct3(op) + 1]
    [] funct7(op) = 1 /\ funct3(op) \notin {1, 2, 3} ->
         <<"mulw", "", "", "", "divw", "divuw", "remw", "remuw">>
           [funct3(op) + 1]
    [] funct7(op) = 32 /\ funct3(op) = 0 -> "subw"
    [] funct7(op) = 32 /\ funct3(op) = 5 -> "sraw"
    [] OTHER -> "illegal"

BranchOp(op) ==
  <<"beq", "bne", "illegal", "illegal", "blt", "bge", "bltu", "bgeu">>
    [funct3(op) + 1]

JalrOp(op) == IF funct3(op) = 0 THEN "jalr" ELSE "illegal"

\* Only funct3 is looked at: ebreak, and any other word with it, is an ecall.
SystemOp(op) ==
  <<"ecall", "csrrw", "csrrs", "csrrc", "illegal", "csrrwi", "csrrsi",
    "csrrci">>[funct3(op) + 1]

\* The trans_X of gen_trans_r and gen_trans_i: no instruction for rd = 0.
UnlessRd0(fields, handler) ==
  Runs(fields, IF fields.rd = 0 THEN "empty" ELSE handler)

\* trans_lr_X, trans_sc_X and trans_amoX_X.
TransAtom(op, handler) ==
  Runs(IF handler \in {"lr_w", "lr_d"} THEN FieldsAtomLd(op)
       ELSE FieldsAtomSt(op), handler)

\* trans_ecall and gen_trans_csr.
TransSystem(op, handler, pc) ==
  IF handler = "ecall" THEN Ends(NoFields, "ecall", pc, <<>>)
  ELSE Runs(FieldsCsr(op), handler)

\* Mutant of TransUpper: trans_auipc forgets insn->pc.
TransUpperNoPc(op, handler, pc) == Runs(FieldsU(op), handler)

\* trans_lui and trans_auipc.
TransUpper(op, handler, pc) ==
  Runs(IF handler = "auipc" THEN With(FieldsU(op), [pc |-> pc]) ELSE FieldsU(op),
       handler)

decode_insn32(op, pc) ==
  LET opcode == Num(op, 0, 7)
      Or(handler, result) ==
        IF handler = "illegal" THEN trans_illegal(NoFields, pc) ELSE result
  IN
  CASE opcode = 3   -> Or(LoadOp(op), UnlessRd0(FieldsI(op), LoadOp(op)))
    [] opcode = 15  -> Or(FenceOp(op), Runs(NoFields, FenceOp(op)))
    [] opcode = 19  -> Or(OpImm(op), UnlessRd0(FieldsI(op), OpImm(op)))
    [] opcode = 23  -> TransUpper(op, "auipc", pc)
    [] opcode = 27  -> Or(OpImm32(op), UnlessRd0(FieldsI(op), OpImm32(op)))
    [] opcode = 35  -> Or(StoreOp(op), Runs(FieldsS(op), StoreOp(op)))
    [] opcode = 47  -> Or(AmoOp(op), TransAtom(op, AmoOp(op)))
    [] opcode = 51  -> Or(Op(op), UnlessRd0(FieldsR(op), Op(op)))
    [] opcode = 55  -> TransUpper(op, "lui", pc)
    [] opcode = 59  -> Or(Op32(op), UnlessRd0(FieldsR(op), Op32(op)))
    [] opcode = 99  -> Or(BranchOp(op),
                          BranchTo(FieldsB(op), BranchOp(op), pc, 4))
    [] opcode = 103 -> Or(JalrOp(op), Ends(FieldsI(op), "jalr", pc, <<>>))
    [] opcode = 111 -> JumpTo(FieldsJ(op), "jal", pc)
    [] opcode = 115 -> Or(SystemOp(op), TransSystem(op, SystemOp(op), pc))
    [] OTHER        -> trans_illegal(NoFields, pc)

-----------------------------------------------------------------------------
(***************************************************************************)
(* The compressed instructions: decode_insn16_extract_c_X and trans_c_X,   *)
(* by quadrant of the switch of decode_insn16.                             *)
(***************************************************************************)
C_rd3(op) == ex_rvc_register(op, 2)
C_rs3(op) == ex_rvc_register(op, 7)
C_rd5(op) == Reg(op, 7)
C_rs5(op) == Reg(op, 2)

\* A result the translator refuses for some register or immediate.
Unless(refused, fields, pc, result) ==
  IF refused THEN trans_illegal(fields, pc) ELSE result

\* c.addi4spn, and the loads and stores relative to a register.
TransC0(op, pc) ==
  LET f3 == Num(op, 13, 3)
      spn == [rd |-> C_rd3(op), rs1 |-> 2, imm |-> ImmC_addi4spn(op)]
      Load(imm) == [rd |-> C_rd3(op), rs1 |-> C_rs3(op), imm |-> imm]
      Store(imm) == [rs2 |-> C_rd3(op), rs1 |-> C_rs3(op), imm |-> imm]
  IN
  CASE f3 = 0 -> Unless(Num(op, 5, 8) = 0, NoFields, pc, Runs(spn, "addi"))
    [] f3 = 2 -> Runs(Load(ImmC_w(op)), "lw")
    [] f3 = 3 -> Runs(Load(ImmC_d(op)), "ld")
    [] f3 = 6 -> Runs(Store(ImmC_w(op)), "sw")
    [] f3 = 7 -> Runs(Store(ImmC_d(op)), "sd")
    [] OTHER  -> trans_illegal(NoFields, pc)

\* c.srli, c.srai, c.andi and the six register-register operations.
TransC_alu(op, pc) ==
  LET imm(i) == [rs1 |-> C_rs3(op), rd |-> C_rs3(op), imm |-> i]
      reg == [rs2 |-> C_rd3(op), rd |-> C_rs3(op), rs1 |-> C_rs3(op)]
      alu == <<"sub", "xor", "or", "and", "subw", "addw">>
      sel == 4 * op[12] + Num(op, 5, 2)
  IN
  CASE Num(op, 10, 2) = 0 -> Runs(imm(ImmC_shamt(op)), "srli")
    [] Num(op, 10, 2) = 1 -> Runs(imm(ImmC_shamt(op)), "srai")
    [] Num(op, 10, 2) = 2 -> Runs(imm(ImmC_6(op)), "andi")
    [] OTHER -> IF sel < 6 THEN Runs(reg, alu[sel + 1])
                ELSE trans_illegal(NoFields, pc)

\* c.addi16sp and c.lui share an encoding.
TransC_lui(op, pc) ==
  LET sp == [rd |-> 2, rs1 |-> 2, imm |-> ImmC_addi16sp(op)]
      lui == [rd |-> C_rd5(op), imm |-> ImmC_lui(op)]
  IN IF lui.rd = 2 THEN Runs(sp, "addi")
     ELSE Unless(lui.rd \in {0, 2} \/ lui.imm = ImmZero, lui, pc,
                 Runs(lui, "lui"))

\* Immediates, jumps and branches.
TransC1(op, pc) ==
  LET f3 == Num(op, 13, 3)
      addi == [rd |-> C_rd5(op), rs1 |-> C_rd5(op), imm |-> ImmC_6(op)]
      li == [addi EXCEPT !.rs1 = 0]
      beqz == [rs1 |-> C_rs3(op), rs2 |-> 0, imm |-> ImmC_b(op)]
  IN
  CASE f3 = 0 -> Runs(addi, IF addi.rd = 0 THEN "empty" ELSE "addi")
    [] f3 = 1 -> Unless(addi.rd = 0, addi, pc, Runs(addi, "addiw"))
    [] f3 = 2 -> Unless(li.rd = 0, li, pc, Runs(li, "addi"))
    [] f3 = 3 -> TransC_lui(op, pc)
    [] f3 = 4 -> TransC_alu(op, pc)
    [] f3 = 5 -> JumpTo([rd |-> 0, imm |-> ImmC_j(op)], "c_jal", pc)
    [] f3 = 6 -> BranchTo(beqz, "c_beq", pc, 2)
    [] f3 = 7 -> BranchTo(beqz, "c_bne", pc, 2)

\* c.jr, c.mv, c.ebreak, c.jalr and c.add.
TransC_jr(op, pc) ==
  LET jump(link) == [rd |-> link, rs1 |-> C_rd5(op), imm |-> ImmZero]
      mv  == [rd |-> C_rd5(op), rs1 |-> C_rs5(op), imm |-> ImmZero]
      add == [rs2 |-> C_rs5(op), rd |-> C_rd5(op), rs1 |-> C_rd5(op)]
      J(link) == Unless(jump(link).rs1 = 0, jump(link), pc,
                        Ends(jump(link), "c_jalr", pc, <<>>))
  IN
  CASE op[12] = 0 /\ C_rs5(op) = 0 -> J(0)
    [] op[12] = 0 /\ C_rs5(op) # 0 ->
         Unless(mv.rd = 0 \/ mv.rs1 = 0, mv, pc, Runs(mv, "addi"))
    [] op[12] = 1 /\ Num(op, 2, 10) = 0 -> Runs(NoFields, "empty")
    [] op[12] = 1 /\ Num(op, 2, 10) # 0 /\ C_rs5(op) = 0 -> J(1)
    [] OTHER -> Unless(add.rd = 0 \/ add.rs2 = 0, add, pc, Runs(add, "add"))

\* c.slli, the loads and stores relative to sp, and TransC_jr.
TransC2(op, pc) ==
  LET f3 == Num(op, 13, 3)
      slli == [rd |-> C_rd5(op), rs1 |-> C_rd5(op), imm |-> ImmC_shamt(op)]
      Load(imm) == [rd |-> C_rd5(op), rs1 |-> 2, imm |-> imm]
      Store(imm) == [rs2 |-> C_rs5(op), rs1 |-> 2, imm |-> imm]
      UnlessRd0C(fields, handler) ==
        Unless(fields.rd = 0, fields, pc, Runs(fields, handler))
  IN
  CASE f3 = 0 -> UnlessRd0C(slli, "slli")
    [] f3 = 2 -> UnlessRd0C(Load(ImmC_lwsp(op)), "lw")
    [] f3 = 3 -> UnlessRd0C(Load(ImmC_ldsp(op)), "ld")
    [] f3 = 4 -> TransC_jr(op, pc)
    [] f3 = 6 -> Runs(Store(ImmC_swsp(op)), "sw")
    [] f3 = 7 -> Runs(Store(ImmC_sdsp(op)), "sd")
    [] OTHER  -> trans_illegal(NoFields, pc)

decode_insn16(op, pc) ==
  <<TransC0(op, pc), TransC1(op, pc), TransC2(op, pc)>>[Num(op, 0, 2) + 1]

insn_len(op) == IF op[0] = 1 /\ op[1] = 1 THEN 4 ELSE 2

\* What decode makes of a fetched word; decode_insn16 takes a uint16_t.
Decoded(op, pc) ==
  IF insn_len(op) = 2 THEN decode_insn16(extract32(op, 0, 16), pc)
  ELSE decode_insn32(op, pc)

-----------------------------------------------------------------------------
(***************************************************************************)
(* One instruction from the fetch to the address executed after it.        *)
(***************************************************************************)
VARIABLES
  at,        \* "fetched", "decoded" or "ran"
  op,        \* the word cpu_lduw returned
  pc,        \* ctx->pc
  result,    \* what decode left in the slot and the context
  target,    \* the address executed next, or env->pc of an exception
  link,      \* what a jump wrote into rd
  raised     \* whether env->exception was set

vars == <<at, op, pc, result, target, link, raised>>

NoLink == -1
Nothing == Runs(NoFields, "empty")

Init ==
  /\ at = "fetched"
  /\ \E c \in Codes : op = WordOf(c)
  /\ pc \in Pcs
  /\ result = Nothing
  /\ target = pc
  /\ link = NoLink
  /\ raised = FALSE

DecodeInsn(len) ==
  /\ at = "fetched"
  /\ insn_len(op) = len
  /\ result' = Decoded(op, pc)
  /\ at' = "decoded"
  /\ UNCHANGED <<op, pc, target, link, raised>>

insn == result.insn

Ran(handlers) ==
  /\ at = "decoded"
  /\ insn.handler \in handlers
  /\ at' = "ran"
  /\ UNCHANGED <<op, pc, result>>

Branches == {"beq", "bne", "blt", "bge", "bltu", "bgeu", "c_beq", "c_bne"}
Csrs == {"csrrw", "csrrs", "csrrc", "csrrwi", "csrrsi", "csrrci"}

\* Mutant of Behind: the compressed jumps count four bytes, too.
BehindFour(handler) == 4

\* Bytes behind insn->pc at which the handler of a jump or a branch puts the
\* next instruction.
Behind(handler) == IF handler \in {"c_beq", "c_bne", "c_jal", "c_jalr"}
                   THEN 2 ELSE 4

\* do_beq to do_bgeu, do_c_beq, do_c_bne: taken or not is the guest's data.
DoBranch ==
  /\ Ran(Branches)
  /\ \E taken \in BOOLEAN :
       target' = insn.pc + (IF taken THEN Int32(insn.imm)
                            ELSE Behind(insn.handler))
  /\ UNCHANGED <<link, raised>>

WriteLink ==
  link' = IF insn.rd # 0 THEN insn.pc + Behind(insn.handler) ELSE link

\* do_jal, do_c_jal
DoJal ==
  /\ Ran({"jal", "c_jal"})
  /\ WriteLink
  /\ target' = insn.pc + Int32(insn.imm)
  /\ UNCHANGED raised

\* do_jalr, do_c_jalr; the base is any, the sum is made even.
DoJalr ==
  /\ Ran({"jalr", "c_jalr"})
  /\ WriteLink
  /\ \E base \in Bases : target' = 2 * ((base + Int32(insn.imm)) \div 2)
  /\ UNCHANGED raised

\* do_illegal, do_ecall
DoTrap ==
  /\ Ran({"illegal", "ecall"})
  /\ raised' = TRUE
  /\ target' = insn.pc
  /\ UNCHANGED link

\* The CSRs read_csr knows.
KnownCsr == {1, 2, 3, 8, 9, 10, 15, 3104, 3105, 3106}

UnknownCsr(slot) ==
  slot.handler \in Csrs /\ Num(slot.imm, 0, 12) \notin KnownCsr

\* rmw_csr fails and do_illegal takes insn->pc, which holds the buffer's 0.
DoUnknownCsr ==
  /\ Ran(Csrs)
  /\ UnknownCsr(insn)
  /\ raised' = TRUE
  /\ target' = IF "pc" \in DOMAIN insn THEN insn.pc ELSE 0
  /\ UNCHANGED link

\* Every other handler leaves pc and exception alone; block_exec goes on with
\* the slot decoded from ctx->pc + len.
DoThrough ==
  /\ at = "decoded"
  /\ insn.handler \notin Branches \cup {"jal", "c_jal", "jalr", "c_jalr",
                                        "illegal", "ecall"}
  /\ ~UnknownCsr(insn)
  /\ at' = "ran"
  /\ target' = pc + insn_len(op)
  /\ UNCHANGED <<op, pc, result, link, raised>>

Done == at = "ran" /\ UNCHANGED vars

Next ==
  \/ DecodeInsn(2) \/ DecodeInsn(4)
  \/ DoBranch \/ DoJal \/ DoJalr \/ DoTrap \/ DoUnknownCsr \/ DoThrough
  \/ Done

Spec == Init /\ [][Next]_vars

-----------------------------------------------------------------------------
(***************************************************************************)
(* Properties.                                                             *)
(***************************************************************************)
\* The state has its types; the fields of a slot are registers and words.
TypeOK ==
  /\ at \in {"fetched", "decoded", "ran"}
  /\ op \in Word
  /\ pc \in Pcs
  /\ \A f \in DOMAIN insn \cap {"rd", "rs1", "rs2"} : insn[f] \in 0 .. 31
  /\ "imm" \in DOMAIN insn => insn.imm \in Word
  /\ Len(result.next) \in 0 .. 2
  /\ target \in Int /\ link \in Int /\ raised \in BOOLEAN

\* What the handlers of cpu.c read of their insn_t.
Reads(slot) ==
  LET h == slot.handler IN
  CASE h = "empty" -> {}
    [] h \in {"illegal", "ecall"} -> {"pc"}
    [] h = "lui" -> {"rd", "imm"}
    [] h \in {"auipc", "jal", "c_jal"} -> {"rd", "imm", "pc"}
    [] h \in {"jalr", "c_jalr"} -> {"rd", "rs1", "imm", "pc"}
    [] h \in Branches -> {"rs1", "rs2", "imm", "pc"}
    [] h \in {"sb", "sh", "sw", "sd"} -> {"rs1", "rs2", "imm"}
    [] h \in {"lr_w", "lr_d"} -> {"rd", "rs1"}
    [] h \in {"lb", "lh", "lw", "ld", "lbu", "lhu", "lwu", "addi", "slti",
              "sltiu", "xori", "ori", "andi", "slli", "srli", "srai",
              "addiw", "slliw", "srliw", "sraiw"} \cup Csrs ->
         {"rd", "rs1", "imm"}
    [] OTHER -> {"rd", "rs1", "rs2"}

(***************************************************************************)
(* A handler never works on what the slot held before: every field it      *)
(* reads was assigned by the translator of this instruction. (The pc that  *)
(* do_illegal reads behind an unknown CSR is the exception; see the        *)
(* property IllegalIsFatal of CpuExec.)                                    *)
(***************************************************************************)
FieldsReadAreSet == at # "fetched" => Reads(insn) \subseteq DOMAIN insn

FormatLay(f) ==
  CASE f = "I" -> LayI [] f = "S" -> LayS [] f = "B" -> LayB
    [] f = "U" -> LayU [] f = "J" -> LayJ

FormatSign(f) ==
  CASE f = "I" -> 11 [] f = "S" -> 11 [] f = "B" -> 12
    [] f = "U" -> 31 [] f = "J" -> 20

\* An instruction whose only effect is on rd may be dropped when rd is x0.
OnlyWritesRd(r) ==
  r[2] \in {"R", "H5", "H6"} \/ (r[2] = "I" /\ r[1] # "jalr")

ImmAgrees(imm, f) ==
  CASE f = "H6" -> \A k \in 0 .. 5 : imm[k] = op[20 + k]
    [] f = "H5" -> \A k \in 0 .. 4 : imm[k] = op[20 + k]
    [] f = "C"  -> Carries(imm, op, LayI, Unsigned)
    [] OTHER    -> Carries(imm, op, FormatLay(f), FormatSign(f))

AgreesWithRow(r) ==
  LET f == r[2] IN
  CASE f = "F" -> insn.handler = "empty"
    [] f = "E" -> insn.handler = "ecall"
    [] OnlyWritesRd(r) /\ Reg(op, 7) = 0 -> insn.handler = "empty"
    [] OTHER ->
         /\ insn.handler = r[1]
         /\ f \notin {"S", "B"} => insn.rd = Reg(op, 7)
         /\ f \notin {"U", "J"} => insn.rs1 = Reg(op, 15)
         /\ \/ f \in {"R", "S", "B"}
            \/ f = "A" /\ r[1] \notin {"lr_w", "lr_d"}
            => insn.rs2 = Reg(op, 20)
         /\ f \notin {"R", "A"} => ImmAgrees(insn.imm, f)

\* ebreak, and the privileged and unassigned words of the SYSTEM opcode with
\* funct3 = 0, are taken for an ecall.
TakenForEcall ==
  Num(op, 0, 7) = 115 /\ funct3(op) = 0 /\ insn.handler = "ecall"

(***************************************************************************)
(* A 32-bit word that rvvk accepts is the instruction of the ISA with this *)
(* encoding, with the same registers and immediate bits; a word the ISA    *)
(* does not define is illegal. The only words that are taken for something *)
(* else are those of TakenForEcall.                                        *)
(***************************************************************************)
DecodesLikeTheIsa ==
  (at # "fetched" /\ insn_len(op) = 4) =>
    \/ \E r \in Matching(op) : AgreesWithRow(r)
    \/ Matching(op) = {} /\ insn.handler = "illegal"
    \/ TakenForEcall

UncompressedName(handler) ==
  CASE handler = "c_jal" -> "jal" [] handler = "c_jalr" -> "jalr"
    [] handler = "c_beq" -> "beq" [] handler = "c_bne" -> "bne"
    [] OTHER -> handler

AgreesWithExpansion(e) ==
  /\ UncompressedName(insn.handler) = e.name
  /\ e.rd  # NoReg => insn.rd = e.rd
  /\ e.rs1 # NoReg => insn.rs1 = e.rs1
  /\ e.rs2 # NoReg => insn.rs2 = e.rs2
  /\ "imm" \in DOMAIN insn => Carries(insn.imm, op, e.lay, e.sign)

(***************************************************************************)
(* A compressed instruction does what the instruction it abbreviates does, *)
(* for every 16-bit word: same operation, registers and immediate. What    *)
(* the ISA leaves reserved is free. Hints are refused or do nothing, and   *)
(* c.ebreak does nothing.                                                  *)
(***************************************************************************)
CompressedExpands ==
  (at # "fetched" /\ insn_len(op) = 2) =>
    LET e == Expansion(op) IN
    CASE e.name = "reserved" -> TRUE
      [] e.name = "illegal"  -> insn.handler = "illegal"
      [] e.name = "hint"     -> insn.handler \in {"empty", "illegal"}
      [] e.name = "ebreak"   -> insn.handler = "empty"
      [] OTHER               -> AgreesWithExpansion(e)

(***************************************************************************)
(* The block structure fits the handlers. Translation goes on behind an    *)
(* instruction only when its handler goes on with the next one; the edges  *)
(* stored for chaining cover every place the handler goes to, and one      *)
(* that raises is not chained and reports its own address. (Behind an      *)
(* unknown CSR none of this holds.)                                        *)
(***************************************************************************)
EdgesAreSuccessors ==
  (at = "ran" /\ ~UnknownCsr(insn)) =>
    /\ ~result.exit => target = pc + insn_len(op) /\ ~raised
    /\ result.next # <<>> =>
         /\ ~raised
         /\ \E n \in DOMAIN result.next : target = result.next[n]
    /\ raised => target = pc

\* The return address a jump leaves in rd is that of the next instruction,
\* whichever of the two lengths the jump has.
LinkIsNextInsn == link # NoLink => link = pc + insn_len(op)
==============================================================================
