-------------------------------- MODULE RvIsa --------------------------------
(***************************************************************************)
(* What the RISC-V manual says of the words rvvk decodes (RV64IMA with     *)
(* Zicsr and the integer part of C), written as the manual writes it: rows *)
(* of opcode, funct3 and funct7, and for each immediate the list of its    *)
(* bits from the high end of the field to the low one.                     *)
(*                                                                         *)
(* A word is a function from bit numbers to bits, as in Decode.            *)
(***************************************************************************)
EXTENDS Integers, Sequences

\* hi, hi - 1, ..., lo: the manual's imm[hi:lo].
Down(hi, lo) == [n \in 1 .. hi - lo + 1 |-> hi - n + 1]

(***************************************************************************)
(* A layout is a set of pairs: bit p of the word is bit k of the           *)
(* immediate. Lay places a list of immediate bits from bit p downwards.    *)
(***************************************************************************)
Lay(p, ks) == {<<p - n + 1, ks[n]>> : n \in DOMAIN ks}

LayI == Lay(31, Down(11, 0))
LayS == Lay(31, Down(11, 5)) \cup Lay(11, Down(4, 0))
LayB == Lay(31, <<12>> \o Down(10, 5)) \cup Lay(11, Down(4, 1) \o <<11>>)
LayU == Lay(31, Down(31, 12))
LayJ == Lay(31, <<20>> \o Down(10, 1) \o <<11>> \o Down(19, 12))

LayC_addi4spn == Lay(12, <<5, 4, 9, 8, 7, 6, 2, 3>>)
LayC_w == Lay(12, <<5, 4, 3>>) \cup Lay(6, <<2, 6>>)
LayC_d == Lay(12, <<5, 4, 3>>) \cup Lay(6, <<7, 6>>)
LayC_6 == Lay(12, <<5>>) \cup Lay(6, <<4, 3, 2, 1, 0>>)
LayC_lui == Lay(12, <<17>>) \cup Lay(6, <<16, 15, 14, 13, 12>>)
LayC_addi16sp == Lay(12, <<9>>) \cup Lay(6, <<4, 6, 8, 7, 5>>)
LayC_j == Lay(12, <<11, 4, 9, 8, 10, 6, 7, 3, 2, 1, 5>>)
LayC_b == Lay(12, <<8, 4, 3>>) \cup Lay(6, <<7, 6, 2, 1, 5>>)
LayC_lwsp == Lay(12, <<5>>) \cup Lay(6, <<4, 3, 2, 7, 6>>)
LayC_ldsp == Lay(12, <<5>>) \cup Lay(6, <<4, 3, 8, 7, 6>>)
LayC_swsp == Lay(12, <<5, 4, 3, 2, 7, 6>>)
LayC_sdsp == Lay(12, <<5, 4, 3, 8, 7, 6>>)

\* imm holds the bits lay takes from the word, copies of its bit `sign'
\* above them, and zeros elsewhere. sign = 32 for an unsigned immediate.
Carries(imm, op, lay, sign) ==
  /\ \A e \in lay : imm[e[2]] = op[e[1]]
  /\ \A k \in 0 .. 31 :
       (\A e \in lay : e[2] # k) =>
         imm[k] = IF k > sign THEN imm[sign] ELSE 0

Unsigned == 32

-----------------------------------------------------------------------------
\* The number in the n bits of op from bit p.
Num(op, p, n) ==
  LET v[k \in 0 .. n] ==
        IF k = 0 THEN 0 ELSE v[k - 1] + 2 ^ (k - 1) * op[p + k - 1]
  IN  v[n]

Any3 == 0 .. 7
Any7 == 0 .. 127

(***************************************************************************)
(* The 32-bit instructions: <<mnemonic, format, opcode, funct3s, funct7s>>.*)
(***************************************************************************)
Numbered(names, format, opcode, funct7s) ==
  {<<names[n], format, opcode, {n - 1}, funct7s>> :
     n \in {k \in DOMAIN names : names[k] # ""}}

Amo(names, funct5) ==
  {<<names[1], "A", 47, {2}, 4 * funct5 .. 4 * funct5 + 3>>,
   <<names[2], "A", 47, {3}, 4 * funct5 .. 4 * funct5 + 3>>}

JumpRows ==
  {<<"lui", "U", 55, Any3, Any7>>, <<"auipc", "U", 23, Any3, Any7>>,
   <<"jal", "J", 111, Any3, Any7>>, <<"jalr", "I", 103, {0}, Any7>>,
   <<"fence", "F", 15, {0}, Any7>>, <<"fence.i", "F", 15, {1}, Any7>>}

BranchRows ==
  Numbered(<<"beq", "bne", "", "", "blt", "bge", "bltu", "bgeu">>,
           "B", 99, Any7)

LoadRows ==
  Numbered(<<"lb", "lh", "lw", "ld", "lbu", "lhu", "lwu", "">>, "I", 3, Any7)

StoreRows ==
  Numbered(<<"sb", "sh", "sw", "sd", "", "", "", "">>, "S", 35, Any7)

ImmRows ==
  Numbered(<<"addi", "", "slti", "sltiu", "xori", "", "ori", "andi">>,
           "I", 19, Any7)
  \cup {<<"slli", "H6", 19, {1}, {0, 1}>>, <<"srli", "H6", 19, {5}, {0, 1}>>,
        <<"srai", "H6", 19, {5}, {32, 33}>>}

Imm32Rows ==
  {<<"addiw", "I", 27, {0}, Any7>>, <<"slliw", "H5", 27, {1}, {0}>>,
   <<"srliw", "H5", 27, {5}, {0}>>, <<"sraiw", "H5", 27, {5}, {32}>>}

RegRows ==
  Numbered(<<"add", "sll", "slt", "sltu", "xor", "srl", "or", "and">>,
           "R", 51, {0})
  \cup Numbered(<<"sub", "", "", "", "", "sra", "", "">>, "R", 51, {32})
  \cup Numbered(<<"mul", "mulh", "mulhsu", "mulhu", "div", "divu", "rem",
                  "remu">>, "R", 51, {1})

Reg32Rows ==
  Numbered(<<"addw", "sllw", "", "", "", "srlw", "", "">>, "R", 59, {0})
  \cup Numbered(<<"subw", "", "", "", "", "sraw", "", "">>, "R", 59, {32})
  \cup Numbered(<<"mulw", "", "", "", "divw", "divuw", "remw", "remuw">>,
                "R", 59, {1})

SystemRows ==
  Numbered(<<"", "csrrw", "csrrs", "csrrc", "", "csrrwi", "csrrsi",
             "csrrci">>, "C", 115, Any7)
  \cup {<<"ecall", "E", 115, {0}, {0}>>}

AmoRows ==
  UNION {
    Amo(<<"lr_w", "lr_d">>, 2), Amo(<<"sc_w", "sc_d">>, 3),
    Amo(<<"amoswap_w", "amoswap_d">>, 1), Amo(<<"amoadd_w", "amoadd_d">>, 0),
    Amo(<<"amoxor_w", "amoxor_d">>, 4), Amo(<<"amoand_w", "amoand_d">>, 12),
    Amo(<<"amoor_w", "amoor_d">>, 8), Amo(<<"amomin_w", "amomin_d">>, 16),
    Amo(<<"amomax_w", "amomax_d">>, 20),
    Amo(<<"amominu_w", "amominu_d">>, 24),
    Amo(<<"amomaxu_w", "amomaxu_d">>, 28)}

Rows ==
  UNION {JumpRows, BranchRows, LoadRows, StoreRows, ImmRows, Imm32Rows,
         RegRows, Reg32Rows, SystemRows, AmoRows}

\* What is left of a row's encoding: lr and ecall fix their other fields.
RestFits(name, op) ==
  /\ name \in {"lr_w", "lr_d"} => Num(op, 20, 5) = 0
  /\ name = "ecall" => Num(op, 7, 25) = 0

Matching(op) ==
  LET opcode == Num(op, 0, 7)
      f3 == Num(op, 12, 3)
      f7 == Num(op, 25, 7)
  IN  {r \in Rows : r[3] = opcode /\ f3 \in r[4] /\ f7 \in r[5]
                    /\ RestFits(r[1], op)}

-----------------------------------------------------------------------------
(***************************************************************************)
(* The compressed instructions, as the manual's list of expansions: the    *)
(* mnemonic, the registers, and the layout and sign bit of the immediate.  *)
(* A hint must do nothing; a reserved encoding may do anything.            *)
(***************************************************************************)
Pair(name, rd, rs1, rs2, lay, sign) ==
  [name |-> name, rd |-> rd, rs1 |-> rs1, rs2 |-> rs2, lay |-> lay,
   sign |-> sign]

NoReg == -1
Hint == Pair("hint", NoReg, NoReg, NoReg, {}, Unsigned)
Reserved == Pair("reserved", NoReg, NoReg, NoReg, {}, Unsigned)
Absent == Pair("illegal", NoReg, NoReg, NoReg, {}, Unsigned)

\* The registers: all 32 of them, or the eight from x8.
C_r(op) == Num(op, 7, 5)
C_s(op) == Num(op, 2, 5)
C_r3(op) == 8 + Num(op, 7, 3)
C_s3(op) == 8 + Num(op, 2, 3)

Quadrant0(op) ==
  LET b == Num(op, 13, 3)  r3 == C_r3(op)  s3 == C_s3(op) IN
  CASE b = 0 -> IF Num(op, 2, 11) = 0 THEN Absent
                ELSE IF Num(op, 5, 8) = 0 THEN Reserved
                ELSE Pair("addi", s3, 2, NoReg, LayC_addi4spn, 32)
    [] b = 2 -> Pair("lw", s3, r3, NoReg, LayC_w, 32)
    [] b = 3 -> Pair("ld", s3, r3, NoReg, LayC_d, 32)
    [] b = 6 -> Pair("sw", NoReg, r3, s3, LayC_w, 32)
    [] b = 7 -> Pair("sd", NoReg, r3, s3, LayC_d, 32)
    [] OTHER -> Absent      \* the floating-point rows

AluNames == <<"sub", "xor", "or", "and", "subw", "addw", "", "">>

AluExpansion(op) ==
  LET r3 == C_r3(op)
      sub == Num(op, 10, 2)
      alu == AluNames[Num(op, 5, 2) + 4 * op[12] + 1]
  IN
  CASE sub = 0 -> Pair("srli", r3, r3, NoReg, LayC_6, 32)
    [] sub = 1 -> Pair("srai", r3, r3, NoReg, LayC_6, 32)
    [] sub = 2 -> Pair("andi", r3, r3, NoReg, LayC_6, 5)
    [] OTHER -> IF alu = "" THEN Reserved
                ELSE Pair(alu, r3, r3, C_s3(op), {}, 32)

Quadrant1(op) ==
  LET b == Num(op, 13, 3)  r == C_r(op)
      imm6 == C_s(op) + 32 * op[12]
  IN
  CASE b = 0 -> IF r = 0 THEN Hint ELSE Pair("addi", r, r, NoReg, LayC_6, 5)
    [] b = 1 -> IF r = 0 THEN Reserved
                ELSE Pair("addiw", r, r, NoReg, LayC_6, 5)
    [] b = 2 -> IF r = 0 THEN Hint ELSE Pair("addi", r, 0, NoReg, LayC_6, 5)
    [] b = 3 -> IF imm6 = 0 THEN Reserved
                ELSE IF r = 2
                THEN Pair("addi", 2, 2, NoReg, LayC_addi16sp, 9)
                ELSE IF r = 0 THEN Hint
                ELSE Pair("lui", r, NoReg, NoReg, LayC_lui, 17)
    [] b = 4 -> AluExpansion(op)
    [] b = 5 -> Pair("jal", 0, NoReg, NoReg, LayC_j, 11)
    [] b = 6 -> Pair("beq", NoReg, C_r3(op), 0, LayC_b, 8)
    [] b = 7 -> Pair("bne", NoReg, C_r3(op), 0, LayC_b, 8)

JumpExpansion(op) ==
  LET r == C_r(op)  s == C_s(op) IN
  CASE s = 0 /\ r = 0 -> IF op[12] = 0 THEN Reserved
                         ELSE [Hint EXCEPT !.name = "ebreak"]
    [] s = 0 /\ r # 0 -> Pair("jalr", op[12], r, NoReg, {}, 32)
    [] s # 0 /\ r = 0 -> Hint
       \* c.mv: addi rd, rs2, 0 has the effect of add rd, x0, rs2
    [] OTHER -> IF op[12] = 0 THEN Pair("addi", r, s, NoReg, {}, 32)
                ELSE Pair("add", r, r, s, {}, 32)

Quadrant2(op) ==
  LET b == Num(op, 13, 3)  r == C_r(op)  s == C_s(op) IN
  CASE b = 0 -> IF r = 0 THEN Hint ELSE Pair("slli", r, r, NoReg, LayC_6, 32)
    [] b = 2 -> IF r = 0 THEN Reserved
                ELSE Pair("lw", r, 2, NoReg, LayC_lwsp, 32)
    [] b = 3 -> IF r = 0 THEN Reserved
                ELSE Pair("ld", r, 2, NoReg, LayC_ldsp, 32)
    [] b = 4 -> JumpExpansion(op)
    [] b = 6 -> Pair("sw", NoReg, 2, s, LayC_swsp, 32)
    [] b = 7 -> Pair("sd", NoReg, 2, s, LayC_sdsp, 32)
    [] OTHER -> Absent      \* the floating-point rows

Expansion(op) ==
  <<Quadrant0(op), Quadrant1(op), Quadrant2(op)>>[Num(op, 0, 2) + 1]
==============================================================================
