--------------------------------- MODULE Alu ---------------------------------
(***************************************************************************)
(* Instruction semantics: the do_X of arch/riscv/cpu.c, from their operand *)
(* registers to the register, the memory cell, the CSR and the pc they     *)
(* write. Registers keep the program's shape at a smaller size: a          *)
(* target_long is two ints, an int four bytes, and a byte IntBits \div 4   *)
(* bits. RvArith says what the ISA computes.                               *)
(*                                                                         *)
(* C's casts are explicit. Undefined behaviour is what the build for a     *)
(* x86-64 host does: a signed shift to the right copies the sign, and a    *)
(* division by zero or out of range kills the process with SIGFPE.         *)
(***************************************************************************)
EXTENDS RvArith, Sequences

CONSTANTS
  IntBits,   \* bits of an int; a long has twice as many
  Half,      \* TwoTo[IntBits]
  VLMAX,     \* the ISA's vstart holds the numbers below it
  CellAt,    \* the guest address of the doubleword of memory
  Codes,     \* names of the states before an instruction
  StartOf(_) \* such a state

LongBits == 2 * IntBits
Base == Half * Half
ByteBits == IntBits \div 4
Byte == TwoTo[ByteBits]

Long == 0 .. Base - 1
Gprs == 0 .. 3
Bytes == 0 .. 7

\* The CSRs read_csr and write_csr know: a target_ulong of their own each.
KnownCsr == {"fflags", "frm", "fcsr", "vstart", "vxsat", "vxrm", "vcsr",
             "vl", "vtype", "vlenb"}

\* The slot's pc is the instruction's address where the translator assigns
\* it, and the zero of fresh pages elsewhere.
Insn == [h : STRING, rd : Gprs, rs1 : Gprs, rs2 : Gprs, imm : Int,
         bytes : {4, 8}, csr : KnownCsr \cup {"unknown"}, pc : Long]

Start == [insn : Insn, gpr : [Gprs -> Long], mem : [Bytes -> 0 .. Byte - 1],
          csr : [KnownCsr -> Long], pc : Long, iaddr : Long,
          reserved : BOOLEAN]

ASSUME WidthAssumption ==
  /\ IntBits \in Nat \ {0} /\ IntBits % 4 = 0 /\ Half % IntBits = 0
  /\ Half \in Nat /\ Half >= 16 /\ Half = TwoTo[IntBits]
  /\ CellAt \in Nat /\ VLMAX \in 1 .. Base

VARIABLES
  at,        \* "ready", "ran", or "killed" by a signal of the host
  insn,      \* the slot
  gpr, mem, csr, pc,
  exception, \* "none" or "illegal"
  iaddr,     \* the instruction's address, of which a handler sees insn.pc
  reserved   \* the ISA's reservation of the hart; rvvk keeps none

vars == <<at, insn, gpr, mem, csr, pc, exception, iaddr, reserved>>

Init ==
  /\ at = "ready" /\ exception = "none"
  /\ \E c \in Codes : LET s == StartOf(c) IN
       /\ insn = s.insn /\ gpr = s.gpr /\ mem = s.mem
       /\ csr = s.csr /\ pc = s.pc /\ iaddr = s.iaddr
       /\ reserved = s.reserved

-----------------------------------------------------------------------------
(***************************************************************************)
(* Casts and the operators of C.                                           *)
(***************************************************************************)
Signed(n, m) == LET u == n % m IN IF 2 * u >= m THEN u - m ELSE u

target_long(n) == Signed(n, Base)
target_ulong(n) == n % Base
target_hulong(n) == n % Half
int32(n) == Signed(n, Half)
uint32(n) == n % Half

Shl(n, s) == n * TwoTo[s]
Shr(n, s) == n \div TwoTo[s]

BitAnd(m, n) == Both(m, n, LongBits)
BitOr(m, n) == Either(m, n, LongBits)
BitXor(m, n) == Differ(m, n, LongBits)

Abs(n) == IF n < 0 THEN -n ELSE n
Quot(a, b) == IF (a < 0) = (b < 0) THEN Abs(a) \div Abs(b)
              ELSE -(Abs(a) \div Abs(b))
Rem(a, b) == a - b * Quot(a, b)

x == gpr[insn.rs1]
y == gpr[insn.rs2]
imm == target_ulong(insn.imm)

-----------------------------------------------------------------------------
Ran(handlers) ==
  /\ at = "ready"
  /\ insn.h \in handlers
  /\ at' = "ran"
  /\ UNCHANGED <<insn, iaddr, reserved>>

Put(value) == gpr' = [gpr EXCEPT ![insn.rd] = target_ulong(value)]

OnlyRd == UNCHANGED <<mem, csr, pc, exception>>

\* do_auipc, do_lui
DoUpper ==
  /\ Ran({"auipc", "lui"})
  /\ Put(IF insn.h = "lui" THEN imm ELSE insn.pc + imm)
  /\ OnlyRd

Link(len) ==
  IF insn.rd # 0 THEN Put(insn.pc + len) ELSE UNCHANGED gpr

\* do_jal, do_c_jal
DoJal ==
  /\ Ran({"jal", "c_jal"})
  /\ Link(IF insn.h = "jal" THEN 4 ELSE 2)
  /\ pc' = target_ulong(insn.pc + imm)
  /\ UNCHANGED <<mem, csr, exception>>

\* do_jalr, do_c_jalr: the base is read from the registers just written.
DoJalr ==
  /\ Ran({"jalr", "c_jalr"})
  /\ Link(IF insn.h = "jalr" THEN 4 ELSE 2)
  /\ pc' = 2 * (target_ulong(gpr'[insn.rs1] + imm) \div 2)
  /\ UNCHANGED <<mem, csr, exception>>

\* do_add to do_and
AluResult(h) ==
  LET shift == y % LongBits IN
  CASE h = "add"  -> x + y
    [] h = "sub"  -> x - y
    [] h = "sll"  -> Shl(x, shift)
    [] h = "slt"  -> One(target_long(x) < target_long(y))
    [] h = "sltu" -> One(x < y)
    [] h = "xor"  -> BitXor(x, y)
    [] h = "srl"  -> Shr(x, shift)
    [] h = "sra"  -> Shr(target_long(x), shift)
    [] h = "or"   -> BitOr(x, y)
    [] h = "and"  -> BitAnd(x, y)

AluOps == {"add", "sub", "sll", "slt", "sltu", "xor", "srl", "sra", "or",
           "and"}
DoAlu == Ran(AluOps) /\ Put(AluResult(insn.h)) /\ OnlyRd

\* Mutant of Taken: do_bge is not taken when the registers are equal.
TakenStrict(h) ==
  CASE h \in {"beq", "c_beq"} -> x = y
    [] h \in {"bne", "c_bne"} -> x # y
    [] h = "blt"  -> target_long(x) < target_long(y)
    [] h = "bge"  -> target_long(x) > target_long(y)
    [] h = "bltu" -> x < y
    [] h = "bgeu" -> x >= y

Taken(h) ==
  CASE h \in {"beq", "c_beq"} -> x = y
    [] h \in {"bne", "c_bne"} -> x # y
    [] h = "blt"  -> target_long(x) < target_long(y)
    [] h = "bge"  -> target_long(x) >= target_long(y)
    [] h = "bltu" -> x < y
    [] h = "bgeu" -> x >= y

BranchOps == {"beq", "bne", "blt", "bge", "bltu", "bgeu", "c_beq", "c_bne"}

\* do_beq to do_c_bne
DoBranch ==
  /\ Ran(BranchOps)
  /\ pc' = target_ulong(
             insn.pc + (IF Taken(insn.h) THEN imm
                        ELSE IF insn.h \in {"c_beq", "c_bne"} THEN 2 ELSE 4))
  /\ UNCHANGED <<gpr, mem, csr, exception>>

-----------------------------------------------------------------------------
(***************************************************************************)
(* Memory: cpu_ldX and cpu_stX, little-endian and at any alignment.        *)
(***************************************************************************)
Offset(address) == target_ulong(address) - CellAt

cpu_ld(address, bytes) ==
  OfBits([b \in 0 .. bytes * ByteBits - 1 |->
            BitOf(mem[Offset(address) + b \div ByteBits], b % ByteBits)],
         bytes * ByteBits)

\* Mutant of cpu_st: a byte of memory takes what does not fit it.
cpu_stWide(address, bytes, value) ==
  mem' = [k \in Bytes |->
            LET n == k - Offset(address) IN
            IF n \in 0 .. bytes - 1 THEN Shr(value, n * ByteBits) ELSE mem[k]]

cpu_st(address, bytes, value) ==
  mem' = [k \in Bytes |->
            LET n == k - Offset(address) IN
            IF n \in 0 .. bytes - 1 THEN Shr(value, n * ByteBits) % Byte
            ELSE mem[k]]

LoadBytes(h) ==
  CASE h \in {"lb", "lbu"} -> 1 [] h \in {"lh", "lhu"} -> 2
    [] h \in {"lw", "lwu"} -> 4 [] h = "ld" -> 8

\* Mutant of LoadResult: do_lwu sign-extends.
LoadResultSigned(h) ==
  Signed(cpu_ld(x + imm, LoadBytes(h)), TwoTo[LoadBytes(h) * ByteBits])

\* do_lb to do_ld; the unsigned ones do not cast to intN_t.
LoadResult(h) ==
  LET value == cpu_ld(x + imm, LoadBytes(h)) IN
  IF h \in {"lbu", "lhu", "lwu"} THEN value
  ELSE Signed(value, TwoTo[LoadBytes(h) * ByteBits])

LoadOps == {"lb", "lh", "lw", "ld", "lbu", "lhu", "lwu"}
DoLoad == Ran(LoadOps) /\ Put(LoadResult(insn.h)) /\ OnlyRd

StoreBytes(h) ==
  CASE h = "sb" -> 1 [] h = "sh" -> 2 [] h = "sw" -> 4 [] h = "sd" -> 8

StoreOps == {"sb", "sh", "sw", "sd"}
DoStore ==
  /\ Ran(StoreOps)
  /\ cpu_st(x + imm, StoreBytes(insn.h), y)
  /\ UNCHANGED <<gpr, csr, pc, exception>>

-----------------------------------------------------------------------------
\* do_addi to do_srai; the immediates are sign-extended before any use.
ImmResult(h) ==
  LET shift == imm % LongBits IN
  CASE h = "addi"  -> x + imm
    [] h = "slti"  -> One(target_long(x) < target_long(imm))
    [] h = "sltiu" -> One(x < imm)
    [] h = "xori"  -> BitXor(x, imm)
    [] h = "ori"   -> BitOr(x, imm)
    [] h = "andi"  -> BitAnd(x, imm)
    [] h = "slli"  -> Shl(x, shift)
    [] h = "srli"  -> Shr(x, shift)
    [] h = "srai"  -> Shr(target_long(x), shift)

ImmOps == {"addi", "slti", "sltiu", "xori", "ori", "andi", "slli", "srli",
           "srai"}
DoImm == Ran(ImmOps) /\ Put(ImmResult(insn.h)) /\ OnlyRd

\* do_addiw to do_sraw. The logical shifts go through uint32_t, not int32_t.
WordResult(h) ==
  LET s == y % IntBits  si == imm % IntBits IN
  CASE h = "addiw" -> int32(x + imm)
    [] h = "slliw" -> uint32(Shl(uint32(x), si))
    [] h = "srliw" -> Shr(uint32(x), si)
    [] h = "sraiw" -> Shr(int32(x), si)
    [] h = "addw"  -> int32(x + y)
    [] h = "subw"  -> int32(x - y)
    [] h = "sllw"  -> uint32(Shl(uint32(x), s))
    [] h = "srlw"  -> Shr(uint32(x), s)
    [] h = "sraw"  -> Shr(int32(x), s)

WordOps == {"addiw", "slliw", "srliw", "sraiw", "addw", "subw", "sllw",
            "srlw", "sraw"}
DoWord == Ran(WordOps) /\ Put(WordResult(insn.h)) /\ OnlyRd

-----------------------------------------------------------------------------
(***************************************************************************)
(* Multiplication: wmulu, wmul and wmulsu build the double product from    *)
(* four half products.                                                     *)
(***************************************************************************)
\* Mutant of wmulu: the carry of the low half is lost.
wmuluNoCarry(u, v) ==
  LET u1 == u \div Half  v1 == v \div Half
      u0 == u % Half     v0 == v % Half
  IN  [hi |-> target_ulong(u1 * v1 + (u1 * v0) \div Half + (u0 * v1) \div Half),
       lo |-> target_ulong(u * v)]

wmulu(u, v) ==
  LET u0 == target_hulong(u)  u1 == u \div Half
      v0 == target_hulong(v)  v1 == v \div Half
      p11 == target_ulong(u1 * v1)  p01 == target_ulong(u0 * v1)
      p10 == target_ulong(u1 * v0)  p00 == target_ulong(u0 * v0)
      c == target_ulong(p00 \div Half + target_hulong(p10)
                        + target_hulong(p01)) \div Half
  IN  [hi |-> target_ulong(p11 + p10 \div Half + p01 \div Half + c),
       lo |-> target_ulong(p00 + p10 * Half + p01 * Half)]

wmulsu(u, v) ==
  LET p == wmulu(u, v) IN
  IF target_long(u) < 0 THEN [p EXCEPT !.hi = target_ulong(p.hi - v)] ELSE p

wmul(u, v) ==
  LET p == wmulsu(u, v) IN
  IF target_long(v) < 0 THEN [p EXCEPT !.hi = target_ulong(p.hi - u)] ELSE p

\* do_mul to do_mulhu, do_mulw
MulResult(h) ==
  CASE h = "mul"    -> target_long(x) * target_long(y)
    [] h = "mulh"   -> wmul(x, y).hi
    [] h = "mulhsu" -> wmulsu(x, y).hi
    [] h = "mulhu"  -> wmulu(x, y).hi
    [] h = "mulw"   -> int32(x * y)

MulOps == {"mul", "mulh", "mulhsu", "mulhu", "mulw"}
DoMul == Ran(MulOps) /\ Put(MulResult(insn.h)) /\ OnlyRd

\* do_div to do_remu, do_divw to do_remuw: the operands and whether the
\* quotient is asked for.
DivOps == {"div", "divu", "rem", "remu", "divw", "divuw", "remw", "remuw"}

Operands(h) ==
  CASE h \in {"div", "rem"}     -> <<target_long(x), target_long(y)>>
    [] h \in {"divu", "remu"}   -> <<x, y>>
    [] h \in {"divw", "remw"}   -> <<int32(x), int32(y)>>
    [] h \in {"divuw", "remuw"} -> <<uint32(x), uint32(y)>>

Least(h) == CASE h \in {"div", "rem"} -> -(Base \div 2)
              [] h \in {"divw", "remw"} -> -(Half \div 2)
              [] OTHER -> -Base

\* The host's divide instruction faults.
Faults(h) ==
  LET o == Operands(h) IN o[2] = 0 \/ (o[1] = Least(h) /\ o[2] = -1)

DivResult(h) ==
  LET o == Operands(h) IN
  IF h \in {"div", "divu", "divw", "divuw"} THEN Quot(o[1], o[2])
  ELSE Rem(o[1], o[2])

DoDiv == Ran(DivOps) /\ ~Faults(insn.h) /\ Put(DivResult(insn.h)) /\ OnlyRd

DoDivKilled ==
  /\ at = "ready" /\ insn.h \in DivOps /\ Faults(insn.h)
  /\ at' = "killed"
  /\ UNCHANGED <<insn, gpr, mem, csr, pc, exception, iaddr, reserved>>

-----------------------------------------------------------------------------
(***************************************************************************)
(* CSRs: read_csr, write_csr, rmw_csr and the six do_csrX.                 *)
(***************************************************************************)
CsrOps == {"csrrw", "csrrs", "csrrc", "csrrwi", "csrrsi", "csrrci"}

\* new_value and wr_mask
CsrSource(h) == IF h \in {"csrrwi", "csrrsi", "csrrci"} THEN insn.rs1 ELSE x

NewValue(h) ==
  CASE h \in {"csrrw", "csrrwi"} -> CsrSource(h)
    [] h \in {"csrrs", "csrrsi"} -> Base - 1
    [] h \in {"csrrc", "csrrci"} -> 0

WrMask(h) == IF h \in {"csrrw", "csrrwi"} THEN Base - 1 ELSE CsrSource(h)

\* Mutant of rmw_csr: the bits outside the mask are lost.
rmw_csrNoKeep(value, new_value, wr_mask) == BitAnd(new_value, wr_mask)

rmw_csr(value, new_value, wr_mask) ==
  BitOr(BitAnd(value, Base - 1 - wr_mask), BitAnd(new_value, wr_mask))

DoCsr ==
  /\ Ran(CsrOps)
  /\ insn.csr \in KnownCsr
  /\ csr' = [csr EXCEPT ![insn.csr] =
               rmw_csr(@, NewValue(insn.h), WrMask(insn.h))]
  /\ Put(csr[insn.csr])
  /\ UNCHANGED <<mem, pc, exception>>

\* The default of read_csr, then do_illegal: the slot's pc is never assigned.
DoCsrUnknown ==
  /\ Ran(CsrOps)
  /\ insn.csr \notin KnownCsr
  /\ exception' = "illegal"
  /\ pc' = insn.pc
  /\ UNCHANGED <<gpr, mem, csr>>

-----------------------------------------------------------------------------
(***************************************************************************)
(* Atomics. One host thread runs the guest, so a handler is one step.      *)
(***************************************************************************)
\* intN_t of an operand of insn.bytes bytes, and uintN_t.
Cell == TwoTo[insn.bytes * ByteBits]
int_(n) == Signed(n, Cell)
uint_(n) == n % Cell
least(m, n) == IF m < n THEN m ELSE n
greatest(m, n) == IF m > n THEN m ELSE n

\* do_lr_w, do_lr_d
DoLr ==
  /\ Ran({"lr"})
  /\ Put(int_(cpu_ld(x, insn.bytes)))
  /\ OnlyRd

\* do_sc_w, do_sc_d: a store, and the report that it was done.
DoSc ==
  /\ Ran({"sc"})
  /\ cpu_st(x, insn.bytes, y)
  /\ Put(0)
  /\ UNCHANGED <<csr, pc, exception>>

\* Mutant of AmoStores: the unsigned minimum compares signed numbers.
AmoStoresSigned(h, old) == least(int_(old), int_(y))

AmoStores(h, old) ==
  CASE h = "amoadd"  -> old + y
    [] h = "amoswap" -> y
    [] h = "amoxor"  -> BitXor(old, y)
    [] h = "amoor"   -> BitOr(old, y)
    [] h = "amoand"  -> BitAnd(old, y)
    [] h = "amomin"  -> least(int_(old), int_(y))
    [] h = "amomax"  -> greatest(int_(old), int_(y))
    [] h = "amominu" -> least(uint_(old), uint_(y))
    [] h = "amomaxu" -> greatest(uint_(old), uint_(y))

AmoOps == {"amoadd", "amoswap", "amoxor", "amoor", "amoand", "amomin",
           "amomax", "amominu", "amomaxu"}

\* do_amoadd_w to do_amomaxu_d
DoAmo ==
  /\ Ran(AmoOps)
  /\ LET old == cpu_ld(x, insn.bytes) IN
       /\ cpu_st(x, insn.bytes, AmoStores(insn.h, old))
       /\ Put(int_(old))
  /\ UNCHANGED <<csr, pc, exception>>

-----------------------------------------------------------------------------
\* The bytes of the cell, by their number, that a memory instruction reaches.
AtomicOps == AmoOps \cup {"lr", "sc"}
Reach(address, bytes) == {Offset(address) + n : n \in 0 .. bytes - 1}
Reached(s) ==
  LET h == s.insn.h  base == s.gpr[s.insn.rs1] IN
  CASE h \in LoadOps   -> Reach(base + s.insn.imm, LoadBytes(h))
    [] h \in StoreOps  -> Reach(base + s.insn.imm, StoreBytes(h))
    [] h \in AtomicOps -> Reach(base, s.insn.bytes)
    [] OTHER           -> {}

\* The handlers whose translator assigns insn->pc.
JumpOps == {"jal", "c_jal", "jalr", "c_jalr"}
PcOps == JumpOps \cup BranchOps \cup {"auipc"}

\* The cell is where the instruction reaches. x0 reads as zero: of other
\* states the ISA says nothing.
ASSUME StartsAssumption ==
  \A c \in Codes : LET s == StartOf(c) IN
    /\ s \in Start /\ s.gpr[0] = 0 /\ Reached(s) \subseteq Bytes
    /\ s.insn.pc = IF s.insn.h \in PcOps THEN s.iaddr ELSE 0

Done == at # "ready" /\ UNCHANGED vars

Next ==
  \/ DoUpper \/ DoJal \/ DoJalr \/ DoAlu \/ DoBranch \/ DoLoad \/ DoStore
  \/ DoImm \/ DoWord \/ DoMul \/ DoDiv \/ DoDivKilled
  \/ DoCsr \/ DoCsrUnknown \/ DoLr \/ DoSc \/ DoAmo
  \/ Done

Spec == Init /\ [][Next]_vars

-----------------------------------------------------------------------------
(***************************************************************************)
(* What the ISA makes of the same state.                                   *)
(***************************************************************************)
ImmForm == [addi |-> "add", slti |-> "slt", sltiu |-> "sltu", xori |-> "xor",
            ori |-> "or", andi |-> "and", slli |-> "sll", srli |-> "srl",
            srai |-> "sra"]
WordForm == [addw |-> "add", subw |-> "sub", sllw |-> "sll", srlw |-> "srl",
             sraw |-> "sra", mulw |-> "mul", divw |-> "div",
             divuw |-> "divu", remw |-> "rem", remuw |-> "remu"]
WordImmForm == [addiw |-> "add", slliw |-> "sll", srliw |-> "srl",
                sraiw |-> "sra"]
AmoForm == [amoadd |-> "add", amoswap |-> "swap", amoxor |-> "xor",
            amoor |-> "or", amoand |-> "and", amomin |-> "min",
            amomax |-> "max", amominu |-> "minu", amomaxu |-> "maxu"]

IsaTaken ==
  LET a == SignedOf(x, LongBits)  b == SignedOf(y, LongBits)  h == insn.h IN
  \/ h \in {"beq", "c_beq"} /\ x = y
  \/ h \in {"bne", "c_bne"} /\ x # y
  \/ h = "blt" /\ a < b
  \/ h = "bge" /\ ~(a < b)
  \/ h = "bltu" /\ x < y
  \/ h = "bgeu" /\ ~(x < y)

IsaLen == IF insn.h \in {"c_jal", "c_jalr", "c_beq", "c_bne"} THEN 2 ELSE 4

IsaLoads(bytes) ==
  Widen(cpu_ld(x + imm, bytes), bytes * ByteBits, LongBits)

\* The result of an operation on the low halves of x and v, sign-extended.
WordComputes(op, v) ==
  Widen(Computes(op, x % Half, v % Half, IntBits), IntBits, LongBits)

(***************************************************************************)
(* The CSRs. fcsr and vcsr are made of two narrow registers each, which    *)
(* the ISA also shows as CSRs of their own; bits behind a CSR's last are   *)
(* ignored when written. The fields fcsr, vcsr and vstart hold the state,  *)
(* and a CSR should read as what they show.                                *)
(***************************************************************************)
FloatViews == {"fflags", "frm", "fcsr"}
VectorViews == {"vxsat", "vxrm", "vcsr"}
ReadOnlyCsr == {"vl", "vtype", "vlenb"}

Size(c) ==
  CASE c = "fflags" -> 32 [] c = "frm"  -> 8 [] c = "fcsr" -> 256
    [] c = "vxsat"  -> 2  [] c = "vxrm" -> 4 [] c = "vcsr" -> 8
    [] c = "vstart" -> VLMAX
    [] OTHER -> Base

\* The CSRs that are shown when fcsr and vcsr are f and v and the others own.
Views(f, v, own) ==
  [c \in KnownCsr |->
     CASE c = "fflags" -> f % 32
       [] c = "frm"    -> (f \div 32) % 8
       [] c = "fcsr"   -> f % 256
       [] c = "vxsat"  -> v % 2
       [] c = "vxrm"   -> (v \div 2) % 4
       [] c = "vcsr"   -> v % 8
       [] OTHER        -> own[c] % Size(c)]

Shown == Views(csr["fcsr"], csr["vcsr"], csr)

\* The CSRs are in a state of the ISA.
Coherent == csr = Shown

\* The new value of rd.
IsaRd ==
  LET h == insn.h IN
  CASE h \in DOMAIN ImmForm -> Computes(ImmForm[h], x, imm, LongBits)
    [] h \in DOMAIN WordForm -> WordComputes(WordForm[h], y)
    [] h \in DOMAIN WordImmForm -> WordComputes(WordImmForm[h], imm)
    [] h = "lui" -> imm
    [] h = "auipc" -> iaddr + imm
    [] h \in JumpOps -> iaddr + IsaLen
    [] h \in {"lb", "lh", "lw", "ld"} -> IsaLoads(LoadBytes(h))
    [] h \in {"lbu", "lhu", "lwu"} -> cpu_ld(x + imm, LoadBytes(h))
    [] h = "lr" \/ h \in AmoOps ->
         Widen(cpu_ld(x, insn.bytes), insn.bytes * ByteBits, LongBits)
    [] h = "sc" -> One(~reserved)
    [] h \in CsrOps -> Shown[insn.csr]
    [] OTHER -> Computes(h, x, y, LongBits)

\* A CSR instruction writes, but for set and clear of no bits.
IsaCsrWrites ==
  insn.h \in CsrOps /\ (insn.h \in {"csrrw", "csrrwi"} \/ insn.rs1 # 0)

IsaIllegal ==
  \/ insn.h \in CsrOps /\ insn.csr = "unknown"
  \/ IsaCsrWrites /\ insn.csr \in ReadOnlyCsr

\* An atomic access to an address that its width does not divide.
MisalignedAtomic == insn.h \in AtomicOps /\ x % insn.bytes # 0

IsaTraps == IsaIllegal \/ MisalignedAtomic

IsaException ==
  IF IsaIllegal THEN "illegal"
  ELSE IF MisalignedAtomic THEN "misaligned" ELSE "none"

IsaGpr ==
  IF insn.h \in BranchOps \cup StoreOps \/ insn.rd = 0 \/ IsaTraps THEN gpr
  ELSE [gpr EXCEPT ![insn.rd] = target_ulong(IsaRd)]

\* What a CSR instruction makes of the value old.
IsaWritten(old) ==
  LET source == CsrSource(insn.h) IN
  IF ~IsaCsrWrites THEN old
  ELSE CASE insn.h \in {"csrrw", "csrrwi"} -> source
         [] insn.h \in {"csrrs", "csrrsi"} -> Either(old, source, LongBits)
         [] OTHER -> OfBits([b \in 0 .. LongBits - 1 |->
                               IF BitOf(source, b) = 1 THEN 0
                               ELSE BitOf(old, b)], LongBits)

\* The CSRs after the write, all views of them.
IsaCsr ==
  LET c == insn.csr  f == csr["fcsr"]  v == csr["vcsr"]
      w == IsaWritten(csr[c])
  IN
  IF ~IsaCsrWrites \/ IsaIllegal THEN csr
  ELSE Views(CASE c = "fcsr"   -> w
               [] c = "fflags" -> (f \div 32) * 32 + (w % 32)
               [] c = "frm"    -> (w % 8) * 32 + (f % 32)
               [] OTHER        -> f,
             CASE c = "vcsr"   -> w
               [] c = "vxsat"  -> (v \div 2) * 2 + (w % 2)
               [] c = "vxrm"   -> (w % 4) * 2 + (v % 2)
               [] OTHER        -> v,
             [csr EXCEPT ![c] = w])

\* Where the hart goes on; a trap reports the instruction's own address.
IsaPc ==
  IF IsaTraps THEN iaddr
  ELSE CASE insn.h \in {"jal", "c_jal"} -> target_ulong(iaddr + imm)
         [] insn.h \in {"jalr", "c_jalr"} ->
              target_ulong(x + imm) - (target_ulong(x + imm) % 2)
         [] insn.h \in BranchOps ->
              target_ulong(iaddr + (IF IsaTaken THEN imm ELSE IsaLen))
         [] OTHER -> pc

\* mem' holds value in the bytes from address on, and is mem elsewhere.
IsaStores(address, bytes, value) ==
  \A k \in Bytes :
    LET n == k - Offset(address) IN
    IF n \in 0 .. bytes - 1
    THEN \A b \in 0 .. ByteBits - 1 :
           BitOf(mem'[k], b) = BitOf(value, n * ByteBits + b)
    ELSE mem'[k] = mem[k]

IsaMem ==
  IF MisalignedAtomic THEN mem' = mem
  ELSE CASE insn.h \in StoreOps ->
              IsaStores(x + imm, StoreBytes(insn.h), y)
         [] insn.h = "sc" /\ reserved -> IsaStores(x, insn.bytes, y)
         [] insn.h \in AmoOps ->
              IsaStores(x, insn.bytes,
                        Combines(AmoForm[insn.h], cpu_ld(x, insn.bytes),
                                 y, insn.bytes * ByteBits))
         [] OTHER -> mem' = mem

-----------------------------------------------------------------------------
(***************************************************************************)
(* Where the handlers differ from the ISA.                                 *)
(***************************************************************************)
\* A word result with its sign bit set is zero-extended.
WordZeroExtended ==
  /\ insn.h \in {"slliw", "srliw", "sllw", "srlw", "divuw", "remuw"}
  /\ at' = "ran"
  /\ insn.rd # 0 /\ 2 * gpr'[insn.rd] >= Half

\* The host's division faults and ends the emulator.
HostDivides == insn.h \in DivOps /\ Faults(insn.h)

\* The link replaces the base of the jump first.
LinkBeforeBase ==
  /\ insn.h \in {"jalr", "c_jalr"}
  /\ insn.rd # 0 /\ insn.rd = insn.rs1
  /\ target_ulong(x + imm) \div 2 # target_ulong(iaddr + IsaLen + imm) \div 2

\* x0 is a register like the others.
ZeroWritten == insn.rd = 0 /\ gpr'[0] # 0

\* A store-conditional without a reservation stores, and reports success.
StoresUnconditionally == insn.h = "sc" /\ ~reserved /\ ~MisalignedAtomic

\* A read-only CSR is written.
ReadOnlyWritten == IsaCsrWrites /\ insn.csr \in ReadOnlyCsr

\* An unknown CSR is reported at the pc the translator left in the slot.
IllegalElsewhere ==
  insn.h \in CsrOps /\ insn.csr = "unknown" /\ insn.pc # iaddr

\* A CSR is read whose field no longer is what fcsr and vcsr show.
StaleView ==
  /\ insn.h \in CsrOps /\ insn.csr \in KnownCsr
  /\ csr[insn.csr] # Shown[insn.csr]

\* fcsr, vcsr or one of their parts changes, and the rest of them does not.
ViewChanged == \E c \in FloatViews \cup VectorViews : csr'[c] # csr[c]

\* vstart takes a number that is no index.
VstartTooWide == csr'["vstart"] >= VLMAX

-----------------------------------------------------------------------------
(***************************************************************************)
(* Properties.                                                             *)
(***************************************************************************)
\* The state has its types: every result fits its register.
TypeOK ==
  /\ at \in {"ready", "ran", "killed"}
  /\ insn \in Insn
  /\ gpr \in [Gprs -> Long]
  /\ mem \in [Bytes -> 0 .. Byte - 1]
  /\ csr \in [KnownCsr -> Long]
  /\ pc \in Long
  /\ exception \in {"none", "illegal"}
  /\ iaddr \in Long
  /\ reserved \in BOOLEAN

(***************************************************************************)
(* The registers after an instruction are those of the ISA, except in the  *)
(* seven cases named here, and in these they are not.                      *)
(***************************************************************************)
ResultsStep ==
  at = "ready" =>
    (at' = "ran" /\ gpr' = IsaGpr <=>
       ~ \/ WordZeroExtended
         \/ HostDivides
         \/ ZeroWritten
         \/ StoresUnconditionally /\ insn.rd # 0
         \/ MisalignedAtomic /\ gpr' # gpr
         \/ ReadOnlyWritten /\ gpr' # gpr
         \/ StaleView /\ ~ReadOnlyWritten /\ insn.rd # 0)

ResultsAreTheIsas == [][ResultsStep]_vars

(***************************************************************************)
(* The pc and the exception after an instruction are those of the ISA,     *)
(* except for a jump through its own link register, an unknown CSR whose   *)
(* slot has another pc than the instruction's address, a write to a        *)
(* read-only CSR and a misaligned atomic access; in these they are not.    *)
(***************************************************************************)
ControlStep ==
  at = "ready" =>
    (pc' = IsaPc /\ exception' = IsaException
       <=> ~(\/ LinkBeforeBase \/ IllegalElsewhere
             \/ ReadOnlyWritten \/ MisalignedAtomic))

ControlLikeTheIsa == [][ControlStep]_vars

(***************************************************************************)
(* rmw_csr gives the CSR it names the bits the ISA gives it, whatever the  *)
(* CSRs hold. From CSRs in a state of the ISA, all ten are those of the    *)
(* ISA afterwards, except exactly when a part or the whole of fcsr or vcsr *)
(* changes, which rvvk keeps in fields of their own, when vstart takes     *)
(* more than it can hold, and when a read-only CSR changes.                *)
(***************************************************************************)
CsrStep ==
  at = "ready" =>
    /\ insn.h \in CsrOps /\ insn.csr \in KnownCsr /\ ~ReadOnlyWritten =>
         csr'[insn.csr] % Size(insn.csr)
           = IsaWritten(csr[insn.csr]) % Size(insn.csr)
    /\ Coherent =>
         (csr' = IsaCsr <=> ~(\/ ViewChanged \/ VstartTooWide
                              \/ ReadOnlyWritten /\ csr' # csr))

CsrsLikeTheIsa == [][CsrStep]_vars

(***************************************************************************)
(* The memory after an instruction is that of the ISA, for any width, any  *)
(* alignment of loads and stores and each atomic operation; the exceptions *)
(* are a store-conditional without a reservation and a misaligned atomic,  *)
(* when they change the cell.                                              *)
(***************************************************************************)
MemoryStep ==
  at = "ready" =>
    (IsaMem <=> ~(\/ StoresUnconditionally /\ mem' # mem
                  \/ MisalignedAtomic /\ mem' # mem))

MemoryLikeTheIsa == [][MemoryStep]_vars

(***************************************************************************)
(* The multiply-high instructions compute the upper half of the exact      *)
(* product of the numbers their registers stand for, whatever the carries  *)
(* between the half products: the product minus that half times the base   *)
(* is a number of one register.                                            *)
(***************************************************************************)
High(u, v) == (u * v) \div Base

MulHighStep ==
  at = "ready" /\ insn.rd # 0 =>
    /\ insn.h = "mulhu"  => gpr'[insn.rd] = High(x, y)
    /\ insn.h = "mulhsu" =>
         gpr'[insn.rd] = target_ulong(High(target_long(x), y))
    /\ insn.h = "mulh" =>
         gpr'[insn.rd] = target_ulong(High(target_long(x), target_long(y)))

MulHighIsExact == [][MulHighStep]_vars

(***************************************************************************)
(* Every instruction of the I, M and A extensions does what the ISA says.  *)
(***************************************************************************)
StandardIsa ==
  [][at = "ready" /\ insn.h \notin CsrOps =>
       /\ at' = "ran" /\ gpr' = IsaGpr /\ IsaMem
       /\ pc' = IsaPc /\ exception' = IsaException]_vars
==============================================================================
