-------------------------------- MODULE MCAlu --------------------------------
(***************************************************************************)
(* The instance of Alu for TLC: registers of eight bits, words of four,    *)
(* bytes of one. Every handler meets every alias of rd, and operands that  *)
(* carry, overflow, shift too far, divide by zero and divide MIN by -1.    *)
(***************************************************************************)
EXTENDS Alu

\* Around 0, 1, the word's and the register's sign bit and their ends.
Values == {0, 1, 2, 3, 5, 7, 8, 9, 15, 16, 17, 31, 85, 120, 127, 128, 129,
           136, 143, 170, 239, 240, 248, 254, 255}
Few == {0, 1, 7, 8, 16, 127, 128, 200, 255}
Immediates == -8 .. 7

\* The cell is at the end of the address space: addresses are sums that wrap.
MCCellAt == 248
Contents == {0, 36, 129, 165, 255}

(***************************************************************************)
(* A code is <<handler, rd, rs1, imm, gpr[1], gpr[2], memory and CSR,      *)
(* bytes, csr, reserved>>. rd = 0 only where the decoder lets it through.  *)
(* For CSR operations the last says that the CSRs are in a state of the    *)
(* ISA; if not, all ten hold the same number.                              *)
(***************************************************************************)
Code(hs, rds, rs1s, imms, as, bs, ms, ns, cs, rs) ==
  hs \X rds \X rs1s \X imms \X as \X bs \X ms \X ns \X cs \X rs
Simple(hs, rds, imms, as, bs) ==
  Code(hs, rds, {1}, imms, as, bs, {0}, {8}, {"fcsr"}, {FALSE})

\* Registers 1 from which imm reaches every place for n bytes in the cell.
Reaching(i, n) == {(MCCellAt + k - i) % 256 : k \in 0 .. 8 - n}

MCCodes ==
  Simple(AluOps \cup MulOps \cup DivOps \cup
         {"addw", "subw", "sllw", "srlw", "sraw"}, 1 .. 3, {0}, Values, Values)
  \cup
  Simple(ImmOps \cup {"addiw", "slliw", "srliw", "sraiw"},
         {1, 3}, Immediates, Values, {9})
  \cup
  Simple({"jal", "c_jal", "jalr", "c_jalr", "lui", "auipc"},
         {0, 1, 3}, Immediates, Values \cup {102, 103, 104}, {9})
  \cup
  Simple(BranchOps, {3}, {-8, 6}, Few, Few)
  \cup
  UNION {Code({h}, {1, 3}, {1}, {i}, Reaching(i, LoadBytes(h)), {9}, Contents,
              {8}, {"fcsr"}, {FALSE}) : h \in LoadOps, i \in {-3, 5}}
  \cup
  UNION {Code({h}, {3}, {1}, {i}, Reaching(i, StoreBytes(h)), Few, Contents,
              {8}, {"fcsr"}, {FALSE}) : h \in StoreOps, i \in {-3, 5}}
  \cup
  UNION {Code(AmoOps \cup {"lr", "sc"}, 0 .. 3, {1}, {0},
              Reaching(0, n), Few, Contents, {n}, {"fcsr"},
              BOOLEAN) : n \in {4, 8}}
  \cup
  Code(CsrOps, {0, 1, 3}, {0, 1}, {0}, Few, {9}, Few, {8},
       KnownCsr \cup {"unknown"}, BOOLEAN)

\* The CSRs made of n: as the ISA keeps them, or each of them n.
MCCsrs(n, coherent) ==
  LET all == [k \in KnownCsr |-> n] IN
  IF coherent THEN Views(n, n, all) ELSE all

MCStartOf(c) ==
  [insn |-> [h |-> c[1], rd |-> c[2], rs1 |-> c[3], rs2 |-> 2, imm |-> c[4],
             bytes |-> c[8], csr |-> c[9],
             pc |-> IF c[1] \in PcOps THEN 100 ELSE 0],
   gpr |-> [k \in Gprs |-> IF k \in {1, 2} THEN c[k + 4] ELSE 0],
   mem |-> [k \in Bytes |-> BitOf(c[7], k)],
   csr |-> MCCsrs(c[7], c[1] \notin CsrOps \/ c[10]),
   pc |-> 96, iaddr |-> 100,
   reserved |-> c[10]]
==============================================================================
