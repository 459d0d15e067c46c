------------------------------ MODULE MCDecode -------------------------------
(***************************************************************************)
(* The words of the runs: every 16-bit instruction, and 32-bit words that  *)
(* combine opcodes, funct3, funct7 and register fields.                    *)
(***************************************************************************)
EXTENDS Decode

BitOf(n, b) == (n \div 2 ^ b) % 2

\* The halfword behind a compressed instruction belongs to the next one.
Word16(n) == [b \in 0 .. 31 |-> IF b < 16 THEN BitOf(n, b) ELSE 1]

Word32(opcode, rd, f3, rs1, rs2, f7) ==
  [b \in 0 .. 31 |->
     CASE b < 7  -> BitOf(opcode, b)
       [] b < 12 -> BitOf(rd, b - 7)
       [] b < 15 -> BitOf(f3, b - 12)
       [] b < 20 -> BitOf(rs1, b - 15)
       [] b < 25 -> BitOf(rs2, b - 20)
       [] OTHER  -> BitOf(f7, b - 25)]

\* The opcodes decode_insn32 has a case for, and four it has not.
Opcodes == {3, 15, 19, 23, 27, 35, 47, 51, 55, 59, 99, 103, 111, 115,
            7, 43, 67, 127}

Funct7s == {0, 1, 2, 4, 9, 16, 24, 32, 33, 40, 64, 97, 112, 127}

\* A 16-bit word by its number, a 32-bit word by its fields.
MCCodes ==
  {<<n>> : n \in {k \in 0 .. 65535 : k % 4 # 3}} \cup
  Opcodes \X {0, 22} \X (0 .. 7) \X {0, 13} \X {0, 1, 26} \X Funct7s

MCWordOf(c) ==
  IF Len(c) = 1 THEN Word16(c[1])
  ELSE Word32(c[1], c[2], c[3], c[4], c[5], c[6])

MCPcs == {4194304}
MCBases == {0, 65537}
==============================================================================
