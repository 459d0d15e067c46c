------------------------------ MODULE MCCpuExec ------------------------------
(***************************************************************************)
(* Instances of CpuExec for TLC. The guest has four halfwords an           *)
(* instruction can start at, 0, 2, 4 and 6, and one more, 8, that is only  *)
(* the second half of an instruction. A run checks every program that has  *)
(* one of a small set of instructions at each of the four.                 *)
(***************************************************************************)
EXTENDS CpuExec

MCAddr == 0 .. 12
MCHalf == {0, 2, 4, 6, 8}
MCJumpTarget == {0, 4}
MCBucket == {0, 1}

\* Three of the four addresses collide: chains of three blocks.
MCfibhash == [a \in MCAddr |-> IF a = 2 THEN 1 ELSE 0]

I2(op) == [op |-> op, len |-> 2, tgt |-> 0]
I4(op) == [op |-> op, len |-> 4, tgt |-> 0]
To(op, t) == [op |-> op, len |-> 2, tgt |-> t]

\* The programs with an instruction of A at 0, of B at 2, of C at 4 and of D
\* at 6; 8 is never reached as the start of an instruction of a block that
\* is translated to its end.
Family(A, B, C, D) ==
  {[a \in MCHalf |-> CASE a = 0 -> w [] a = 2 -> x [] a = 4 -> y
                       [] a = 6 -> z [] OTHER -> I2("illegal")] :
     w \in A, x \in B, y \in C, z \in D}

\* All kinds of instructions, blocks cut by TRANS_MAX and illegal CSRs.
CachePrograms ==
  Family({I2("seq"), I4("csr_bad"), To("branch", 4), To("jal", 6)},
         {I4("seq"), I2("wr0"), I4("ecall"), To("branch", 0), I4("jalr")},
         {I2("seq"), I2("illegal"), To("branch", 0), To("branch", 6)},
         {To("jal", 0), To("branch", 2), I2("jalr"), I2("illegal")})

\* No illegal CSR and no straight line as long as TRANS_MAX.
HartPrograms ==
  Family({I2("seq"), I4("ecall"), To("branch", 4), To("jal", 6)},
         {I4("seq"), I2("wr0"), I4("ecall"), To("branch", 0), I4("jalr")},
         {I2("seq"), I2("illegal"), To("branch", 0), To("branch", 6)},
         {To("jal", 0), To("branch", 2), I2("jalr"), I2("illegal")})

\* They are programs the refinement is proved for, at the size they run with.
ASSUME HartProgramsAssumption ==
  TRANS_MAX = 5 => \A p \in HartPrograms : Servable(p)

\* lui x0, 1 in front of a system call.
Wr0Programs == Family({I4("wr0")}, {I2("seq")}, {I4("ecall")}, {I2("seq")})

\* A loop with a straight line of TRANS_MAX instructions.
LongPrograms == Family({I2("seq")}, {I2("seq")}, {I2("seq")}, {To("jal", 0)})

\* An access to an unknown CSR in front of a system call.
CsrPrograms ==
  Family({I4("csr_bad")}, {I2("seq")}, {I4("ecall")}, {I2("seq")})

=============================================================================
