--------------------------------- MODULE Hart ---------------------------------
(***************************************************************************)
(* What the execution engine promises: a hart that executes the guest      *)
(* program one instruction at a time, in program order, with no code       *)
(* cache. The host may fail under it at any time (no memory, an unmapped   *)
(* address, a failed assertion).                                           *)
(***************************************************************************)
EXTENDS Integers

CONSTANTS Half, JumpTarget

VARIABLES
  text,    \* the loaded program: what every mapped halfword decodes to
  hpc,     \* address of the next instruction
  status   \* "running", "exited", "killed" or "crashed"

Init ==
  /\ hpc \in Half
  /\ status = "running"

\* The addresses the hart may go on at after the instruction at a.
Successors(a) ==
  CASE text[a].op \in {"seq", "wr0"} -> {a + text[a].len}
    [] text[a].op = "branch" -> {text[a].tgt, a + text[a].len}
    [] text[a].op = "jal" -> {text[a].tgt}
    [] text[a].op = "jalr" -> JumpTarget
    [] text[a].op = "ecall" -> {a + text[a].len}
    [] OTHER -> {}

Execute ==
  /\ status = "running"
  /\ hpc \in Half
  /\ hpc' \in Successors(hpc)
  /\ UNCHANGED <<text, status>>

\* A system call that does not return.
Exit ==
  /\ status = "running"
  /\ hpc \in Half
  /\ text[hpc].op = "ecall"
  /\ status' = "exited"
  /\ UNCHANGED <<text, hpc>>

\* An illegal instruction ends the guest.
Kill ==
  /\ status = "running"
  /\ hpc \in Half
  /\ text[hpc].op \in {"illegal", "csr_bad"}
  /\ status' = "killed"
  /\ UNCHANGED <<text, hpc>>

\* What hpc is after a host failure is of no interest.
HostFails ==
  /\ status = "running"
  /\ status' = "crashed"
  /\ UNCHANGED text

Next == Execute \/ Exit \/ Kill \/ HostFails

Spec == Init /\ [][Next]_<<text, hpc, status>>

=============================================================================
