-------------------------------- MODULE Startup --------------------------------
(***************************************************************************)
(* main of rvvk up to cpu_loop: parse_options, get_real_path, open,        *)
(* elf_load with create_elf_tables, and the registers the guest starts     *)
(* with. The parts are modules of their own; this one runs them in main's  *)
(* order and hands each what the one before it found.                      *)
(***************************************************************************)
EXTENDS CmdLine, RealPath, ElfImage, StackInit

CONSTANTS
  PathOf,      \* the path a string is
  Scenarios    \* what rvvk may be started with

\* The command line, the environment, the working directory, what the stack
\* of main holds, and the file of the program.
Scenario ==
  [args : Seq(Strings), env : Seq(Strings), dir : Directory,
   stale : [0 .. PATH_MAX - 1 -> Bytes], image : Images]

\* strtoul's unsigned long is as wide as a target_ulong.
ASSUME ScenariosAssumption ==
  /\ Scenarios \subseteq Scenario
  /\ DefaultStackSize < LongMod
  /\ \A s \in Strings : Strtoul[s] < LongMod
  /\ PathOf \in [Strings -> Path]

VARIABLE
  hart   \* the pc and stack pointer of the guest, once it has them

vars == <<cmdVars, pathVars, imgVars, tabVars, hart>>

NoHart == [pc |-> 0, sp |-> 0]

Init ==
  \E s \in Scenarios :
    /\ CmdInit(s.args, s.env)
    /\ PathInit(s.dir, s.stale)
    /\ ImgInit(s.image)
    /\ TabInit
    /\ hart = NoHart

ParseStep ==
  /\ ParseOptions
  /\ UNCHANGED <<pathVars, imgVars, tabVars, hart>>

PathStep ==
  /\ \/ parse = "done" /\ ResolvePath(PathOf[vec[prog_argv]])
     \/ GetRealPath
  /\ UNCHANGED <<cmdVars, imgVars, tabVars, hart>>

\* open, and elf_load with its loop; a failed open ends like a failed load.
LoadStep ==
  /\ resolve = "done"
  /\ ElfLoad
  /\ UNCHANGED <<cmdVars, pathVars, tabVars, hart>>

-----------------------------------------------------------------------------
\* A string as create_elf_tables copies it.
String(s) == [text |-> <<s>>, len |-> StrLen[s]]
Filename == [text |-> RealText, len |-> Len(RealText)]

Strs(strings) == [j \in 1 .. Len(strings) |-> String(strings[j])]

\* bprm->argv, with the file name for its first string, and bprm->envp.
BprmArgv == <<Filename>> \o Tail(Strs(StringsFrom(prog_argv)))
BprmEnvp == Strs(StringsFrom(prog_envp))

StackStep ==
  /\ load = "done"
  /\ \/ MapStack(BprmArgv, BprmEnvp, guest_stack_size)
     \/ MapStackFails
     \/ CreateElfTables
  /\ UNCHANGED <<cmdVars, pathVars, imgVars, hart>>

\* init_thread and target_cpu_copy_regs: cpu_loop starts from them.
StartHart ==
  /\ tables = "done"
  /\ hart = NoHart
  /\ hart' = [pc |-> image.entry, sp |-> top]
  /\ UNCHANGED <<cmdVars, pathVars, imgVars, tabVars>>

Running == hart # NoHart
Ended ==
  \/ parse \in {"error", "exit", "killed", "overrun"}
  \/ resolve \in {"error", "overrun"}
  \/ load \in {"failed", "killed"}
  \/ tables \in {"failed", "killed"}

\* The process has ended, or the guest runs.
Started == (Running \/ Ended) /\ UNCHANGED vars

Step == ParseStep \/ PathStep \/ LoadStep \/ StackStep \/ StartHart

Next == Step \/ Started

\* main is one sequential program: it does not stop between two steps.
Spec == Init /\ [][Next]_vars /\ WF_vars(Step)

StartupTypeOK ==
  CmdTypeOK /\ PathTypeOK /\ ImgTypeOK /\ TabTypeOK /\ hart.sp \in Int

-----------------------------------------------------------------------------
(***************************************************************************)
(* What the guest reads at its stack pointer.                              *)
(***************************************************************************)
Byte(a) == IF a \in DOMAIN mem THEN mem[a] ELSE <<"word", 0, 0>>

\* A word that was written, or zeroes that nothing has written.
WordIs(a, w) ==
  \/ \A b \in 0 .. Word - 1 : a + b \in DOMAIN mem /\ Byte(a + b) = <<"word", w, b>>
  \/ w = 0 /\ Span(a, Word) \cap DOMAIN mem = {} /\ Span(a, Word) \subseteq StackBytes

StringIs(p, s) ==
  \A b \in 0 .. s.len :
    p + b \in DOMAIN mem /\ mem[p + b][1] = "string"
    /\ mem[p + b] = <<"string", s, b>>

\* An array of pointers to the strings, and its NULL.
ArrayIs(a, strings) ==
  /\ \A j \in 1 .. Len(strings) :
       \E p \in DOMAIN mem :
         WordIs(a + (j - 1) * Word, p) /\ StringIs(p, strings[j])
  /\ WordIs(a + Len(strings) * Word, 0)

\* The command line's grammar: flags, options with their argument, then the
\* program. AreOptions(args)[n]: the first n strings are whole options.
Flags == {"-d", "--debug"}
Takers == {"-B", "--address", "-s", "--stack"}
AreOptions(args) ==
  LET whole[n \in 0 .. Len(args)] ==
        \/ n = 0
        \/ n >= 1 /\ args[n] \in Flags /\ whole[n - 1]
        \/ n >= 2 /\ args[n - 1] \in Takers /\ whole[n - 2]
  IN  whole

\* The strings before the first NULL, and those between it and the last one.
Args == StringsFrom(1)
Env == SubSeq(vec, Len(Args) + 2, Len(vec) - 1)
IsProgram(j) == AreOptions(Args)[j - 1] /\ Args[j] \notin Dashed

(***************************************************************************)
(* From main's arguments to the guest's: the guest finds at its stack      *)
(* pointer, inside its stack, the number of strings from the program on,   *)
(* pointers to them with the resolved path for the first, pointers to the  *)
(* whole environment, and an AT_NULL; and its program counter is the       *)
(* entry. The options and their arguments are none of the guest's.         *)
(***************************************************************************)
GuestSeesCommandLine ==
  Running /\ stack_size + Guard < LongMod =>
    \E j \in 1 .. Len(Args) :
      /\ IsProgram(j)
      /\ LET strings == <<Filename>> \o Strs(SubSeq(Args, j + 1, Len(Args)))
             argc == Len(strings)
             argv == hart.sp + Word
             envp == argv + (argc + 1) * Word
             auxv == envp + (Len(Env) + 1) * Word
         IN  /\ WordIs(hart.sp, argc)
             /\ ArrayIs(argv, strings)
             /\ ArrayIs(envp, Strs(Env))
             /\ WordIs(auxv, 0) /\ WordIs(auxv + Word, 0)
      /\ hart.pc = image.entry

(***************************************************************************)
(* -s has the last word: the stack the guest gets has the size its last    *)
(* occurrence among the options asks for, and strings behind the program   *)
(* that look like options change nothing.                                  *)
(***************************************************************************)
StackAsAsked ==
  Running =>
    LET program == CHOOSE j \in 1 .. Len(Args) : IsProgram(j)
        sizes == {j \in 2 .. program - 1 :
                    Args[j - 1] \in {"-s", "--stack"} /\ AreOptions(Args)[j - 2]}
    IN  stack_size = IF sizes = {} THEN DefaultStackSize
                     ELSE Strtoul[Args[Greatest(sizes)]]

(***************************************************************************)
(* Whatever the command line, the environment and the file hold, main ends *)
(* or starts the guest: no loop of it runs on.                             *)
(***************************************************************************)
StartupEnds == <>(Running \/ Ended)

=============================================================================
