-------------------------------- MODULE CmdLine --------------------------------
(***************************************************************************)
(* parse_options of util.c: the options of rvvk, the program to run, its   *)
(* arguments and the environment, found with one cursor in the vector the  *)
(* operating system left behind main's argv[0]: the arguments, a NULL, the *)
(* environment, a NULL.                                                    *)
(*                                                                         *)
(* A string of the vector is a TLA+ string that stands for itself. What    *)
(* parse_options asks of it is given: whether it starts with '-', how long *)
(* it is, and what strtoul makes of it. The wording of messages, and what  *)
(* the options -d and -B set, are left out: nothing modelled here reads    *)
(* them.                                                                   *)
(***************************************************************************)
EXTENDS Integers, Sequences

CONSTANTS
  NULL,               \* the end of a vector
  Strings,            \* the strings of the vectors
  Dashed,             \* those that start with '-'
  Strtoul,            \* strtoul(arg, NULL, 0)
  StrLen,             \* strlen of the strings
  OptionRoom,         \* the longest that fits strdupf's buffer with its message
  DefaultStackSize    \* 8 MiB

ASSUME StringsAssumption ==
  /\ NULL \notin Strings
  /\ Strtoul \in [Strings -> Nat]
  /\ StrLen \in [Strings -> Nat]
  /\ OptionRoom \in Nat
  /\ DefaultStackSize \in Nat

VARIABLES
  vec,                \* the vector, from &argv[1]
  parse,              \* how far parse_options is, or how it ended
  opts,               \* the cursor
  prog_argv,          \* where it found the program
  prog_envp,          \* and the environment
  guest_stack_size

cmdVars == <<vec, parse, opts, prog_argv, prog_envp, guest_stack_size>>

Parsing == {"options", "done", "error", "exit", "killed", "overrun"}

Option(name, alias, arg, handler) ==
  [names |-> {name, alias}, need_arg |-> arg, handle_opt |-> handler]

opt_table ==
  {Option("--help", "-h", FALSE, "help"),
   Option("--address", "-B", TRUE, "guest_base"),
   Option("--stack", "-s", TRUE, "guest_stack"),
   Option("--debug", "-d", FALSE, "debug")}

\* The names in the table start with '-'.
ASSUME NamesAssumption ==
  \A o \in opt_table : o.names \cap Strings \subseteq Dashed

find_option(name) == {o \in opt_table : name \in o.names}

\* The vector the operating system makes of arguments and environment.
Vector(args, env) == args \o <<NULL>> \o env \o <<NULL>>

\* The first NULL at or behind i.
NextNull(i) ==
  CHOOSE j \in i .. Len(vec) :
    vec[j] = NULL /\ \A h \in i .. j - 1 : vec[h] # NULL

\* The strings from i to the next NULL: what count() counts.
StringsFrom(i) == SubSeq(vec, i, NextNull(i) - 1)

CmdInit(args, env) ==
  /\ vec = Vector(args, env)
  /\ parse = "options"
  /\ opts = 1
  /\ prog_argv = 0
  /\ prog_envp = 0
  /\ guest_stack_size = DefaultStackSize

\* The loop has come to an option of the table.
AtOption(o) ==
  /\ parse = "options"
  /\ vec[opts] # NULL
  /\ vec[opts] \in Dashed
  /\ o \in find_option(vec[opts])

\* What strtoul is given.
Argument(o) == IF o.need_arg THEN vec[opts + 1] ELSE NULL

\* Mutant of PastOption: only arguments are skipped.
PastOptionStay(o) == IF o.need_arg THEN opts + 2 ELSE opts
PastOption(o) == IF o.need_arg THEN opts + 2 ELSE opts + 1

\* Mutant of NewStackSize: the first -s wins.
NewStackSizeFirst(o) ==
  IF o.handle_opt = "guest_stack" /\ guest_stack_size = DefaultStackSize
  THEN Strtoul[Argument(o)] ELSE guest_stack_size

NewStackSize(o) ==
  IF o.handle_opt = "guest_stack" THEN Strtoul[Argument(o)] ELSE guest_stack_size

\* print_usage and exit(0), in the middle of the vector.
HandleHelp(o) ==
  /\ AtOption(o)
  /\ o.handle_opt = "help"
  /\ parse' = "exit"
  /\ UNCHANGED <<vec, opts, prog_argv, prog_envp, guest_stack_size>>

\* The last string of the vector needs an argument: strtoul reads NULL.
HandleNothing(o) ==
  /\ AtOption(o)
  /\ o.need_arg /\ Argument(o) = NULL
  /\ parse' = "killed"
  /\ UNCHANGED <<vec, opts, prog_argv, prog_envp, guest_stack_size>>

HandleOption(o) ==
  /\ AtOption(o)
  /\ o.handle_opt # "help"
  /\ o.need_arg => Argument(o) # NULL
  /\ guest_stack_size' = NewStackSize(o)
  /\ opts' = PastOption(o)
  /\ UNCHANGED <<vec, parse, prog_argv, prog_envp>>

\* The option's name goes into the message without a look at its length: it is
\* reported, or strdupf writes past its 256 bytes, which is undefined.
InvalidOption ==
  /\ parse = "options"
  /\ vec[opts] # NULL
  /\ vec[opts] \in Dashed
  /\ find_option(vec[opts]) = {}
  /\ parse' = IF StrLen[vec[opts]] <= OptionRoom THEN "error" ELSE "overrun"
  /\ UNCHANGED <<vec, opts, prog_argv, prog_envp, guest_stack_size>>

NoProgram ==
  /\ parse = "options"
  /\ vec[opts] = NULL
  /\ parse' = "error"
  /\ UNCHANGED <<vec, opts, prog_argv, prog_envp, guest_stack_size>>

\* Mutant of EnvpFrom: one string too far.
EnvpFromNext(i) == NextNull(i + 1) + 2

\* Behind the NULL that ends the arguments.
EnvpFrom(i) == NextNull(i + 1) + 1

FoundProgram ==
  /\ parse = "options"
  /\ vec[opts] # NULL
  /\ vec[opts] \notin Dashed
  /\ parse' = "done"
  /\ prog_argv' = opts
  /\ prog_envp' = EnvpFrom(opts)
  /\ opts' = EnvpFrom(opts)
  /\ UNCHANGED <<vec, guest_stack_size>>

ParseOptions ==
  \/ \E o \in opt_table : HandleHelp(o) \/ HandleNothing(o) \/ HandleOption(o)
  \/ InvalidOption \/ NoProgram \/ FoundProgram

CmdTypeOK ==
  /\ parse \in Parsing
  /\ opts \in 1 .. Len(vec)
  /\ prog_argv \in 0 .. Len(vec)
  /\ prog_envp \in 0 .. Len(vec)
  /\ guest_stack_size \in Nat

=============================================================================
