----------------------------- MODULE StartupProofs -----------------------------
(***************************************************************************)
(* Proofs about the start of the guest, for every command line,            *)
(* environment, working directory, content of prog_real_path and file:     *)
(* create_elf_tables writes inside the stack, and no more pointers than it *)
(* has allocated; what it leaves at the stack pointer is what main was     *)
(* given from the program on; the stack has the size the options ask for;  *)
(* the path is resolved to the names it means in the working directory,    *)
(* when the bytes left in prog_real_path hold no slash; and the image holds*)
(* the file's bytes, with the heap behind them. What is said of the image  *)
(* has premises the loader does not check: Sized, no segment is longer in  *)
(* the file than in memory, and Whole, the file is as long as its headers  *)
(* say.                                                                    *)
(***************************************************************************)
EXTENDS Startup, Induction, SequenceTheorems, TLAPS

-----------------------------------------------------------------------------
(***************************************************************************)
(* The inductive invariant, one part for each part of the program.         *)
(***************************************************************************)

\* The first NULL ends the arguments, the only other one the environment.
IsVector(m) ==
  /\ vec \in Seq(Strings \cup {NULL})
  /\ m \in 1 .. Len(vec) - 1
  /\ \A h \in 1 .. Len(vec) : vec[h] = NULL <=> h \in {m, Len(vec)}

CmdInv(m) ==
  /\ IsVector(m)
  /\ parse \in Parsing
  /\ opts \in 1 .. Len(vec)
  /\ prog_argv \in 0 .. Len(vec)
  /\ prog_envp \in 0 .. Len(vec)
  /\ guest_stack_size \in Nat /\ guest_stack_size < LongMod
  /\ parse = "options" => opts <= m
  /\ parse = "done" => prog_argv \in 1 .. m - 1 /\ prog_envp \in m + 1 .. Len(vec)

PathInv ==
  /\ path \in Path
  /\ cwd \in Directory
  /\ resolve \in Resolving
  /\ real \in [0 .. PATH_MAX - 1 -> Bytes]
  /\ rp2 \in 0 .. PATH_MAX
  /\ walked \in 0 .. Len(path.names)
  /\ resolve \in {"idle", "start"} => walked = 0
  /\ resolve # "idle" => parse = "done"
  /\ resolve \in {"walk", "done"} => real[0] = Slash
  /\ resolve = "done" => Terminated

ImgInv ==
  /\ image \in Images
  /\ load \in Loading
  /\ nseg \in 0 .. Len(Phdrs)
  /\ DOMAIN byte = DOMAIN prot
  /\ load # "idle" => resolve = "done"

\* The strings still to be written are strings, and each of those written, and
\* each NULL, is one pointer.
Counted ==
  /\ tables = "env" => left <= Len(envS) /\ Len(ptrs) = 1 + Len(envS) - left
  /\ tables = "argv" =>
       left <= Len(argvS) /\ Len(ptrs) = 2 + Len(envS) + Len(argvS) - left
  /\ tables = "ptrs" => left <= Len(ptrs)
  /\ tables \in {"ptrs", "done"} => Len(ptrs) = PtrsCapacity
  /\ tables = "killed" => Len(ptrs) <= PtrsCapacity

\* The top is in the stack, or so little below it that what is written next
\* is in the guard.
Placed ==
  stack_size + Guard < LongMod =>
    /\ tables \in {"env", "argv"} =>
         /\ stack_limit - Word <= top
         /\ top <= stack_limit + stack_size - Word
    /\ tables \in {"ptrs", "done"} =>
         /\ stack_limit - 5 * Word < top
         /\ top <= stack_limit + stack_size
    /\ DOMAIN mem \subseteq StackBytes

\* When the size overflows with the guard, the guard is all that is mapped: the
\* top is in it until the first string, or was below it from the start.
Wrapped ==
  LongMod <= stack_size + Guard =>
    /\ DOMAIN mem # {} => MappedLen(stack_size) <= Word
    /\ \A a \in DOMAIN mem : a < StackAt
    /\ tables \in {"env", "argv", "ptrs"} /\ MappedLen(stack_size) <= Word =>
         top <= StackAt
    /\ tables \in {"env", "argv"} /\ MappedLen(stack_size) > Word =>
         StackAt < top /\ top <= stack_limit
    /\ tables = "argv" /\ MappedLen(stack_size) > Word => left > 0
    /\ tables = "ptrs" => MappedLen(stack_size) <= Word

TabInv ==
  /\ tables \in Writing
  /\ stack_size \in Nat
  /\ left \in Nat
  /\ top \in Int
  /\ Len(envS) \in Nat /\ Len(argvS) \in Nat
  /\ \A j \in 1 .. Len(envS) : envS[j].len \in Nat
  /\ \A j \in 1 .. Len(argvS) : argvS[j].len \in Nat
  /\ \E T : ptrs \in Seq(T)
  /\ tables \in {"idle", "failed"} => DOMAIN mem = {}
  /\ tables # "idle" => load = "done"
  /\ tables = "env" => Len(argvS) > 0
  /\ Counted
  /\ Placed
  /\ Wrapped

StartupInv ==
  /\ \E m : CmdInv(m)
  /\ PathInv
  /\ ImgInv
  /\ TabInv
  /\ hart.sp \in Int

-----------------------------------------------------------------------------
(***************************************************************************)
(* Lemmas about the vector, the buffer and the strings.                    *)
(***************************************************************************)

\* The vector main starts with.
LEMMA VectorIs ==
  ASSUME NEW args \in Seq(Strings), NEW env \in Seq(Strings),
         vec = Vector(args, env)
  PROVE  IsVector(Len(args) + 1)
<1> DEFINE U == Strings \cup {NULL}
<1>1. /\ NULL \notin Strings
      /\ args \in Seq(U) /\ env \in Seq(U)
      /\ <<NULL>> \in Seq(U) /\ Len(<<NULL>>) = 1 /\ <<NULL>>[1] = NULL
      /\ \A i \in 1 .. Len(args) : args[i] \in Strings
      /\ \A i \in 1 .. Len(env) : env[i] \in Strings
  BY StringsAssumption
<1> HIDE DEF U
<1>2. PICK v1 \in Seq(U) : v1 = args \o <<NULL>>
  BY <1>1, ConcatProperties
<1>3. /\ Len(v1) = Len(args) + 1
      /\ \A i \in 1 .. Len(args) : v1[i] = args[i]
      /\ v1[Len(args) + 1] = NULL
  BY <1>1, <1>2
<1>4. PICK v2 \in Seq(U) : v2 = v1 \o env
  BY <1>1, ConcatProperties
<1>5. /\ Len(v2) = Len(v1) + Len(env)
      /\ \A i \in 1 .. Len(v1) : v2[i] = v1[i]
      /\ \A i \in Len(v1) + 1 .. Len(v2) : v2[i] = env[i - Len(v1)]
  BY <1>1, <1>4
<1>6. vec = v2 \o <<NULL>>
  BY <1>2, <1>4 DEF Vector
<1>7. vec \in Seq(U)
  BY <1>1, <1>6, ConcatProperties
<1>8. /\ Len(vec) = Len(v2) + 1
      /\ \A i \in 1 .. Len(v2) : vec[i] = v2[i]
      /\ vec[Len(v2) + 1] = NULL
  BY <1>1, <1>6
<1>9. Len(args) \in Nat /\ Len(env) \in Nat
  OBVIOUS
<1>10. ASSUME NEW h \in 1 .. Len(vec)
       PROVE  vec[h] = NULL <=> h \in {Len(args) + 1, Len(vec)}
  <2>1. CASE h <= Len(args)
    BY <2>1, <1>1, <1>3, <1>5, <1>8, <1>9
  <2>2. CASE h = Len(args) + 1
    BY SMTT(30), <2>2, <1>3, <1>5, <1>8, <1>9
  <2>3. CASE h > Len(args) + 1 /\ h <= Len(v2)
    <3>1. h - Len(v1) \in 1 .. Len(env) /\ vec[h] = env[h - Len(v1)]
      BY <2>3, <1>3, <1>5, <1>8, <1>9
    <3> QED BY <3>1, <2>3, <1>1, <1>8, <1>9
  <2>4. CASE h = Len(v2) + 1
    BY <2>4, <1>8, <1>9
  <2>5. /\ Len(vec) = Len(v2) + 1 /\ Len(v2) = Len(v1) + Len(env)
        /\ Len(v1) = Len(args) + 1
        /\ Len(v1) \in Int /\ Len(v2) \in Int
        /\ h \in Int /\ h <= Len(v2) + 1
    BY <1>3, <1>5, <1>8, <1>9
  <2>6. CASE h <= Len(v2) /\ ~(h <= Len(args)) /\ h # Len(args) + 1
    BY <2>3, <2>5, <2>6, <1>9
  <2>7. CASE ~(h <= Len(v2))
    <3>1. h = Len(v2) + 1
      BY SMTT(30), <2>5, <2>7
    <3> QED BY <2>4, <3>1
  <2> QED BY <2>1, <2>2, <2>6, <2>7
<1> QED BY <1>3, <1>5, <1>7, <1>8, <1>9, <1>10 DEF IsVector, U

\* NextNull finds the two NULLs of the vector.
LEMMA NextNullIs ==
  ASSUME NEW m, IsVector(m), NEW i \in 1 .. Len(vec)
  PROVE  NextNull(i) = IF i <= m THEN m ELSE Len(vec)
<1> DEFINE P(j) == vec[j] = NULL /\ \A h \in i .. j - 1 : vec[h] # NULL
           n == IF i <= m THEN m ELSE Len(vec)
<1>0. Len(vec) \in Nat /\ m \in 1 .. Len(vec) - 1
  BY DEF IsVector
<1>1. \A h \in 1 .. Len(vec) : vec[h] = NULL <=> h \in {m, Len(vec)}
  BY DEF IsVector
<1>2. n \in i .. Len(vec) /\ P(n)
  BY <1>0, <1>1
<1>3. \A j \in i .. Len(vec) : P(j) => j = n
  <2> SUFFICES ASSUME NEW j \in i .. Len(vec), P(j) PROVE j = n
    OBVIOUS
  <2>1. j \in {m, Len(vec)}
    BY <1>0, <1>1
  <2>2. ~(j < n)
    BY <1>0, <1>1, <1>2, <2>1
  <2>3. ~(n < j)
    BY <1>0, <1>2
  <2> QED BY <1>0, <2>2, <2>3
<1> QED BY <1>2, <1>3 DEF NextNull

\* A terminated buffer starts with a string.
LEMMA StringInBuffer ==
  ASSUME PATH_MAX \in Nat, Terminated
  PROVE  /\ StrLen0 \in 0 .. PATH_MAX - 1 /\ real[StrLen0] = NUL
         /\ \A h \in 0 .. StrLen0 - 1 : real[h] # NUL
<1> DEFINE S == {j \in 0 .. PATH_MAX - 1 : real[j] = NUL}
<1>1. S \subseteq Nat /\ S # {}
  BY DEF Terminated
<1>2. PICK x \in S : \A y \in S : x <= y
  BY <1>1, LeastElement
<1>3. x \in 0 .. PATH_MAX - 1 /\ real[x] = NUL /\ \A h \in 0 .. x - 1 : real[h] # NUL
  BY <1>2
<1> QED BY <1>3 DEF StrLen0

\* strrchr finds the last slash of a string that has one.
LEMMA LastSlashIs ==
  ASSUME PATH_MAX \in Nat, Terminated, real[0] = Slash
  PROVE  /\ LastSlash \in 0 .. StrLen0 - 1 /\ real[LastSlash] = Slash
         /\ \A h \in LastSlash + 1 .. StrLen0 - 1 : real[h] # Slash
<1> DEFINE S == {n \in 0 .. StrLen0 - 1 : real[StrLen0 - 1 - n] = Slash}
<1>1. StrLen0 \in 0 .. PATH_MAX - 1 /\ real[StrLen0] = NUL
  BY StringInBuffer
<1>2. StrLen0 # 0
  BY <1>1 DEF Slash, NUL
<1>3. StrLen0 - 1 \in S
  BY <1>1, <1>2
<1>4. S # {} /\ S \subseteq Nat
  <2>1. S \subseteq 0 .. StrLen0 - 1 /\ 0 .. StrLen0 - 1 \subseteq Nat
    BY <1>1
  <2> QED BY <1>3, <2>1
<1>5. PICK x \in S : \A y \in S : x <= y
  BY <1>4, LeastElement
<1> DEFINE j == StrLen0 - 1 - x
<1>6. j \in 0 .. StrLen0 - 1 /\ real[j] = Slash
  BY <1>1, <1>5
<1>7. ASSUME NEW h \in j + 1 .. StrLen0 - 1
      PROVE  real[h] # Slash
  <2>1. StrLen0 - 1 - h \in 0 .. StrLen0 - 1 /\ StrLen0 - 1 - h < x
    BY <1>1, <1>5
  <2>2. StrLen0 - 1 - h \notin S
    BY <1>1, <1>5, <2>1
  <2>3. StrLen0 - 1 - (StrLen0 - 1 - h) = h
    BY <1>1
  <2> QED BY <2>1, <2>2, <2>3
<1>8. \E l \in 0 .. StrLen0 - 1 :
        real[l] = Slash /\ \A h \in l + 1 .. StrLen0 - 1 : real[h] # Slash
  BY <1>6, <1>7
<1> QED BY <1>8 DEF LastSlash

\* A text written to the buffer leaves bytes in it.
LEMMA WrittenTyped ==
  ASSUME PATH_MAX \in Nat, real \in [0 .. PATH_MAX - 1 -> Bytes],
         NEW i \in Nat, NEW text \in Seq(Bytes)
  PROVE  Written(i, text) \in [0 .. PATH_MAX - 1 -> Bytes]
<1>1. ASSUME NEW j \in 0 .. PATH_MAX - 1, j \in i .. i + Len(text) - 1
      PROVE  text[j - i + 1] \in Bytes
  <2>1. j - i + 1 \in 1 .. Len(text)
    BY <1>1
  <2> QED BY <2>1
<1> QED BY <1>1 DEF Written

-----------------------------------------------------------------------------
(***************************************************************************)
(* The initial states.                                                     *)
(***************************************************************************)
LEMMA InitInv == Init => StartupInv
<1> SUFFICES ASSUME NEW s \in Scenarios,
                    CmdInit(s.args, s.env), PathInit(s.dir, s.stale),
                    ImgInit(s.image), TabInit, hart = NoHart
             PROVE  StartupInv
  BY DEF Init
<1>1. s \in Scenario
  BY ScenariosAssumption
<1>2. \E m : CmdInv(m)
  <2>1. s.args \in Seq(Strings) /\ s.env \in Seq(Strings)
    BY <1>1 DEF Scenario
  <2>2. vec = Vector(s.args, s.env)
    BY DEF CmdInit
  <2>3. IsVector(Len(s.args) + 1)
    BY <2>1, <2>2, VectorIs
  <2>4. /\ parse = "options" /\ opts = 1 /\ prog_argv = 0 /\ prog_envp = 0
        /\ guest_stack_size \in Nat /\ guest_stack_size < LongMod
    BY StringsAssumption, ScenariosAssumption DEF CmdInit
  <2> QED BY <2>3, <2>4 DEF CmdInv, IsVector, Parsing
<1>3. PathInv
  BY <1>1, PathAssumption
  DEF PathInv, PathInit, Scenario, Path, Resolving
<1>4. ImgInv
  <2>1. image \in Images /\ image.phdrs \in Seq(Phdr)
    BY <1>1, ImagesAssumption DEF ImgInit, Scenario, Image
  <2> QED BY <2>1 DEF ImgInv, ImgInit, Loading, Phdrs
<1>5. TabInv
  <2>1. ptrs \in Seq(Int) /\ Len(envS) = 0 /\ Len(argvS) = 0 /\ DOMAIN mem = {}
    BY DEF TabInit
  <2> QED BY <2>1 DEF TabInv, TabInit, Writing, Counted, Placed, Wrapped
<1>6. hart.sp \in Int
  BY DEF NoHart
<1> QED BY <1>2, <1>3, <1>4, <1>5, <1>6 DEF StartupInv

-----------------------------------------------------------------------------
(***************************************************************************)
(* The steps, one lemma for each part of the program.                      *)
(***************************************************************************)

\* parse_options keeps its cursor in the arguments.
LEMMA ParseInv == StartupInv /\ ParseStep => StartupInv'
<1> SUFFICES ASSUME NEW m, CmdInv(m), PathInv, ImgInv, TabInv, hart.sp \in Int,
                    ParseStep
             PROVE  StartupInv'
  BY DEF StartupInv
<1>1. /\ UNCHANGED <<pathVars, imgVars, tabVars, hart>>
      /\ vec' = vec /\ parse = "options"
  BY DEF ParseStep, ParseOptions, HandleHelp, HandleNothing, HandleOption, AtOption,
         InvalidOption, NoProgram, FoundProgram
<1>2. IsVector(m)' /\ IsVector(m)
  BY <1>1 DEF CmdInv, IsVector
<1>3. /\ Len(vec) \in Nat /\ m \in 1 .. Len(vec) - 1 /\ opts \in 1 .. m
      /\ NULL \notin Strings
      /\ \A h \in 1 .. Len(vec) : vec[h] \in Strings \cup {NULL}
      /\ \A h \in 1 .. Len(vec) : vec[h] = NULL <=> h \in {m, Len(vec)}
  BY <1>1, StringsAssumption DEF CmdInv, IsVector
<1>4. CmdInv(m)'
  <2>1. ASSUME NEW o \in opt_table, HandleHelp(o) \/ HandleNothing(o)
        PROVE  CmdInv(m)'
    BY <2>1, <1>1, <1>2 DEF CmdInv, HandleHelp, HandleNothing, Parsing
  <2>2. ASSUME NEW o \in opt_table, HandleOption(o)
        PROVE  CmdInv(m)'
    <3>1. /\ vec[opts] # NULL /\ opts' = PastOption(o) /\ parse' = "options"
          /\ guest_stack_size' = NewStackSize(o)
          /\ UNCHANGED <<prog_argv, prog_envp>>
          /\ o.need_arg => Argument(o) # NULL
      BY <2>2, <1>1 DEF HandleOption, AtOption
    <3>2. opts < m
      BY <1>3, <3>1
    <3>3. o.need_arg => vec[opts + 1] # NULL /\ vec[opts + 1] \in Strings /\ opts + 1 < m
      BY <1>3, <3>1, <3>2 DEF Argument
    <3>4. opts' \in 1 .. m
      BY <1>3, <3>1, <3>2, <3>3 DEF PastOption
    <3>5. o.handle_opt = "guest_stack" => o.need_arg
      BY DEF opt_table, Option
    <3>6. guest_stack_size' \in Nat /\ guest_stack_size' < LongMod
      <4>1. CASE o.handle_opt = "guest_stack"
        <5>1. Argument(o) \in Strings
          BY <4>1, <3>3, <3>5 DEF Argument
        <5> QED BY <4>1, <5>1, <3>1, StringsAssumption, ScenariosAssumption DEF NewStackSize
      <4> QED BY <4>1, <3>1 DEF NewStackSize, CmdInv
    <3> QED BY <1>1, <1>2, <1>3, <3>1, <3>4, <3>6 DEF CmdInv, Parsing
  <2>3. CASE InvalidOption \/ NoProgram
    BY <2>3, <1>1, <1>2 DEF CmdInv, InvalidOption, NoProgram, Parsing
  <2>4. CASE FoundProgram
    <3>1. /\ vec[opts] # NULL /\ parse' = "done" /\ prog_argv' = opts
          /\ prog_envp' = EnvpFrom(opts) /\ opts' = EnvpFrom(opts)
          /\ UNCHANGED guest_stack_size
      BY <2>4 DEF FoundProgram
    <3>2. opts < m /\ opts + 1 \in 1 .. Len(vec)
      BY <1>3, <3>1
    <3>3. EnvpFrom(opts) = m + 1
      BY <1>2, <1>3, <3>2, NextNullIs DEF EnvpFrom
    <3> QED BY <1>1, <1>2, <1>3, <3>1, <3>2, <3>3 DEF CmdInv, Parsing
  <2> QED BY <2>1, <2>2, <2>3, <2>4 DEF ParseStep, ParseOptions
<1>5. PathInv'
  BY <1>1 DEF PathInv, pathVars, Terminated
<1>6. ImgInv'
  BY <1>1, <1>5 DEF ImgInv, PathInv, imgVars, pathVars, Phdrs
<1>7. TabInv'
  BY <1>1 DEF TabInv, tabVars, imgVars, Counted, Placed, Wrapped, MappedLen, PtrsCapacity,
              StackBytes
<1> QED BY <1>1, <1>4, <1>5, <1>6, <1>7 DEF StartupInv

\* get_real_path keeps its cursor in the buffer, which starts with a slash.
LEMMA PathStepInv == StartupInv /\ PathStep => StartupInv'
<1> SUFFICES ASSUME NEW m, CmdInv(m), PathInv, ImgInv, TabInv, hart.sp \in Int,
                    PathStep
             PROVE  StartupInv'
  BY DEF StartupInv
<1>1. UNCHANGED <<cmdVars, imgVars, tabVars, hart>>
  BY DEF PathStep
<1>2. CmdInv(m)'
  BY <1>1 DEF CmdInv, IsVector, cmdVars
<1>3. PATH_MAX \in Nat /\ PATH_MAX >= 2 /\ Slash \in Bytes /\ NUL \in Bytes
  BY PathAssumption DEF Bytes
<1>4. /\ path \in Path /\ cwd \in Directory /\ resolve \in Resolving
      /\ real \in [0 .. PATH_MAX - 1 -> Bytes] /\ rp2 \in 0 .. PATH_MAX
      /\ walked \in 0 .. Len(path.names)
  BY DEF PathInv
<1>5. path.names \in Seq(Seq(Chars)) /\ Len(path.names) \in Nat
  BY <1>4 DEF Path
<1>6. PathInv' /\ resolve # "done"
  <2>1. ASSUME parse = "done", ResolvePath(PathOf[vec[prog_argv]])
        PROVE  PathInv' /\ resolve # "done"
    <3>1. vec[prog_argv] \in Strings
      BY <2>1 DEF CmdInv, IsVector
    <3>2. path' \in Path
      BY <3>1, <2>1, ScenariosAssumption DEF ResolvePath
    <3>3. path'.names \in Seq(Seq(Chars)) /\ Len(path'.names) \in Nat
      BY <3>2 DEF Path
    <3> QED BY <2>1, <3>2, <3>3, <1>1, <1>4
            DEF PathInv, ResolvePath, Resolving, cmdVars
  <2>2. CASE resolve # "idle" /\ Overrun /\ resolve # "done"
    BY <2>2, <1>1, <1>4 DEF Overrun, PathInv, Resolving, cmdVars
  <2>3. CASE StartAbsolute
    <3>1. /\ resolve = "start" /\ real' = Written(0, <<Slash, NUL>>) /\ rp2' = 0
          /\ resolve' = "walk" /\ UNCHANGED <<path, cwd, stale, walked>>
      BY <2>3 DEF StartAbsolute
    <3>2. <<Slash, NUL>> \in Seq(Bytes) /\ Len(<<Slash, NUL>>) = 2
          /\ <<Slash, NUL>>[1] = Slash
      BY <1>3
    <3>3. real' \in [0 .. PATH_MAX - 1 -> Bytes]
      BY <3>1, <3>2, <1>3, <1>4, WrittenTyped
    <3>4. real'[0] = Slash
      BY <3>1, <3>2, <1>3 DEF Written
    <3> QED BY SMTT(30), <3>1, <3>3, <3>4, <1>1, <1>3, <1>4 DEF PathInv, Resolving, cmdVars
  <2>4. CASE StartAtCwd
    <3>1. /\ resolve = "start" /\ real' = Written(0, Append(cwd, NUL))
          /\ Fits(0, Append(cwd, NUL)) /\ rp2' = Len(cwd)
          /\ resolve' = "walk" /\ UNCHANGED <<path, cwd, stale, walked>>
      BY <2>4 DEF StartAtCwd
    <3>2. cwd \in Seq(Bytes) /\ Len(cwd) \in Nat /\ Len(cwd) > 0 /\ cwd[1] = Slash
      <4>1. cwd \in Seq(Chars \cup {Slash}) /\ Len(cwd) > 0 /\ cwd[1] = Slash
        BY <1>4 DEF Directory, PathText
      <4>2. Chars \cup {Slash} \subseteq Bytes
        BY DEF Bytes
      <4> QED BY <4>1, <4>2
    <3>3. /\ Append(cwd, NUL) \in Seq(Bytes) /\ Len(Append(cwd, NUL)) = Len(cwd) + 1
          /\ Append(cwd, NUL)[1] = Slash
      BY <3>2, <1>3
    <3>4. real' \in [0 .. PATH_MAX - 1 -> Bytes]
      BY <3>1, <3>3, <1>3, <1>4, WrittenTyped
    <3>5. real'[0] = Slash
      BY <3>1, <3>2, <3>3, <1>3 DEF Written
    <3>6. rp2' \in 0 .. PATH_MAX
      BY <3>1, <3>2, <3>3, <1>3 DEF Fits
    <3> QED BY <3>1, <3>4, <3>5, <3>6, <1>1, <1>4 DEF PathInv, Resolving, cmdVars
  <2>5. CASE GetcwdFails
    BY <2>5, <1>1, <1>4 DEF GetcwdFails, PathInv, Resolving, cmdVars
  <2>6. ASSUME NEW name, SkipName(name)
        PROVE  PathInv' /\ resolve # "done"
    BY <2>6, <1>1, <1>4, <1>5 DEF SkipName, AtName, PathInv, Resolving, cmdVars
  <2>7. ASSUME NEW name, Up(name)
        PROVE  PathInv' /\ resolve # "done"
    <3>1. resolve = "walk" /\ real[0] = Slash /\ walked < Len(path.names)
      BY <2>7 DEF Up, AtName, PathInv
    <3>2. CASE Terminated
      <4>1. /\ rp2' = LastSlash /\ real' = Written(UpFrom(LastSlash), <<NUL>>)
            /\ walked' = walked + 1 /\ UNCHANGED <<path, cwd, stale, resolve>>
        BY <2>7, <3>2 DEF Up
      <4>2. LastSlash \in 0 .. StrLen0 - 1 /\ StrLen0 \in 0 .. PATH_MAX - 1
        BY <1>3, <3>1, <3>2, LastSlashIs, StringInBuffer
      <4>3. UpFrom(LastSlash) \in Nat /\ UpFrom(LastSlash) > 0
        BY <4>2 DEF UpFrom
      <4>4. <<NUL>> \in Seq(Bytes) /\ Len(<<NUL>>) = 1
        BY <1>3
      <4>5. real' \in [0 .. PATH_MAX - 1 -> Bytes]
        BY <4>1, <4>3, <4>4, <1>3, <1>4, WrittenTyped
      <4>6. real'[0] = Slash
        BY <4>1, <4>3, <4>4, <3>1, <1>3 DEF Written
      <4>7. rp2' \in 0 .. PATH_MAX
        BY <4>1, <4>2, <1>3
      <4> QED BY <4>1, <4>5, <4>6, <4>7, <3>1, <1>1, <1>4, <1>5 DEF PathInv, cmdVars
    <3>3. CASE ~Terminated
      BY <2>2, <2>7, <3>1, <3>3 DEF Up
    <3> QED BY <3>2, <3>3
  <2>8. ASSUME NEW name, AddName(name)
        PROVE  PathInv' /\ resolve # "done"
    <3>1. /\ resolve = "walk" /\ real[0] = Slash /\ walked < Len(path.names)
          /\ name = path.names[walked + 1]
      BY <2>8 DEF AddName, AtName, PathInv
    <3>2. name \in Seq(Chars)
      BY <3>1, <1>4, <1>5
    <3> DEFINE text == <<Slash>> \o name
    <3>3. text \in Seq(Bytes) /\ Len(text) = 1 + Len(name) /\ text[1] = Slash
      <4>1. name \in Seq(Bytes) /\ <<Slash>> \in Seq(Bytes) /\ Len(<<Slash>>) = 1
        BY <3>2, <1>3 DEF Bytes
      <4> QED BY <4>1
    <3>4. CASE Fits(rp2, text)
      <4>1. /\ real' = Written(rp2, text) /\ rp2' = rp2 + 1 + Len(name)
            /\ walked' = walked + 1 /\ UNCHANGED <<path, cwd, stale, resolve>>
        BY <2>8, <3>4 DEF AddName
      <4>2. Len(name) \in Nat
        BY <3>2
      <4> HIDE DEF text
      <4>3. real' \in [0 .. PATH_MAX - 1 -> Bytes]
        BY <4>1, <3>3, <1>3, <1>4, WrittenTyped
      <4>4. real'[0] = Slash
        BY <4>1, <4>2, <3>1, <3>3, <1>3, <1>4 DEF Written
      <4>5. rp2' \in 0 .. PATH_MAX
        BY <4>1, <4>2, <3>3, <3>4, <1>3, <1>4 DEF Fits
      <4>6. walked' \in 0 .. Len(path'.names)
        BY <4>1, <3>1, <1>4, <1>5
      <4>7. /\ UNCHANGED <<path, cwd>> /\ resolve = "walk" /\ resolve' = "walk"
            /\ parse' = parse
        BY <4>1, <3>1, <1>1 DEF cmdVars
      <4> QED BY <4>3, <4>4, <4>5, <4>6, <4>7, <1>4 DEF PathInv
    <3>5. CASE ~Fits(rp2, text)
      BY <2>2, <2>8, <3>1, <3>5 DEF AddName
    <3> QED BY <3>4, <3>5
  <2>9. CASE Terminate
    <3>1. resolve = "walk"
      BY <2>9 DEF Terminate
    <3>2. TextEnd \in Nat /\ <<NUL>> \in Seq(Bytes) /\ Len(<<NUL>>) = 1
      BY <1>3, <1>4 DEF TextEnd
    <3>3. CASE Fits(TextEnd, <<NUL>>)
      <4>1. /\ real' = Written(TextEnd, <<NUL>>) /\ rp2' = TextEnd
            /\ resolve' = "done" /\ UNCHANGED <<path, cwd, stale, walked>>
        BY <2>9, <3>3 DEF Terminate
      <4>2. real' \in [0 .. PATH_MAX - 1 -> Bytes]
        BY <4>1, <3>2, <1>3, <1>4, WrittenTyped
      <4>3. TextEnd \in 0 .. PATH_MAX - 1
        BY <3>2, <3>3, <1>3 DEF Fits
      <4>4. real'[TextEnd] = NUL
        BY <4>1, <4>3, <3>2, <1>3 DEF Written
      <4>5. Terminated'
        BY <4>3, <4>4 DEF Terminated
      <4>6. real'[0] = Slash
        <5>1. real[0] = Slash /\ TextEnd > 0
          BY <3>1, <1>4 DEF PathInv, TextEnd
        <5> QED BY <5>1, <4>1, <3>2, <1>3 DEF Written
      <4> QED BY <4>1, <4>2, <4>3, <4>5, <4>6, <3>1, <1>1, <1>3, <1>4
              DEF PathInv, Resolving, cmdVars
    <3>4. CASE ~Fits(TextEnd, <<NUL>>)
      BY <2>2, <2>9, <3>1, <3>4 DEF Terminate
    <3> QED BY <3>3, <3>4
  <2> QED BY <2>1, <2>3, <2>4, <2>5, <2>6, <2>7, <2>8, <2>9
          DEF PathStep, GetRealPath, Walk
<1>7. ImgInv'
  BY <1>1, <1>6 DEF ImgInv, imgVars, Phdrs
<1>8. TabInv'
  BY <1>1 DEF TabInv, tabVars, imgVars, Counted, Placed, Wrapped, MappedLen, PtrsCapacity,
              StackBytes
<1> QED BY <1>1, <1>2, <1>6, <1>7, <1>8 DEF StartupInv

\* load_elf_binary goes through its program headers in turn.
LEMMA LoadStepInv == StartupInv /\ LoadStep => StartupInv'
<1> SUFFICES ASSUME NEW m, CmdInv(m), PathInv, ImgInv, TabInv, hart.sp \in Int,
                    LoadStep
             PROVE  StartupInv'
  BY DEF StartupInv
<1>1. UNCHANGED <<cmdVars, pathVars, tabVars, hart>> /\ resolve = "done"
  BY DEF LoadStep
<1>2. CmdInv(m)'
  BY <1>1 DEF CmdInv, IsVector, cmdVars
<1>3. PathInv'
  BY <1>1 DEF PathInv, pathVars, cmdVars, Terminated
<1>4. image' = image /\ image \in Images /\ image.phdrs \in Seq(Phdr)
  BY ImagesAssumption
  DEF LoadStep, ElfLoad, ReserveRange, LoadFails, SkipPhdr, KilledInTail, MapPhdr,
      MapPhdrFails, PhdrsDone, MapHeapBytes, HeapBytesFail, Fail, ImgInv, Image
<1>5. Phdrs' = Phdrs /\ Len(Phdrs) \in Nat /\ nseg \in 0 .. Len(Phdrs)
      /\ DOMAIN byte = DOMAIN prot
  BY <1>4 DEF Phdrs, ImgInv
<1> DEFINE Typed == /\ load' \in Loading /\ nseg' \in 0 .. Len(Phdrs)
                    /\ DOMAIN byte' = DOMAIN prot' /\ load # "done"
<1>6. Typed
  <2>1. CASE Fail /\ load # "done"
    BY <2>1, <1>5 DEF Fail, Loading
  <2>2. CASE ReserveRange
    BY <2>2, <1>5 DEF ReserveRange, Loading
  <2>3. ASSUME NEW e, SkipPhdr(e)
        PROVE  Typed
    BY <2>3, <1>5 DEF SkipPhdr, AtPhdr, Loading
  <2>4. ASSUME NEW e, KilledInTail(e)
        PROVE  Typed
    BY <2>4, <1>5 DEF KilledInTail, AtPhdr, Loading
  <2>5. ASSUME NEW e, MapPhdr(e)
        PROVE  Typed
    <3>1. load = "segments" /\ nseg < Len(Phdrs)
      BY <2>5 DEF MapPhdr, AtPhdr
    <3>2. DOMAIN byte' = DOMAIN byte /\ DOMAIN prot' = DOMAIN prot
      BY <2>5, <1>5 DEF MapPhdr, WithFile, WithoutFile, Protected
    <3>3. \/ nseg' = nseg + 1 /\ load' = load
          \/ nseg' = nseg /\ load' = "failed"
      BY <2>5 DEF MapPhdr
    <3> QED BY <3>1, <3>2, <3>3, <1>5 DEF Loading
  <2>6. CASE PhdrsDone
    BY <2>6, <1>5 DEF PhdrsDone, Loading
  <2>7. CASE MapHeapBytes
    BY <2>7, <1>5 DEF MapHeapBytes, Protected, Loading
  <2> QED BY <2>1, <2>2, <2>3, <2>4, <2>5, <2>6, <2>7
          DEF LoadStep, ElfLoad, LoadFails, MapPhdrFails, AtPhdr, HeapBytesFail
<1>7. ImgInv'
  BY <1>1, <1>4, <1>5, <1>6 DEF ImgInv, pathVars
<1>8. TabInv'
  BY <1>1, <1>6
  DEF TabInv, tabVars, Counted, Placed, Wrapped, MappedLen, PtrsCapacity, StackBytes
<1> QED BY <1>1, <1>2, <1>3, <1>7, <1>8 DEF StartupInv

-----------------------------------------------------------------------------
(***************************************************************************)
(* create_elf_tables.                                                      *)
(***************************************************************************)

\* The strings from a place of the vector to its next NULL are strings.
LEMMA StringsTyped ==
  ASSUME NEW m, IsVector(m), NEW i \in 1 .. Len(vec)
  PROVE  StringsFrom(i) \in Seq(Strings)
         /\ (i < m => StringsFrom(i) # <<>>)
<1> DEFINE n == NextNull(i)
<1>1. /\ Len(vec) \in Nat /\ m \in 1 .. Len(vec) - 1
      /\ \A h \in 1 .. Len(vec) : vec[h] \in Strings \cup {NULL}
      /\ \A h \in 1 .. Len(vec) : vec[h] = NULL <=> h \in {m, Len(vec)}
  BY DEF IsVector
<1>2. n = IF i <= m THEN m ELSE Len(vec)
  BY NextNullIs
<1> HIDE DEF n
<1>3. n \in i .. Len(vec) /\ n - 1 \in Int /\ i \in Int
  BY <1>1, <1>2
<1>4. \A h \in i .. n - 1 : vec[h] \in Strings
  BY <1>1, <1>2
<1>5. /\ SubSeq(vec, i, n - 1) \in Seq(Strings)
      /\ Len(SubSeq(vec, i, n - 1)) = IF i <= n - 1 THEN n - 1 - i + 1 ELSE 0
  BY <1>3, <1>4, SubSeqProperties
<1>6. PICK strings \in Seq(Strings) :
        /\ strings = SubSeq(vec, i, n - 1)
        /\ Len(strings) = IF i <= n - 1 THEN n - 1 - i + 1 ELSE 0
  BY <1>5
<1>7. i < m => Len(strings) > 0
  BY <1>1, <1>2, <1>6
<1>8. strings = <<>> => Len(strings) = 0
  OBVIOUS
<1>9. i < m => strings # <<>>
  BY <1>7, <1>8
<1> QED BY <1>6, <1>9 DEF StringsFrom, n

\* What create_elf_tables is given to write has a length.
LEMMA BprmTyped ==
  ASSUME NEW m, CmdInv(m), PathInv, resolve = "done"
  PROVE  /\ Len(BprmArgv) \in Nat /\ Len(BprmArgv) > 0
         /\ \A j \in 1 .. Len(BprmArgv) : BprmArgv[j].len \in Nat
         /\ Len(BprmEnvp) \in Nat
         /\ \A j \in 1 .. Len(BprmEnvp) : BprmEnvp[j].len \in Nat
<1> DEFINE R == {String(t) : t \in Strings} \cup {Filename}
<1>1. /\ IsVector(m) /\ Len(vec) \in Nat /\ m \in 1 .. Len(vec) - 1
      /\ prog_argv \in 1 .. m - 1 /\ prog_envp \in m + 1 .. Len(vec)
  BY DEF CmdInv, PathInv, IsVector
<1>2. StringsFrom(prog_argv) \in Seq(Strings) /\ StringsFrom(prog_argv) # <<>>
  <2>1. prog_argv \in 1 .. Len(vec) /\ prog_argv < m
    BY <1>1
  <2> QED BY <1>1, <2>1, StringsTyped
<1>3. StringsFrom(prog_envp) \in Seq(Strings)
  <2>1. prog_envp \in 1 .. Len(vec)
    BY <1>1
  <2> QED BY <1>1, <2>1, StringsTyped
<1>4. \A r \in R : r.len \in Nat
  <2>1. \A t \in Strings : String(t).len \in Nat
    BY StringsAssumption DEF String
  <2>2. Terminated /\ PATH_MAX \in Nat
    BY PathAssumption DEF PathInv
  <2>3. StrLen0 \in Nat
    BY <2>2, StringInBuffer
  <2>4. Len(RealText) \in Nat
    BY <2>3 DEF RealText
  <2> QED BY <2>1, <2>4 DEF Filename
<1>5. ASSUME NEW strings \in Seq(Strings)
      PROVE  Strs(strings) \in Seq(R) /\ Len(Strs(strings)) = Len(strings)
  <2>1. \A j \in 1 .. Len(strings) : String(strings[j]) \in R
    OBVIOUS
  <2> HIDE DEF R
  <2> QED BY <2>1 DEF Strs
<1>6. <<Filename>> \in Seq(R)
  OBVIOUS
<1> HIDE DEF R
<1>7. Strs(StringsFrom(prog_argv)) \in Seq(R) /\ Strs(StringsFrom(prog_argv)) # <<>>
  BY <1>2, <1>5
<1>8. Tail(Strs(StringsFrom(prog_argv))) \in Seq(R)
  BY <1>7, HeadTailProperties
<1>9. BprmArgv \in Seq(R) /\ Len(BprmArgv) > 0
  <2>1. /\ BprmArgv \in Seq(R)
        /\ Len(BprmArgv) = 1 + Len(Tail(Strs(StringsFrom(prog_argv))))
    BY <1>6, <1>8, ConcatProperties DEF BprmArgv
  <2>2. Len(Tail(Strs(StringsFrom(prog_argv)))) \in Nat
    BY <1>8
  <2> QED BY <2>1, <2>2
<1>10. BprmEnvp \in Seq(R)
  BY <1>3, <1>5 DEF BprmEnvp
<1> QED BY <1>4, <1>9, <1>10

\* A write that reaches above the guard's lowest byte and does not fault is
\* above the guard altogether.
LEMMA NoFault ==
  ASSUME NEW a \in Int, NEW n \in Nat, n > 0, a + n > StackAt, ~Faults(a, n)
  PROVE  stack_limit <= a
<1>1. StackAt \in Nat /\ Guard \in Nat /\ Guard >= 1
  BY StackAssumption
<1>2. \A b \in a .. a + n - 1 : ~(b \in StackAt .. StackAt + Guard - 1)
  BY DEF Faults, Span, GuardPage
<1>3. CASE a + n - 1 < StackAt + Guard
  <2>1. a + n - 1 \in a .. a + n - 1 /\ a + n - 1 \in StackAt .. StackAt + Guard - 1
    BY <1>1, <1>3
  <2> QED BY <1>2, <2>1
<1>4. CASE a + n - 1 >= StackAt + Guard /\ a < StackAt + Guard
  <2>1. StackAt + Guard - 1 \in a .. a + n - 1
        /\ StackAt + Guard - 1 \in StackAt .. StackAt + Guard - 1
    BY <1>1, <1>4
  <2> QED BY <1>2, <2>1
<1> QED BY <1>1, <1>3, <1>4 DEF stack_limit

\* A string is pushed inside the stack, and takes one pointer.
LEMMA PushInv ==
  ASSUME TabInv, tables \in {"env", "argv"}, left > 0,
         NEW s, s.len \in Nat, PushString(s), load = "done", load' = load
  PROVE  TabInv'
<1> DEFINE n == SizeOf(s)
<1>1. n \in Nat /\ n > 0
  BY DEF SizeOf
<1>2. /\ Word \in Nat /\ Word > 0 /\ Guard \in Nat /\ Guard >= 5 * Word
      /\ StackAt \in Nat /\ stack_limit = StackAt + Guard
  BY StackAssumption DEF stack_limit
<1>3. top \in Int /\ left \in Nat /\ stack_size \in Nat /\ Len(envS) \in Nat
      /\ Len(argvS) \in Nat
  BY DEF TabInv
<1>4. PICK T : ptrs \in Seq(T)
  BY DEF TabInv
<1>5. Len(ptrs) \in Nat
  BY <1>4
<1>6. UNCHANGED <<argvS, envS, stack_size>>
  BY DEF PushString, Killed
<1>7. CASE Faults(top - n, n)
  <2>1. tables' = "killed" /\ UNCHANGED <<left, ptrs, top, mem>>
    BY <1>7 DEF PushString, Killed
  <2>2. Counted'
    BY <2>1, <1>3, <1>5, <1>6 DEF Counted, TabInv, PtrsCapacity
  <2>3. Placed'
    BY <2>1, <1>6 DEF Placed, TabInv, StackBytes
  <2>4. Wrapped'
    BY <2>1, <1>6 DEF Wrapped, TabInv, MappedLen
  <2> QED BY <2>1, <2>2, <2>3, <2>4, <1>3, <1>4, <1>6 DEF TabInv, Writing
<1>8. CASE ~Faults(top - n, n)
  <2>1. /\ top' = top - n /\ ptrs' = Append(ptrs, top - n)
        /\ mem' = Copied(top - n, n, "string", s)
        /\ left' = left - 1 /\ tables' = tables
    BY <1>8 DEF PushString
  <2>2. top - n \in Int
    BY <1>1, <1>3
  <2>3. ptrs' \in Seq(T \cup {top - n}) /\ Len(ptrs') = Len(ptrs) + 1
    <3>1. ptrs \in Seq(T \cup {top - n})
      BY <1>4
    <3> QED BY <2>1, <3>1
  <2>4. left' \in Nat
    BY <2>1, <1>3
  <2>5. Counted'
    <3>1. CASE tables = "env"
      <4>1. left <= Len(envS) /\ Len(ptrs) = 1 + Len(envS) - left
        BY <3>1 DEF TabInv, Counted
      <4>2. left' <= Len(envS) /\ Len(ptrs') = 1 + Len(envS) - left'
        BY <4>1, <2>1, <2>3, <1>3, <1>5
      <4> QED BY <3>1, <4>2, <2>1, <1>6 DEF Counted
    <3>2. CASE tables = "argv"
      <4>1. left <= Len(argvS) /\ Len(ptrs) = 2 + Len(envS) + Len(argvS) - left
        BY <3>2 DEF TabInv, Counted
      <4>2. left' <= Len(argvS) /\ Len(ptrs') = 2 + Len(envS) + Len(argvS) - left'
        BY <4>1, <2>1, <2>3, <1>3, <1>5
      <4> QED BY <3>2, <4>2, <2>1, <1>6 DEF Counted
    <3> QED BY <3>1, <3>2
  <2>6. Placed'
    <3> SUFFICES ASSUME stack_size + Guard < LongMod
                 PROVE  /\ stack_limit - Word <= top' /\ top' <= stack_limit + stack_size - Word
                        /\ DOMAIN mem' \subseteq StackBytes
      BY <2>1, <1>6 DEF Placed, StackBytes
    <3>1. /\ stack_limit - Word <= top /\ top <= stack_limit + stack_size - Word
          /\ DOMAIN mem \subseteq StackBytes
      BY DEF TabInv, Placed
    <3>2. top - n + n > StackAt
      BY <3>1, <1>1, <1>2, <1>3
    <3>3. stack_limit <= top - n
      BY <3>2, <2>2, <1>1, <1>8, NoFault
    <3>4. DOMAIN mem' = DOMAIN mem \cup Span(top - n, n)
      BY <2>1 DEF Copied
    <3> HIDE DEF n
    <3>5. Span(top - n, n) \subseteq StackBytes
      BY <3>1, <3>3, <1>1, <1>2, <1>3 DEF Span, StackBytes
    <3>6. DOMAIN mem' \subseteq StackBytes
      BY <3>1, <3>4, <3>5
    <3>7. stack_limit - Word <= top' /\ top' <= stack_limit + stack_size - Word
      BY <2>1, <3>1, <3>3, <1>1, <1>2, <1>3
    <3> QED BY <3>6, <3>7
  <2>7. Wrapped'
    <3> SUFFICES ASSUME LongMod <= stack_size + Guard PROVE Wrapped'
      BY <1>6 DEF Wrapped
    <3>1. /\ \A a \in DOMAIN mem : a < StackAt
          /\ MappedLen(stack_size) <= Word => top <= StackAt
          /\ MappedLen(stack_size) > Word => StackAt < top /\ top <= stack_limit
      BY DEF TabInv, Wrapped
    <3>2. MappedLen(stack_size) \in Int
      BY <1>2, <1>3, StackAssumption DEF MappedLen
    <3>3. MappedLen(stack_size) <= Word
      <4> SUFFICES ASSUME MappedLen(stack_size) > Word PROVE FALSE
        BY <3>2, <1>2
      <4>1. top - n + n > StackAt /\ top <= stack_limit
        BY <3>1, <1>1, <1>3
      <4>2. stack_limit <= top - n
        BY <4>1, <2>2, <1>1, <1>8, NoFault
      <4> QED BY <4>1, <4>2, <1>1, <1>2, <1>3
    <3>4. top <= StackAt
      BY <3>1, <3>3
    <3>5. DOMAIN mem' = DOMAIN mem \cup Span(top - n, n)
      BY <2>1 DEF Copied
    <3> HIDE DEF n
    <3>6. \A a \in Span(top - n, n) : a < StackAt
      BY <3>4, <1>1, <1>2, <1>3 DEF Span
    <3>7. top' <= StackAt
      BY <2>1, <3>4, <1>1, <1>2, <1>3
    <3>8. MappedLen(stack_size)' = MappedLen(stack_size)
      BY <1>6 DEF MappedLen
    <3>9. ~ (MappedLen(stack_size)' > Word)
      BY <3>2, <3>3, <3>8, <1>2
    <3> QED BY <2>1, <3>1, <3>3, <3>5, <3>6, <3>7, <3>8, <3>9 DEF Wrapped
  <2> QED BY <2>1, <2>2, <2>3, <2>4, <2>5, <2>6, <2>7, <1>3, <1>6 DEF TabInv
<1> QED BY <1>7, <1>8

\* A number below the modulus is its own remainder.
LEMMA SmallMod ==
  ASSUME NEW a \in Nat, NEW b \in Nat, a < b
  PROVE  a % b = a
<1> DEFINE q == a \div b
           r == a % b
<1>1. q \in Int /\ r \in 0 .. b - 1 /\ a = b * q + r
  OBVIOUS
<1> HIDE DEF q, r
<1>2. CASE q >= 1
  <2>1. b * q >= b
    BY <1>1, <1>2
  <2> QED BY <1>1, <2>1
<1>3. CASE q <= -1
  <2>1. b * q <= -b
    BY <1>1, <1>3
  <2> QED BY <1>1, <2>1
<1>4. CASE q = 0
  <2>1. a = r
    BY <1>1, <1>4
  <2> QED BY <2>1 DEF r
<1> QED BY <1>1, <1>2, <1>3, <1>4

\* One that is not, but below twice as much, wraps once.
LEMMA WrappedMod ==
  ASSUME NEW a \in Nat, NEW b \in Nat, b <= a, a < 2 * b
  PROVE  a % b = a - b
<1> DEFINE q == a \div b
           r == a % b
<1>1. q \in Int /\ r \in 0 .. b - 1 /\ a = b * q + r
  OBVIOUS
<1> HIDE DEF q, r
<1>2. CASE q >= 2
  <2>1. b * q >= 2 * b
    BY <1>1, <1>2
  <2> QED BY <1>1, <2>1
<1>3. CASE q <= 0
  <2>1. b * q <= 0
    BY <1>1, <1>3
  <2> QED BY <1>1, <2>1
<1>4. CASE q = 1
  <2>1. r = a - b
    BY <1>1, <1>4
  <2> QED BY <2>1 DEF r
<1> QED BY <1>1, <1>2, <1>3, <1>4

\* The stack is mapped with its top one pointer below its end.
LEMMA MapStackInv ==
  ASSUME TabInv, guest_stack_size \in Nat, guest_stack_size < LongMod,
         load = "done", load' = load, Len(BprmArgv) \in Nat, Len(BprmArgv) > 0, \A j \in 1 .. Len(BprmArgv) : BprmArgv[j].len \in Nat,
         Len(BprmEnvp) \in Nat, \A j \in 1 .. Len(BprmEnvp) : BprmEnvp[j].len \in Nat,
         MapStack(BprmArgv, BprmEnvp, guest_stack_size)
  PROVE  TabInv'
<1>1. /\ tables = "idle" /\ tables' = "env" /\ argvS' = BprmArgv /\ envS' = BprmEnvp
      /\ stack_size' = guest_stack_size /\ top' = TopOf(guest_stack_size)
      /\ ptrs' = <<0>> /\ left' = Len(BprmEnvp) /\ mem' = mem
  BY DEF MapStack
<1>2. /\ Word \in Nat /\ Word > 0 /\ Guard \in Nat /\ Guard >= 5 * Word
      /\ StackAt \in Nat /\ stack_limit = StackAt + Guard /\ LongMod \in Nat /\ LongMod > 0
  BY StackAssumption DEF stack_limit
<1>3. ptrs' \in Seq(Int) /\ Len(ptrs') = 1
  BY <1>1
<1>4. MappedLen(guest_stack_size) \in Int
  BY <1>2 DEF MappedLen
<1>5. top' \in Int
  BY <1>1, <1>2, <1>4 DEF TopOf
<1>6. DOMAIN mem' = {}
  BY <1>1 DEF TabInv
<1>7. Counted'
  BY <1>1, <1>3 DEF Counted
<1>8. Placed'
  <2> SUFFICES ASSUME guest_stack_size + Guard < LongMod
               PROVE  /\ stack_limit - Word <= top'
                      /\ top' <= stack_limit + guest_stack_size - Word
    BY <1>1, <1>6 DEF Placed
  <2>1. MappedLen(guest_stack_size) = guest_stack_size + Guard
    <3>1. guest_stack_size + Guard \in Nat
      BY <1>2
    <3>2. (guest_stack_size + Guard) % LongMod = guest_stack_size + Guard
      BY ONLY <1>2, <3>1, guest_stack_size + Guard < LongMod, SmallMod
    <3> QED BY <3>2 DEF MappedLen
  <2> QED BY <2>1, <1>1, <1>2 DEF TopOf
<1>9. Wrapped'
  <2> DEFINE len == MappedLen(guest_stack_size)
  <2> SUFFICES ASSUME LongMod <= guest_stack_size + Guard PROVE Wrapped'
    BY <1>1 DEF Wrapped
  <2>1. len = guest_stack_size + Guard - LongMod
    <3>1. /\ guest_stack_size + Guard \in Nat
          /\ guest_stack_size + Guard < 2 * LongMod
      <4>1. LongMod > Guard
        BY StackAssumption
      <4> QED BY <4>1, <1>2
    <3>2. PICK a \in Nat : a = guest_stack_size + Guard
      BY <3>1
    <3>3. PICK b \in Nat : b = LongMod
      BY <1>2
    <3>4. b <= a /\ a < 2 * b
      BY <3>1, <3>2, <3>3
    <3>5. a % b = a - b
      BY ONLY a \in Nat, b \in Nat, <3>4, WrappedMod
    <3>6. len = a % b
      BY Zenon, <3>2, <3>3 DEF MappedLen
    <3> HIDE DEF len
    <3> QED BY <3>2, <3>3, <3>5, <3>6, <1>2
  <2>2. len < Guard
    BY <2>1, <1>2
  <2>3. MappedLen(stack_size)' = len
    BY <1>1 DEF MappedLen
  <2>4. top' = StackAt + len - Word
    BY <1>1 DEF TopOf
  <2>5. len \in Int
    BY <1>4
  <2> HIDE DEF len
  <2>6. /\ len <= Word => top' <= StackAt
        /\ len > Word => StackAt < top' /\ top' <= stack_limit
    BY <2>2, <2>4, <2>5, <1>2
  <2> QED BY <2>3, <2>6, <1>1, <1>6 DEF Wrapped
<1> QED BY <1>1, <1>3, <1>5, <1>6, <1>7, <1>8, <1>9 DEF TabInv, Writing

\* The pointers are pushed inside the stack.
LEMMA PushPointerInv ==
  ASSUME TabInv, load' = load, PushPointer
  PROVE  TabInv'
<1>1. tables = "ptrs" /\ left > 0 /\ UNCHANGED <<argvS, envS, stack_size, ptrs>>
  BY DEF PushPointer, Killed
<1>2. /\ Word \in Nat /\ Word > 0 /\ Guard \in Nat /\ Guard >= 5 * Word
      /\ StackAt \in Nat /\ stack_limit = StackAt + Guard
  BY StackAssumption DEF stack_limit
<1>3. top \in Int /\ left \in Nat /\ stack_size \in Nat
  BY DEF TabInv
<1>4. PICK T : ptrs \in Seq(T)
  BY DEF TabInv
<1>5. Len(ptrs) \in Nat /\ left <= Len(ptrs) /\ Len(ptrs) = PtrsCapacity
      /\ PtrsCapacity' = PtrsCapacity
  BY <1>1, <1>4 DEF TabInv, Counted, PtrsCapacity
<1>6. CASE Faults(top - Word, Word)
  <2>1. tables' = "killed" /\ UNCHANGED <<left, top, mem>>
    BY <1>1, <1>6 DEF PushPointer, Killed
  <2>2. Counted'
    BY <2>1, <1>1, <1>5 DEF Counted
  <2>3. Placed'
    BY <2>1, <1>1 DEF Placed, TabInv, StackBytes
  <2>4. Wrapped'
    BY <2>1, <1>1 DEF Wrapped, TabInv, MappedLen
  <2> QED BY <2>1, <2>2, <2>3, <2>4, <1>1, <1>3, <1>4 DEF TabInv, Writing
<1>7. CASE ~Faults(top - Word, Word)
  <2>1. /\ top' = top - Word /\ mem' = Copied(top - Word, Word, "word", Pointer)
        /\ left' = left - 1 /\ tables' = tables
    BY <1>7 DEF PushPointer
  <2>2. Counted'
    BY <2>1, <1>1, <1>3, <1>5 DEF Counted
  <2>3. Placed'
    <3> SUFFICES ASSUME stack_size + Guard < LongMod
                 PROVE  /\ stack_limit - 5 * Word < top' /\ top' <= stack_limit + stack_size
                        /\ DOMAIN mem' \subseteq StackBytes
      BY <2>1, <1>1 DEF Placed, StackBytes
    <3>1. /\ stack_limit - 5 * Word < top /\ top <= stack_limit + stack_size
          /\ DOMAIN mem \subseteq StackBytes
      BY <1>1 DEF TabInv, Placed
    <3>2. top - Word \in Int /\ top - Word + Word > StackAt
      BY <3>1, <1>2, <1>3
    <3>3. stack_limit <= top - Word
      BY <3>2, <1>2, <1>7, NoFault
    <3>4. DOMAIN mem' = DOMAIN mem \cup Span(top - Word, Word)
      BY <2>1 DEF Copied
    <3>5. Span(top - Word, Word) \subseteq StackBytes
      BY <3>1, <3>3, <1>2, <1>3 DEF Span, StackBytes
    <3>6. DOMAIN mem' \subseteq StackBytes
      BY <3>1, <3>4, <3>5
    <3>7. stack_limit - 5 * Word < top' /\ top' <= stack_limit + stack_size
      BY <2>1, <3>1, <3>3, <1>2, <1>3
    <3> QED BY <3>6, <3>7
  <2>4. left' \in Nat /\ top' \in Int
    BY <2>1, <1>1, <1>2, <1>3
  <2>5. Wrapped'
    <3> SUFFICES ASSUME LongMod <= stack_size + Guard PROVE Wrapped'
      BY <1>1 DEF Wrapped
    <3>1. /\ \A a \in DOMAIN mem : a < StackAt
          /\ MappedLen(stack_size) <= Word /\ top <= StackAt
      BY <1>1 DEF TabInv, Wrapped
    <3>2. DOMAIN mem' = DOMAIN mem \cup Span(top - Word, Word)
      BY <2>1 DEF Copied
    <3>3. \A a \in Span(top - Word, Word) : a < StackAt
      BY <3>1, <1>2, <1>3 DEF Span
    <3>4. top' <= StackAt
      BY <2>1, <3>1, <1>2, <1>3
    <3>5. MappedLen(stack_size)' = MappedLen(stack_size)
      BY <1>1 DEF MappedLen
    <3> QED BY <2>1, <1>1, <3>1, <3>2, <3>3, <3>4, <3>5 DEF Wrapped
  <2> QED BY <2>1, <2>2, <2>3, <2>4, <2>5, <1>1, <1>4 DEF TabInv
<1> QED BY <1>6, <1>7

\* The last pointer is argc, and the top makes room for the vector.
LEMMA ArgsDoneInv ==
  ASSUME TabInv, load' = load, ArgsDone
  PROVE  TabInv'
<1>1. /\ tables = "argv" /\ left = 0 /\ tables' = "ptrs"
      /\ ptrs' = ptrs \o LastPtrs /\ top' = BelowAuxv(top)
      /\ left' = Len(ptrs \o LastPtrs) /\ UNCHANGED <<argvS, envS, stack_size, mem>>
  BY DEF ArgsDone
<1>2. /\ Word \in Nat /\ Word > 0 /\ top \in Int /\ stack_size \in Nat
      /\ Guard \in Nat /\ StackAt \in Nat /\ stack_limit = StackAt + Guard
      /\ Len(envS) \in Nat /\ Len(argvS) \in Nat
  BY StackAssumption DEF TabInv, stack_limit
<1>3. PICK T : ptrs \in Seq(T)
  BY DEF TabInv
<1>4. /\ ptrs \o LastPtrs \in Seq(T \cup {Len(argvS)})
      /\ Len(ptrs \o LastPtrs) = Len(ptrs) + 1 /\ Len(ptrs) \in Nat
  <2>1. ptrs \in Seq(T \cup {Len(argvS)}) /\ LastPtrs \in Seq(T \cup {Len(argvS)})
        /\ Len(LastPtrs) = 1
    BY <1>3 DEF LastPtrs
  <2>2. Len(ptrs) \in Nat
    BY <1>3
  <2> QED BY <2>1, <2>2, ConcatProperties
<1>5. Len(ptrs) = 2 + Len(envS) + Len(argvS)
  BY <1>1, <1>2 DEF TabInv, Counted
<1>6. Counted'
  BY <1>1, <1>2, <1>4, <1>5 DEF Counted, PtrsCapacity
<1>7. RoundDown(top) \in Int /\ top - Word < RoundDown(top) /\ RoundDown(top) <= top
  <2>1. top % Word \in 0 .. Word - 1
    BY <1>2
  <2> QED BY <2>1, <1>2 DEF RoundDown
<1>8. top' \in Int /\ top - 4 * Word < top' /\ top' <= top
  BY <1>1, <1>2, <1>7 DEF BelowAuxv
<1>9. Placed'
  <2> SUFFICES ASSUME stack_size + Guard < LongMod
               PROVE  /\ stack_limit - 5 * Word < top' /\ top' <= stack_limit + stack_size
                      /\ DOMAIN mem \subseteq StackBytes
    BY <1>1 DEF Placed, StackBytes
  <2>1. /\ stack_limit - Word <= top /\ top <= stack_limit + stack_size - Word
        /\ DOMAIN mem \subseteq StackBytes
    BY <1>1 DEF TabInv, Placed
  <2> QED BY <2>1, <1>2, <1>8
<1>10. Wrapped'
  <2> SUFFICES ASSUME LongMod <= stack_size + Guard PROVE Wrapped'
    BY <1>1 DEF Wrapped
  <2>1. MappedLen(stack_size) \in Int
    BY <1>2, StackAssumption DEF MappedLen
  <2>2. ~ (MappedLen(stack_size) > Word)
    BY <1>1 DEF TabInv, Wrapped
  <2>3. MappedLen(stack_size) <= Word
    BY <2>1, <2>2, <1>2
  <2>4. top <= StackAt /\ \A a \in DOMAIN mem : a < StackAt
    BY <1>1, <2>3 DEF TabInv, Wrapped
  <2>5. top' <= StackAt
    BY <2>4, <1>2, <1>8
  <2>6. MappedLen(stack_size)' = MappedLen(stack_size)
    BY <1>1 DEF MappedLen
  <2> QED BY <1>1, <2>3, <2>4, <2>5, <2>6 DEF Wrapped
<1> QED BY <1>1, <1>4, <1>6, <1>8, <1>9, <1>10 DEF TabInv, Writing

\* load_elf_binary's end.
LEMMA StackStepInv == StartupInv /\ StackStep => StartupInv'
<1> SUFFICES ASSUME NEW m, CmdInv(m), PathInv, ImgInv, TabInv, hart.sp \in Int,
                    StackStep
             PROVE  StartupInv'
  BY DEF StartupInv
<1>1. UNCHANGED <<cmdVars, pathVars, imgVars, hart>> /\ load = "done"
  BY DEF StackStep
<1>2. CmdInv(m)'
  BY <1>1 DEF CmdInv, IsVector, cmdVars
<1>3. PathInv'
  BY <1>1 DEF PathInv, pathVars, cmdVars, Terminated
<1>4. ImgInv'
  BY <1>1 DEF ImgInv, imgVars, pathVars, Phdrs
<1>5. load' = load
  BY <1>1 DEF imgVars
<1>6. TabInv'
  <2>1. CASE MapStack(BprmArgv, BprmEnvp, guest_stack_size)
    <3>1. resolve = "done" /\ guest_stack_size \in Nat /\ guest_stack_size < LongMod
      BY <1>1 DEF ImgInv, CmdInv
    <3> QED BY <2>1, <3>1, <1>1, <1>5, BprmTyped, MapStackInv
  <2>2. CASE MapStackFails
    BY <2>2, <1>1, <1>5
    DEF MapStackFails, TabInv, Writing, Counted, Placed, Wrapped, MappedLen, StackBytes
  <2>3. CASE PushEnv
    <3>1. tables = "env" /\ left > 0 /\ PushString(envS[left])
      BY <2>3 DEF PushEnv
    <3>2. envS[left].len \in Nat
      BY <3>1 DEF TabInv, Counted
    <3> QED BY <3>1, <3>2, <1>1, <1>5, PushInv
  <2>4. CASE EnvDone
    <3>1. /\ tables = "env" /\ left = 0 /\ tables' = "argv"
          /\ ptrs' = Append(ptrs, 0) /\ left' = Len(argvS)
          /\ UNCHANGED <<argvS, envS, stack_size, top, mem>>
      BY <2>4 DEF EnvDone
    <3>2. PICK T : ptrs \in Seq(T)
      BY DEF TabInv
    <3>3. ptrs' \in Seq(T \cup {0}) /\ Len(ptrs') = Len(ptrs) + 1
      <4>1. ptrs \in Seq(T \cup {0})
        BY <3>2
      <4> QED BY <3>1, <4>1
    <3>4. Counted'
      <4>1. Len(ptrs) = 1 + Len(envS)
        BY <3>1 DEF TabInv, Counted
      <4>2. Len(ptrs') = 2 + Len(envS) /\ Len(argvS) \in Nat
        BY <3>3, <4>1 DEF TabInv
      <4> QED BY <3>1, <4>2 DEF Counted, TabInv
    <3>5. Placed'
      BY <3>1 DEF TabInv, Placed, StackBytes
    <3>6. Wrapped'
      <4>1. Len(argvS) > 0
        BY <3>1 DEF TabInv
      <4> QED BY <3>1, <4>1 DEF TabInv, Wrapped, MappedLen
    <3> QED BY <3>1, <3>3, <3>4, <3>5, <3>6, <1>1, <1>5 DEF TabInv, Writing
  <2>5. CASE PushArg
    <3>1. tables = "argv" /\ left > 0 /\ PushString(argvS[left])
      BY <2>5 DEF PushArg
    <3>2. argvS[left].len \in Nat
      BY <3>1 DEF TabInv, Counted
    <3> QED BY <3>1, <3>2, <1>1, <1>5, PushInv
  <2>6. CASE ArgsDone
    BY <2>6, <1>5, ArgsDoneInv
  <2>7. CASE PushPointer
    BY <2>7, <1>5, PushPointerInv
  <2>8. CASE TablesDone
    BY <2>8, <1>5
    DEF TablesDone, TabInv, Writing, Counted, Placed, Wrapped, MappedLen, StackBytes,
        PtrsCapacity
  <2> QED BY <2>1, <2>2, <2>3, <2>4, <2>5, <2>6, <2>7, <2>8
          DEF StackStep, CreateElfTables
<1> QED BY <1>1, <1>2, <1>3, <1>4, <1>6 DEF StartupInv

-----------------------------------------------------------------------------
(***************************************************************************)
(* The invariant holds.                                                    *)
(***************************************************************************)

\* Every step keeps the invariant.
LEMMA NextInv == StartupInv /\ [Next]_vars => StartupInv'
<1> SUFFICES ASSUME StartupInv, [Next]_vars PROVE StartupInv'
  OBVIOUS
<1>1. CASE StartHart
  <2>1. UNCHANGED <<cmdVars, pathVars, imgVars, tabVars>> /\ hart'.sp = top
    BY <1>1 DEF StartHart
  <2>2. PICK m : CmdInv(m)
    BY DEF StartupInv
  <2>3. CmdInv(m)'
    BY <2>1, <2>2 DEF CmdInv, IsVector, cmdVars
  <2>4. PathInv'
    BY <2>1 DEF StartupInv, PathInv, pathVars, cmdVars, Terminated
  <2>5. ImgInv'
    BY <2>1 DEF StartupInv, ImgInv, imgVars, pathVars, Phdrs
  <2>6. TabInv' /\ top \in Int
    BY <2>1 DEF StartupInv, TabInv, tabVars, imgVars, Counted, Placed, Wrapped, MappedLen,
                PtrsCapacity, StackBytes
  <2> QED BY <2>1, <2>3, <2>4, <2>5, <2>6 DEF StartupInv
<1>2. CASE UNCHANGED vars
  <2>1. UNCHANGED <<cmdVars, pathVars, imgVars, tabVars, hart>>
    BY <1>2 DEF vars
  <2>2. PICK m : CmdInv(m)
    BY DEF StartupInv
  <2>3. CmdInv(m)'
    BY <2>1, <2>2 DEF CmdInv, IsVector, cmdVars
  <2>4. PathInv'
    BY <2>1 DEF StartupInv, PathInv, pathVars, cmdVars, Terminated
  <2>5. ImgInv'
    BY <2>1 DEF StartupInv, ImgInv, imgVars, pathVars, Phdrs
  <2>6. TabInv'
    BY <2>1 DEF StartupInv, TabInv, tabVars, imgVars, Counted, Placed, Wrapped, MappedLen,
                PtrsCapacity, StackBytes
  <2> QED BY <2>1, <2>3, <2>4, <2>5, <2>6 DEF StartupInv
<1> QED BY <1>1, <1>2, ParseInv, PathStepInv, LoadStepInv, StackStepInv
        DEF Next, Step, Started

\* The invariant holds throughout.
THEOREM StartupInvariant == Spec => []StartupInv
<1> QED BY InitInv, NextInv, PTL DEF Spec

-----------------------------------------------------------------------------
(***************************************************************************)
(* The content of the image.                                               *)
(***************************************************************************)

\* The greatest and the lowest of finitely many integers.
LEMMA Extremes ==
  ASSUME NEW N \in Nat, NEW f, \A j \in 1 .. N : f[j] \in Int,
         NEW L, L \subseteq 1 .. N, L # {}
  PROVE  /\ \E m \in L : Greatest({f[j] : j \in L}) = f[m]
         /\ \E m \in L : Lowest({f[j] : j \in L}) = f[m]
         /\ \A j \in L : f[j] <= Greatest({f[h] : h \in L})
         /\ \A j \in L : Lowest({f[h] : h \in L}) <= f[j]
<1> DEFINE S == {f[j] : j \in L}
           g == [j \in 1 .. N |-> - f[j]]
<1>1. PICK m \in L : \A j \in L : f[j] <= f[m]
  BY Attained
<1>2. \E h \in L : \A j \in L : g[j] <= g[h]
  <2>1. \A j \in 1 .. N : g[j] \in Int
    OBVIOUS
  <2> HIDE DEF g
  <2> QED BY <2>1, Attained
<1>3. PICK l \in L : \A j \in L : g[j] <= g[l]
  BY <1>2
<1>4. \A j \in L : f[l] <= f[j]
  <2> TAKE j \in L
  <2>1. j \in 1 .. N /\ l \in 1 .. N /\ g[j] <= g[l]
    BY <1>3
  <2>2. g[j] = - f[j] /\ g[l] = - f[l] /\ f[j] \in Int /\ f[l] \in Int
    BY <2>1
  <2> QED BY ONLY <2>1, <2>2
<1>5. f[m] \in S /\ \A y \in S : f[m] >= y
  BY <1>1
<1>6. f[l] \in S /\ \A y \in S : f[l] <= y
  BY <1>4
<1> HIDE DEF S
<1>7. Greatest(S) \in S /\ \A y \in S : Greatest(S) >= y
  BY <1>5 DEF Greatest
<1>8. Lowest(S) \in S /\ \A y \in S : Lowest(S) <= y
  BY <1>6 DEF Lowest
<1>9. \A j \in L : f[j] \in S
  BY DEF S
<1>10. \A x \in S : \E h \in L : x = f[h]
  BY DEF S
<1>11. \A j \in L : f[j] <= Greatest(S) /\ Lowest(S) <= f[j]
  BY <1>7, <1>8, <1>9
<1> QED BY <1>7, <1>8, <1>10, <1>11 DEF S

\* Rounding to pages.
LEMMA Rounding ==
  ASSUME PageSize \in Nat \ {0}
  PROVE  /\ \A a \in Int : AlignUp(a) \in Int /\ a <= AlignUp(a)
         /\ \A a, b \in Int : a <= b => AlignUp(a) <= AlignUp(b)
         /\ \A a \in Int : /\ PageStart(a) \in Int /\ PageOffset(a) \in Int
                           /\ PageStart(a) <= a
                           /\ PageStart(a) + PageOffset(a) = a
<1> DEFINE P == PageSize
<1>0. P \in Nat /\ P > 0
  OBVIOUS
<1> HIDE DEF P
<1>1. ASSUME NEW a \in Int
      PROVE  /\ a \div P \in Int /\ a % P \in 0 .. P - 1
             /\ a = P * (a \div P) + (a % P)
  BY <1>0
<1>2. ASSUME NEW a \in Int
      PROVE  /\ AlignUp(a) \in Int /\ a <= AlignUp(a)
             /\ AlignUp(a) = P * ((a + P - 1) \div P) /\ AlignUp(a) < a + P
  <2> DEFINE q == (a + P - 1) \div P   r == (a + P - 1) % P
  <2>1. q \in Int /\ r \in 0 .. P - 1 /\ a + P - 1 = P * q + r
    <3>1. a + P - 1 \in Int
      BY <1>0
    <3> QED BY <3>1, <1>1
  <2>2. AlignUp(a) = q * P
    BY DEF AlignUp, P
  <2> HIDE DEF q, r
  <2>3. q * P = P * q /\ P * q \in Int
    BY <2>1, <1>0
  <2>4. AlignUp(a) = P * q
    BY <2>2, <2>3
  <2>5. P * q \in Int /\ a <= P * q /\ P * q < a + P
    BY <2>1, <2>3, <1>0
  <2> QED BY <2>4, <2>5 DEF q
<1>3. ASSUME NEW a \in Int, NEW b \in Int, a <= b
      PROVE  AlignUp(a) <= AlignUp(b)
  <2> DEFINE q == (a + P - 1) \div P   s == (b + P - 1) \div P
  <2>1. q \in Int /\ s \in Int
    <3>1. a + P - 1 \in Int /\ b + P - 1 \in Int
      BY <1>0
    <3> QED BY <3>1, <1>1
  <2>2. AlignUp(a) = P * q /\ AlignUp(a) < a + P /\ AlignUp(a) \in Int
    BY <1>2
  <2>3. AlignUp(b) = P * s /\ b <= AlignUp(b) /\ AlignUp(b) \in Int
    BY <1>2
  <2> HIDE DEF q, s
  <2>4. CASE s < q
    <3>1. P * (s + 1) <= P * q
      BY <2>1, <2>4, <1>0
    <3>2. P * (s + 1) = P * s + P
      BY <2>1, <1>0
    <3>3. AlignUp(b) + P <= AlignUp(a)
      BY ONLY <3>1, <3>2, <2>2, <2>3
    <3> QED BY ONLY <3>3, <2>2, <2>3, <1>0, a <= b, a \in Int, b \in Int
  <2>5. CASE ~ (s < q)
    <3>1. P * q <= P * s
      BY <2>1, <2>5, <1>0
    <3> QED BY <3>1, <2>2, <2>3
  <2> QED BY <2>4, <2>5
<1>4. ASSUME NEW a \in Int
      PROVE  /\ PageStart(a) \in Int /\ PageOffset(a) \in Int /\ PageStart(a) <= a
             /\ PageStart(a) + PageOffset(a) = a
  <2>1. PageOffset(a) = a % P
    BY DEF PageOffset, P
  <2>2. PageOffset(a) \in 0 .. P - 1
    BY <2>1, <1>1
  <2> QED BY <2>2, <1>0 DEF PageStart
<1>5. \A a \in Int : AlignUp(a) \in Int /\ a <= AlignUp(a)
  BY <1>2, Zenon
<1>6. \A a, b \in Int : a <= b => AlignUp(a) <= AlignUp(b)
  BY <1>3, Zenon
<1>7. \A a \in Int : /\ PageStart(a) \in Int /\ PageOffset(a) \in Int
                     /\ PageStart(a) <= a
                     /\ PageStart(a) + PageOffset(a) = a
  BY <1>4, Zenon
<1> QED BY <1>5, <1>6, <1>7, Zenon

\* What the bounds are of: the entries seen so far.
BoundsInv ==
  /\ bounds.brk \in Nat /\ bounds.end_data \in Nat /\ bounds.end_code \in Nat
  /\ bounds.end_code <= bounds.end_data
  /\ bounds.end_data <= bounds.brk
  /\ \A j \in Loads : j <= nseg => MemEnd(Phdrs[j]) <= bounds.brk
  /\ bounds.brk = 0 \/ \E j \in Loads : bounds.brk = MemEnd(Phdrs[j])

\* No segment mapped since then covers the byte.
KeptSoFar(j, a) ==
  \A h \in Loads : h > j /\ h <= nseg => a \notin Covered(Phdrs[h])

\* ImageIsTheFile for one byte of one segment.
SegmentByte(e, a) ==
  /\ byte[a] = IF a < FileEnd(e) THEN e.p_offset + (a - Start(e)) ELSE Zero
  /\ prot[a] = ProtOf(e)

SegmentsInv ==
  \A j \in Loads : j <= nseg =>
    \A a \in Start(Phdrs[j]) .. MemEnd(Phdrs[j]) - 1 :
      KeptSoFar(j, a) => SegmentByte(Phdrs[j], a)

RangeInv ==
  load \in {"segments", "heap", "done"} =>
    Loads # {} /\ DOMAIN byte = loaddr .. AlignUp(hiaddr + 1) - 1

HeapInv ==
  load = "done" => \A a \in HeapBytes : byte[a] = Zero /\ prot[a] = {"R", "W"}

ContentInv ==
  /\ load = "idle" => nseg = 0
  /\ load \in {"heap", "done"} => nseg = Len(Phdrs)
  /\ RangeInv
  /\ Sized(image) => HeapInv
  /\ Sized(image) => BoundsInv
  /\ Sized(image) /\ Whole(image) /\ load \in {"segments", "heap", "done"} => SegmentsInv

\* An entry of a file has its fields.
LEMMA EntryTyped ==
  ASSUME image \in Images, NEW j \in 1 .. Len(Phdrs)
  PROVE  /\ Phdrs[j] \in Phdr
         /\ Start(Phdrs[j]) \in Nat /\ FileEnd(Phdrs[j]) \in Nat
         /\ MemEnd(Phdrs[j]) \in Nat
         /\ Phdrs[j].p_offset \in Nat /\ Phdrs[j].p_filesz \in Nat
         /\ Phdrs[j].p_memsz \in Nat /\ Phdrs[j].p_vaddr \in Nat
<1>1. image.phdrs \in Seq(Phdr)
  BY ImagesAssumption DEF Image
<1>2. Phdrs[j] \in Phdr
  BY <1>1 DEF Phdrs
<1> QED BY <1>2 DEF Phdr, Start, FileEnd, MemEnd

\* The premises, for one entry.
LEMMA EntrySized ==
  ASSUME image \in Images, NEW j \in Loads
  PROVE  /\ Sized(image) => FileEnd(Phdrs[j]) <= MemEnd(Phdrs[j])
         /\ Sized(image) => Phdrs[j].p_filesz <= Phdrs[j].p_memsz
         /\ Whole(image) => Phdrs[j].p_offset + Phdrs[j].p_filesz <= image.size
<1>1. j \in 1 .. Len(Phdrs) /\ Phdrs[j].p_type = "load"
  BY DEF Loads
<1>2. Phdrs[j] \in LoadEntries(image)
  BY <1>1 DEF LoadEntries, Phdrs
<1>3. /\ Sized(image) => Phdrs[j].p_filesz <= Phdrs[j].p_memsz
      /\ Whole(image) => Phdrs[j].p_offset + Phdrs[j].p_filesz <= image.size
  BY <1>2 DEF Sized, Whole
<1> QED BY <1>1, <1>3, EntryTyped DEF FileEnd, MemEnd

\* The reserved range holds every segment, and the reserve behind the last.
LEMMA RangeHolds ==
  ASSUME image \in Images, Loads # {}
  PROVE  /\ loaddr \in Int /\ hiaddr \in Int
         /\ \A j \in Loads : /\ loaddr <= Start(Phdrs[j])
                             /\ MemEnd(Phdrs[j]) + HeapReserve <= hiaddr + 1
         /\ \E j \in Loads : hiaddr + 1 = MemEnd(Phdrs[j]) + HeapReserve
<1> DEFINE N == Len(Phdrs)
           f == [j \in 1 .. N |-> MemEnd(Phdrs[j]) - 1]
           g == [j \in 1 .. N |-> Phdrs[j].p_vaddr - Phdrs[j].p_offset]
<1>1. N \in Nat
  <2>1. image.phdrs \in Seq(Phdr)
    BY ImagesAssumption DEF Image
  <2> QED BY <2>1 DEF Phdrs
<1>2. \A j \in 1 .. N : f[j] \in Int /\ f[j] = MemEnd(Phdrs[j]) - 1
  BY EntryTyped
<1>3. \A j \in 1 .. N : /\ g[j] \in Int /\ g[j] <= Start(Phdrs[j])
                        /\ g[j] = Phdrs[j].p_vaddr - Phdrs[j].p_offset
  BY EntryTyped DEF Start
<1>4. Loads \subseteq 1 .. N
  BY DEF Loads
<1>5. \A j \in 1 .. N : MemEnd(Phdrs[j]) \in Nat /\ Start(Phdrs[j]) \in Nat
  BY EntryTyped
<1>6. HeapReserve \in Nat
  BY ImagesAssumption
<1> HIDE DEF f, g, N
<1>7. {MemEnd(Phdrs[j]) - 1 : j \in Loads} = {f[j] : j \in Loads}
  BY <1>2, <1>4
<1>8. {Phdrs[j].p_vaddr - Phdrs[j].p_offset : j \in Loads} = {g[j] : j \in Loads}
  BY <1>3, <1>4
<1>9. /\ \E m \in Loads : Greatest({f[j] : j \in Loads}) = f[m]
      /\ \A j \in Loads : f[j] <= Greatest({f[h] : h \in Loads})
  BY ONLY <1>1, <1>2, <1>4, Loads # {}, Extremes
<1>10. /\ \E m \in Loads : Lowest({g[j] : j \in Loads}) = g[m]
       /\ \A j \in Loads : Lowest({g[h] : h \in Loads}) <= g[j]
  BY ONLY <1>1, <1>3, <1>4, Loads # {}, Extremes
<1>11. hiaddr = Greatest({f[j] : j \in Loads}) + HeapReserve
  BY <1>7 DEF hiaddr
<1>12. loaddr = Lowest({g[j] : j \in Loads})
  BY <1>8 DEF loaddr
<1> DEFINE G == Greatest({f[j] : j \in Loads})
<1>13. G \in Int /\ \A j \in Loads : MemEnd(Phdrs[j]) - 1 <= G
  BY <1>2, <1>4, <1>9
<1>14. \E m \in Loads : G = MemEnd(Phdrs[m]) - 1
  BY <1>2, <1>4, <1>9
<1>15. hiaddr = G + HeapReserve
  BY <1>11
<1> HIDE DEF G
<1>16. hiaddr \in Int
  BY <1>6, <1>13, <1>15
<1>17. ASSUME NEW j \in Loads PROVE MemEnd(Phdrs[j]) + HeapReserve <= hiaddr + 1
  BY <1>4, <1>5, <1>6, <1>13, <1>15
<1>18. \E j \in Loads : hiaddr + 1 = MemEnd(Phdrs[j]) + HeapReserve
  <2>1. PICK m \in Loads : G = MemEnd(Phdrs[m]) - 1
    BY <1>14
  <2>2. hiaddr + 1 = MemEnd(Phdrs[m]) + HeapReserve
    BY <2>1, <1>4, <1>5, <1>6, <1>15
  <2> QED BY <2>2
<1>19. loaddr \in Int
  BY <1>3, <1>4, <1>10, <1>12
<1>20. ASSUME NEW j \in Loads PROVE loaddr <= Start(Phdrs[j])
  <2>1. g[j] \in Int /\ g[j] <= Start(Phdrs[j]) /\ Start(Phdrs[j]) \in Nat
    BY <1>3, <1>4, <1>5
  <2>2. loaddr <= g[j]
    BY <1>10, <1>12
  <2> QED BY <2>1, <2>2, <1>19
<1> QED BY <1>16, <1>17, <1>18, <1>19, <1>20

\* The pages of a segment as numbers.
LEMMA CoveredIs ==
  ASSUME image \in Images, NEW e \in {Phdrs[j] : j \in 1 .. Len(Phdrs)}
  PROVE  /\ Covered(e) = PageStart(Start(e)) .. AlignUp(MemEnd(e)) - 1
         /\ FilePages(e) = PageStart(Start(e)) .. AlignUp(FileEnd(e)) - 1
         /\ PageStart(Start(e)) \in Int /\ PageStart(Start(e)) <= Start(e)
         /\ AlignUp(MemEnd(e)) \in Int /\ MemEnd(e) <= AlignUp(MemEnd(e))
         /\ AlignUp(FileEnd(e)) \in Int /\ FileEnd(e) <= AlignUp(FileEnd(e))
<1>1. /\ Start(e) \in Nat /\ FileEnd(e) \in Nat /\ MemEnd(e) \in Nat
      /\ e.p_filesz \in Nat /\ e.p_memsz \in Nat
  BY EntryTyped
<1>2. FileEnd(e) = Start(e) + e.p_filesz /\ MemEnd(e) = Start(e) + e.p_memsz
  BY DEF FileEnd, MemEnd, Start
<1>3. PageSize \in Nat \ {0}
  BY ImagesAssumption
<1>4. /\ PageStart(Start(e)) \in Int /\ PageOffset(Start(e)) \in Int
      /\ PageStart(Start(e)) <= Start(e)
      /\ PageStart(Start(e)) + PageOffset(Start(e)) = Start(e)
  BY <1>1, <1>3, Rounding
<1>5. /\ AlignUp(MemEnd(e)) \in Int /\ MemEnd(e) <= AlignUp(MemEnd(e))
      /\ AlignUp(FileEnd(e)) \in Int /\ FileEnd(e) <= AlignUp(FileEnd(e))
  BY <1>1, <1>3, Rounding
<1>6. /\ PageStart(Start(e)) + (PageOffset(Start(e)) + e.p_memsz) = MemEnd(e)
      /\ PageStart(Start(e)) + (PageOffset(Start(e)) + e.p_filesz) = FileEnd(e)
  <2> DEFINE x == PageStart(Start(e))  y == PageOffset(Start(e))
             f == e.p_filesz  m == e.p_memsz  s == Start(e)
             fe == FileEnd(e)  me == MemEnd(e)
  <2>1. /\ x \in Int /\ y \in Int /\ f \in Int /\ m \in Int /\ s \in Int
        /\ x + y = s /\ fe = s + f /\ me = s + m
    BY <1>1, <1>2, <1>4
  <2> HIDE DEF x, y, f, m, s, fe, me
  <2>2. x + (y + m) = me /\ x + (y + f) = fe
    BY ONLY <2>1
  <2> QED BY ONLY <2>2 DEF x, y, f, m, fe, me
<1>7. /\ Covered(e) = PageStart(Start(e)) .. AlignUp(MemEnd(e)) - 1
      /\ FilePages(e) = PageStart(Start(e)) .. AlignUp(FileEnd(e)) - 1
  BY <1>6 DEF Covered, FilePages, Pages
<1> QED BY <1>4, <1>5, <1>7

\* The bytes the new mapping leaves alone.
LEMMA OtherBytes ==
  ASSUME image \in Images, Sized(image), DOMAIN byte = DOMAIN prot,
         NEW j \in Loads, MapPhdr(Phdrs[j]),
         NEW a \in DOMAIN byte, a \in Int, a \notin Covered(Phdrs[j])
  PROVE  byte'[a] = byte[a] /\ prot'[a] = prot[a]
<1> DEFINE e == Phdrs[j]
<1>1. j \in 1 .. Len(Phdrs)
  BY DEF Loads
<1>2. /\ Start(e) \in Nat /\ FileEnd(e) \in Nat /\ MemEnd(e) \in Nat
      /\ FileEnd(e) <= MemEnd(e)
  BY <1>1, EntryTyped, EntrySized
<1>3. /\ Covered(e) = PageStart(Start(e)) .. AlignUp(MemEnd(e)) - 1
      /\ FilePages(e) = PageStart(Start(e)) .. AlignUp(FileEnd(e)) - 1
      /\ PageStart(Start(e)) \in Int /\ PageStart(Start(e)) <= Start(e)
      /\ AlignUp(MemEnd(e)) \in Int /\ MemEnd(e) <= AlignUp(MemEnd(e))
      /\ AlignUp(FileEnd(e)) \in Int /\ FileEnd(e) <= AlignUp(FileEnd(e))
  BY <1>1, CoveredIs
<1>3a. Start(e) <= FileEnd(e)
  BY <1>1, EntryTyped DEF Start, FileEnd
<1>4. MapPhdr(e) /\ a \notin Covered(e)
  OBVIOUS
<1> HIDE DEF e
<1>5. AlignUp(FileEnd(e)) <= AlignUp(MemEnd(e))
  <2>1. PageSize \in Nat \ {0}
    BY ImagesAssumption
  <2> QED BY <1>2, <2>1, Rounding
<1>6. a \notin FilePages(e) /\ a \notin BssPages(e) /\ a \notin BssTail(e)
  BY <1>2, <1>3, <1>3a, <1>4, <1>5 DEF BssPages, BssTail
<1>7. a \notin Pages(Start(e), PageOffset(Start(e)) + e.p_memsz)
  BY <1>4 DEF Covered
<1>8. CASE byte' = WithFile(e) /\ prot' = Protected(FilePages(e) \cup
                               IF HasBss(e) THEN BssPages(e) ELSE {},
                             ProtOf(e))
  BY <1>6, <1>8 DEF WithFile, Protected
<1>9. CASE byte' = WithoutFile(e)
           /\ prot' = Protected(Pages(Start(e), PageOffset(Start(e)) + e.p_memsz),
                                ProtOf(e))
  BY <1>7, <1>9 DEF WithoutFile, Protected
<1> QED BY <1>4, <1>8, <1>9 DEF MapPhdr

\* The bytes of the segment that has just been mapped.
LEMMA OwnBytes ==
  ASSUME image \in Images, Sized(image), Whole(image), DOMAIN byte = DOMAIN prot,
         NEW j \in Loads, MapPhdr(Phdrs[j]),
         NEW a \in Start(Phdrs[j]) .. MemEnd(Phdrs[j]) - 1, a \in DOMAIN byte
  PROVE  SegmentByte(Phdrs[j], a)'
<1> DEFINE e == Phdrs[j]
<1>0. image' = image /\ Phdrs' = Phdrs
  BY DEF MapPhdr, Phdrs
<1>1. j \in 1 .. Len(Phdrs)
  BY DEF Loads
<1>2. /\ Start(e) \in Nat /\ FileEnd(e) \in Nat /\ MemEnd(e) \in Nat
      /\ FileEnd(e) <= MemEnd(e) /\ e.p_offset \in Nat
      /\ e.p_filesz \in Nat /\ e.p_memsz \in Nat
      /\ e.p_offset + e.p_filesz <= image.size
  BY <1>1, EntryTyped, EntrySized
<1>3. FileEnd(e) = Start(e) + e.p_filesz /\ MemEnd(e) = Start(e) + e.p_memsz
  BY DEF FileEnd, MemEnd, Start
<1>4. /\ Covered(e) = PageStart(Start(e)) .. AlignUp(MemEnd(e)) - 1
      /\ FilePages(e) = PageStart(Start(e)) .. AlignUp(FileEnd(e)) - 1
      /\ PageStart(Start(e)) \in Int /\ PageStart(Start(e)) <= Start(e)
      /\ AlignUp(MemEnd(e)) \in Int /\ MemEnd(e) <= AlignUp(MemEnd(e))
      /\ AlignUp(FileEnd(e)) \in Int /\ FileEnd(e) <= AlignUp(FileEnd(e))
  BY <1>1, CoveredIs
<1>5. MapPhdr(e) /\ a \in Start(e) .. MemEnd(e) - 1
  OBVIOUS
<1>6. a \in Int /\ Start(e) <= a /\ a < MemEnd(e)
  BY <1>2, <1>5
<1>7. image.size \in Nat
  BY ImagesAssumption DEF Image
<1> SUFFICES /\ byte'[a] = IF a < FileEnd(e) THEN e.p_offset + (a - Start(e)) ELSE Zero
             /\ prot'[a] = ProtOf(e)
  BY <1>0 DEF SegmentByte
<1> HIDE DEF e
<1>8. a \in Covered(e)
  BY <1>4, <1>6, <1>2
<1>9. CASE e.p_filesz # 0 /\ byte' = WithFile(e)
           /\ prot' = Protected(FilePages(e) \cup
                               IF HasBss(e) THEN BssPages(e) ELSE {},
                             ProtOf(e))
  <2>1. CASE a < FileEnd(e)
    <3>1. a \in FilePages(e) /\ a \notin BssPages(e) \cup BssTail(e)
      BY <2>1, <1>2, <1>4, <1>6 DEF BssPages, BssTail
    <3>2. byte'[a] = FileByte(e.p_offset + (a - Start(e)))
      BY <3>1, <1>9 DEF WithFile
    <3>3. FileByte(e.p_offset + (a - Start(e))) = e.p_offset + (a - Start(e))
      <4>1. e.p_offset + (a - Start(e)) < image.size
        BY <2>1, <1>2, <1>3, <1>6, <1>7
      <4> QED BY <4>1 DEF FileByte
    <3>4. prot'[a] = ProtOf(e)
      BY <3>1, <1>9 DEF Protected
    <3> QED BY <2>1, <3>2, <3>3, <3>4
  <2>2. CASE ~ (a < FileEnd(e))
    <3>1. HasBss(e)
      BY <2>2, <1>2, <1>3, <1>6 DEF HasBss
    <3>2. a \in BssPages(e) \cup BssTail(e)
      BY <2>2, <1>2, <1>4, <1>6 DEF BssPages, BssTail
    <3>3. byte'[a] = Zero
      BY <3>1, <3>2, <1>9 DEF WithFile
    <3>4. a \in FilePages(e) \cup BssPages(e)
      BY <2>2, <1>2, <1>4, <1>6 DEF BssPages
    <3>5. prot'[a] = ProtOf(e)
      BY <3>1, <3>4, <1>9 DEF Protected
    <3> QED BY <2>2, <3>3, <3>5
  <2> QED BY <2>1, <2>2
<1>10. CASE e.p_filesz = 0 /\ byte' = WithoutFile(e)
            /\ prot' = Protected(Pages(Start(e), PageOffset(Start(e)) + e.p_memsz),
                                 ProtOf(e))
  <2>1. a \in Pages(Start(e), PageOffset(Start(e)) + e.p_memsz)
    BY <1>8 DEF Covered
  <2>2. byte'[a] = Zero /\ prot'[a] = ProtOf(e)
    BY <2>1, <1>10 DEF WithoutFile, Protected
  <2>3. ~ (a < FileEnd(e))
    BY <1>2, <1>3, <1>6, <1>10
  <2> QED BY <2>2, <2>3
<1>11. CASE e.p_memsz = 0
  BY <1>2, <1>3, <1>6, <1>11
<1> QED BY <1>5, <1>9, <1>10, <1>11 DEF MapPhdr

\* One entry more.
LEMMA MapPhdrContent ==
  ASSUME ImgInv, ContentInv, NEW e \in {Phdrs[j] : j \in 1 .. Len(Phdrs)}, MapPhdr(e)
  PROVE  ContentInv'
<1> DEFINE n == nseg + 1
<1>1. /\ load = "segments" /\ nseg < Len(Phdrs) /\ e = Phdrs[n] /\ e.p_type = "load"
      /\ image' = image
  BY DEF MapPhdr, AtPhdr
<1>2. /\ image \in Images /\ nseg \in Nat /\ Len(Phdrs) \in Nat
      /\ DOMAIN byte = DOMAIN prot
  <2>1. image.phdrs \in Seq(Phdr)
    BY ImagesAssumption DEF ImgInv, Image
  <2> QED BY <2>1 DEF ImgInv, Phdrs
<1>3. /\ Phdrs' = Phdrs /\ Loads' = Loads /\ loaddr' = loaddr /\ hiaddr' = hiaddr
      /\ Sized(image)' = Sized(image) /\ Whole(image)' = Whole(image)
  BY <1>1 DEF Phdrs, Loads, loaddr, hiaddr
<1>4. n \in Loads /\ n \in 1 .. Len(Phdrs)
  BY <1>1, <1>2 DEF Loads
<1>5. DOMAIN byte' = DOMAIN byte
  BY DEF MapPhdr, WithFile, WithoutFile
<1>6. RangeInv /\ (Sized(image) => BoundsInv)
  BY DEF ContentInv
<1>7. RangeInv'
  BY <1>1, <1>3, <1>5, <1>6 DEF RangeInv
<1>8. CASE load' = "failed" /\ UNCHANGED <<nseg, bounds>>
  <2>1. (Sized(image) => BoundsInv)'
    BY <1>3, <1>6, <1>8 DEF BoundsInv
  <2> QED BY <2>1, <1>7, <1>8 DEF ContentInv, HeapInv
<1>9. CASE load' = load /\ nseg' = n /\ bounds' = Bounded(e)
  <2>1. HeapInv'
    BY <1>1, <1>9 DEF HeapInv
  <2>2. ASSUME Sized(image) PROVE BoundsInv'
    <3>1. /\ FileEnd(e) \in Nat /\ MemEnd(e) \in Nat /\ FileEnd(e) <= MemEnd(e)
      BY <2>2, <1>1, <1>2, <1>4, EntryTyped, EntrySized
    <3>2. BoundsInv
      BY <2>2, <1>6
    <3>3. /\ bounds'.brk = IF MemEnd(e) > bounds.brk THEN MemEnd(e) ELSE bounds.brk
          /\ bounds'.end_data = IF FileEnd(e) > bounds.end_data THEN FileEnd(e)
                                ELSE bounds.end_data
          /\ bounds'.end_code = IF "X" \in ProtOf(e)
                                THEN IF FileEnd(e) > bounds.end_code THEN FileEnd(e)
                                     ELSE bounds.end_code
                                ELSE bounds.end_code
      BY <1>9 DEF Bounded, BrkOf
    <3>4. /\ bounds'.brk \in Nat /\ bounds'.end_data \in Nat /\ bounds'.end_code \in Nat
          /\ bounds'.end_code <= bounds'.end_data
          /\ bounds'.end_data <= bounds'.brk
          /\ bounds.brk <= bounds'.brk /\ MemEnd(e) <= bounds'.brk
      BY <3>1, <3>2, <3>3 DEF BoundsInv
    <3>5. ASSUME NEW j \in Loads, j <= n PROVE MemEnd(Phdrs[j]) <= bounds'.brk
      <4>1. j \in 1 .. Len(Phdrs) /\ MemEnd(Phdrs[j]) \in Nat
        BY <1>2, EntryTyped DEF Loads
      <4>2. CASE j = n
        BY <4>2, <3>4, <1>1
      <4>3. CASE j # n
        <5>1. j <= nseg
          BY <3>5, <4>1, <4>3, <1>2
        <5>2. MemEnd(Phdrs[j]) <= bounds.brk
          BY <5>1, <3>2 DEF BoundsInv
        <5> QED BY <5>2, <4>1, <3>2, <3>4 DEF BoundsInv
      <4> QED BY <4>2, <4>3
    <3>6. bounds'.brk = 0 \/ \E j \in Loads : bounds'.brk = MemEnd(Phdrs[j])
      <4>1. CASE bounds'.brk = bounds.brk
        BY <4>1, <3>2 DEF BoundsInv
      <4>2. CASE bounds'.brk = MemEnd(e)
        BY <4>2, <1>1, <1>4
      <4> QED BY <4>1, <4>2, <3>3
    <3> HIDE DEF n
    <3> QED BY <3>4, <3>5, <3>6, <1>3, <1>9 DEF BoundsInv
  <2>3. ASSUME Sized(image), Whole(image) PROVE SegmentsInv'
    <3>1. SegmentsInv
      BY <2>3, <1>1 DEF ContentInv
    <3>2. DOMAIN byte = loaddr .. AlignUp(hiaddr + 1) - 1 /\ Loads # {}
      BY <1>1, <1>6 DEF RangeInv
    <3> SUFFICES ASSUME NEW j \in Loads, j <= n,
                        NEW a \in Start(Phdrs[j]) .. MemEnd(Phdrs[j]) - 1,
                        KeptSoFar(j, a)'
                 PROVE  SegmentByte(Phdrs[j], a)'
      BY <1>3, <1>9 DEF SegmentsInv
    <3>3. /\ j \in 1 .. Len(Phdrs) /\ Start(Phdrs[j]) \in Nat /\ MemEnd(Phdrs[j]) \in Nat
      BY <1>2, EntryTyped DEF Loads
    <3>4. a \in Int /\ Start(Phdrs[j]) <= a /\ a < MemEnd(Phdrs[j])
      BY <3>3
    <3>5. a \in DOMAIN byte
      <4>1. /\ loaddr \in Int /\ hiaddr \in Int /\ loaddr <= Start(Phdrs[j])
            /\ MemEnd(Phdrs[j]) + HeapReserve <= hiaddr + 1
        BY <3>2, <1>2, RangeHolds
      <4>2. HeapReserve \in Nat /\ PageSize \in Nat \ {0}
        BY ImagesAssumption
      <4>3. AlignUp(hiaddr + 1) \in Int /\ hiaddr + 1 <= AlignUp(hiaddr + 1)
        <5>1. hiaddr + 1 \in Int
          BY <4>1
        <5> QED BY <5>1, <4>2, Rounding
      <4> QED BY <4>1, <4>2, <4>3, <3>2, <3>3, <3>4
    <3>6. CASE j = n
      BY <3>5, <3>6, <2>3, <1>1, <1>2, <1>4, OwnBytes
    <3>7. CASE j # n
      <4>1. j <= nseg
        BY <3>3, <3>7, <1>2
      <4>2. \A h \in Loads : h > j /\ h <= n => a \notin Covered(Phdrs[h])
        BY <1>3, <1>9 DEF KeptSoFar
      <4>3. KeptSoFar(j, a)
        <5>1. \A h \in Loads : h <= nseg => h <= n
          BY <1>2 DEF Loads
        <5> HIDE DEF n
        <5> QED BY <4>2, <5>1 DEF KeptSoFar
      <4>4. SegmentByte(Phdrs[j], a)
        BY <3>1, <4>1, <4>3 DEF SegmentsInv
      <4>5. n > j /\ n <= n
        BY <4>1, <3>3, <1>2
      <4>6. a \notin Covered(Phdrs[n])
        BY <4>2, <4>5, <1>4
      <4>7. byte'[a] = byte[a] /\ prot'[a] = prot[a]
        BY <4>6, <3>4, <3>5, <2>3, <1>1, <1>2, <1>4, OtherBytes
      <4> QED BY <4>4, <4>7, <1>3 DEF SegmentByte
    <3> QED BY <3>6, <3>7
  <2> QED BY <2>1, <2>2, <2>3, <1>1, <1>3, <1>7, <1>9 DEF ContentInv
<1> QED BY <1>8, <1>9 DEF MapPhdr

\* No entry has been seen in the initial states.
LEMMA ContentInit == ASSUME Init PROVE ContentInv
<1>1. /\ load = "idle" /\ nseg = 0
      /\ bounds.brk = 0 /\ bounds.end_code = 0 /\ bounds.end_data = 0
  BY DEF Init, ImgInit
<1>2. \A j \in Loads : ~ (j <= nseg)
  BY <1>1 DEF Loads
<1> QED BY <1>1, <1>2 DEF ContentInv, RangeInv, HeapInv, BoundsInv

\* A step of load_elf_binary.
LEMMA LoadContent ==
  ASSUME ImgInv, ContentInv, ElfLoad
  PROVE  ContentInv'
<1>1. image' = image
  BY DEF ElfLoad, ReserveRange, LoadFails, SkipPhdr, KilledInTail, MapPhdr,
         MapPhdrFails, PhdrsDone, MapHeapBytes, HeapBytesFail, Fail
<1>2. /\ image \in Images /\ nseg \in Nat /\ Len(Phdrs) \in Nat
      /\ nseg <= Len(Phdrs) /\ DOMAIN byte = DOMAIN prot
  <2>1. image.phdrs \in Seq(Phdr)
    BY ImagesAssumption DEF ImgInv, Image
  <2> QED BY <2>1 DEF ImgInv, Phdrs
<1>3. /\ Phdrs' = Phdrs /\ Loads' = Loads /\ loaddr' = loaddr /\ hiaddr' = hiaddr
      /\ Sized(image)' = Sized(image) /\ Whole(image)' = Whole(image)
  BY <1>1 DEF Phdrs, Loads, loaddr, hiaddr
<1>4. CASE load' \in {"failed", "killed"} /\ UNCHANGED <<nseg, byte, prot, bounds>>
  <2>1. (Sized(image) => BoundsInv)'
    BY <1>3, <1>4 DEF BoundsInv, ContentInv
  <2> QED BY <2>1, <1>4 DEF ContentInv, RangeInv, HeapInv
<1>5. CASE ReserveRange
  <2>1. /\ load = "idle" /\ load' = "segments" /\ nseg = 0 /\ nseg' = 0
        /\ Loads # {} /\ bounds' = bounds
        /\ DOMAIN byte' = loaddr .. AlignUp(hiaddr + 1) - 1
    BY <1>5 DEF ReserveRange, ContentInv
  <2>2. RangeInv'
    BY <2>1, <1>3 DEF RangeInv
  <2>3. (Sized(image) => BoundsInv)'
    BY <2>1, <1>3 DEF BoundsInv, ContentInv
  <2>4. SegmentsInv'
    <3>1. \A j \in Loads : ~ (j <= 0)
      BY DEF Loads
    <3> QED BY <3>1, <2>1, <1>3 DEF SegmentsInv
  <2> QED BY <2>1, <2>2, <2>3, <2>4 DEF ContentInv, HeapInv
<1>6. ASSUME NEW e, SkipPhdr(e) PROVE ContentInv'
  <2>1. /\ load = "segments" /\ load' = load /\ nseg' = nseg + 1
        /\ e = Phdrs[nseg + 1] /\ e.p_type # "load"
        /\ UNCHANGED <<byte, prot, bounds>>
    BY <1>6 DEF SkipPhdr, AtPhdr
  <2>2. \A j \in Loads : j <= nseg + 1 => j <= nseg
    <3>1. \A j \in Loads : j \in Nat /\ j # nseg + 1
      BY <2>1 DEF Loads
    <3> QED BY <3>1, <1>2
  <2>3. RangeInv'
    BY <2>1, <1>3 DEF RangeInv, ContentInv
  <2>4. (Sized(image) => BoundsInv)'
    BY <2>1, <2>2, <1>3 DEF BoundsInv, ContentInv
  <2>5. (Sized(image) /\ Whole(image) => SegmentsInv)'
    <3>1. \A h \in Loads : h <= nseg => h <= nseg + 1
      BY <1>2 DEF Loads
    <3>2. \A j \in Loads : \A a : KeptSoFar(j, a)' => KeptSoFar(j, a)
      BY <2>1, <3>1, <1>3 DEF KeptSoFar
    <3>3. \A j \in Loads : \A a : SegmentByte(Phdrs[j], a) => SegmentByte(Phdrs[j], a)'
      BY <2>1, <1>3 DEF SegmentByte
    <3>4. Sized(image) /\ Whole(image) => SegmentsInv
      BY <2>1 DEF ContentInv
    <3> QED BY <2>1, <2>2, <3>2, <3>3, <3>4, <1>3 DEF SegmentsInv
  <2> QED BY <2>1, <2>3, <2>4, <2>5 DEF ContentInv, HeapInv
<1>7. CASE PhdrsDone
  <2>1. /\ load = "segments" /\ load' = "heap" /\ nseg = Len(Phdrs)
        /\ UNCHANGED <<nseg, byte, prot, bounds>>
    BY <1>7 DEF PhdrsDone
  <2>2. RangeInv'
    BY <2>1, <1>3 DEF RangeInv, ContentInv
  <2>3. (Sized(image) => BoundsInv)'
    BY <2>1, <1>3 DEF BoundsInv, ContentInv
  <2>4. (Sized(image) /\ Whole(image) => SegmentsInv)'
    BY <2>1, <1>1, <1>3 DEF SegmentsInv, ContentInv, KeptSoFar, SegmentByte
  <2> QED BY <2>1, <2>2, <2>3, <2>4, <1>3 DEF ContentInv, HeapInv
<1>8. CASE MapHeapBytes
  <2>1. /\ load = "heap" /\ load' = "done" /\ UNCHANGED <<nseg, bounds>>
        /\ HeapFrom <= hiaddr
        /\ byte' = [a \in DOMAIN byte |-> IF a \in HeapBytes THEN Zero ELSE byte[a]]
        /\ prot' = Protected(HeapBytes, {"R", "W"})
    BY <1>8 DEF MapHeapBytes
  <2>2. nseg = Len(Phdrs) /\ RangeInv
    BY <2>1 DEF ContentInv
  <2>3. Loads # {} /\ DOMAIN byte = loaddr .. AlignUp(hiaddr + 1) - 1
    BY <2>1, <2>2 DEF RangeInv
  <2>4. RangeInv'
    BY <2>1, <2>3, <1>3 DEF RangeInv
  <2>5. (Sized(image) => BoundsInv)'
    BY <2>1, <1>3 DEF BoundsInv, ContentInv
  <2>6. HeapBytes' = HeapBytes
    BY <2>1, <1>3 DEF HeapBytes, HeapFrom
  <2>7. PageSize \in Nat \ {0}
    BY ImagesAssumption
  <2>8. ASSUME Sized(image)
        PROVE  /\ BoundsInv /\ AlignUp(bounds.brk) \in Int
               /\ bounds.brk <= AlignUp(bounds.brk)
    <3>1. BoundsInv
      BY <2>8 DEF ContentInv
    <3> QED BY <3>1, <2>7, Rounding DEF BoundsInv
  <2>9. ASSUME Sized(image), Whole(image) PROVE SegmentsInv'
    <3>1. SegmentsInv
      BY <2>9, <2>1 DEF ContentInv
    <3> SUFFICES ASSUME NEW j \in Loads, j <= nseg,
                        NEW a \in Start(Phdrs[j]) .. MemEnd(Phdrs[j]) - 1,
                        KeptSoFar(j, a)'
                 PROVE  SegmentByte(Phdrs[j], a)'
      BY <2>1, <1>3 DEF SegmentsInv
    <3>2. SegmentByte(Phdrs[j], a)
      BY <3>1, <2>1, <1>1, <1>3 DEF SegmentsInv, KeptSoFar
    <3>3. /\ j \in 1 .. Len(Phdrs) /\ Start(Phdrs[j]) \in Nat /\ MemEnd(Phdrs[j]) \in Nat
          /\ MemEnd(Phdrs[j]) <= bounds.brk
      BY <1>2, <2>8, <2>9, EntryTyped DEF Loads, BoundsInv
    <3>4. a \in Int /\ Start(Phdrs[j]) <= a /\ a < MemEnd(Phdrs[j])
      BY <3>3
    <3>5. a \notin HeapBytes
      BY <2>8, <2>9, <3>3, <3>4 DEF HeapBytes, HeapFrom, BoundsInv
    <3>6. /\ loaddr \in Int /\ hiaddr \in Int /\ loaddr <= Start(Phdrs[j])
          /\ MemEnd(Phdrs[j]) + HeapReserve <= hiaddr + 1 /\ HeapReserve \in Nat
      BY <2>3, <1>2, RangeHolds, ImagesAssumption
    <3>7. AlignUp(hiaddr + 1) \in Int /\ hiaddr + 1 <= AlignUp(hiaddr + 1)
      <4>1. hiaddr + 1 \in Int
        BY <3>6
      <4> QED BY <4>1, <2>7, Rounding
    <3>8. a \in DOMAIN byte
      BY <2>3, <3>3, <3>4, <3>6, <3>7
    <3>9. byte'[a] = byte[a] /\ prot'[a] = prot[a]
      BY <2>1, <3>5, <3>8, <1>2 DEF Protected
    <3> QED BY <3>2, <3>9, <1>3 DEF SegmentByte
  <2>10. (Sized(image) /\ Whole(image) => SegmentsInv)'
    BY <2>9, <1>3
  <2> DEFINE H == \A a \in HeapBytes : a \in DOMAIN byte
  <2>11. Sized(image) => H
    <3> SUFFICES ASSUME Sized(image), NEW a \in HeapBytes PROVE a \in DOMAIN byte
      OBVIOUS
    <3>1. /\ loaddr \in Int /\ \A j \in Loads : loaddr <= Start(Phdrs[j])
      BY <2>3, <1>2, RangeHolds
    <3>2. PICK j \in Loads : TRUE
      BY <2>3
    <3>3. /\ Start(Phdrs[j]) \in Nat /\ MemEnd(Phdrs[j]) \in Nat
          /\ Start(Phdrs[j]) <= MemEnd(Phdrs[j])
          /\ j <= nseg
      <4>1. j \in 1 .. Len(Phdrs)
        BY DEF Loads
      <4> QED BY <4>1, <1>2, <2>2, EntryTyped DEF Start, MemEnd
    <3>4. MemEnd(Phdrs[j]) <= bounds.brk /\ bounds.brk \in Nat
      BY <2>8, <3>3 DEF BoundsInv
    <3>5. loaddr <= AlignUp(bounds.brk)
      BY <2>8, <3>1, <3>3, <3>4
    <3> QED BY <2>3, <2>8, <3>1, <3>5 DEF HeapBytes, HeapFrom
  <2> HIDE DEF H
  <2>12. Sized(image) => HeapInv'
    BY <2>1, <2>6, <2>11, <1>2 DEF HeapInv, Protected, H
  <2> QED BY <2>1, <2>2, <2>4, <2>5, <2>10, <2>12, <1>3 DEF ContentInv
<1> QED BY <1>4, <1>5, <1>6, <1>7, <1>8, MapPhdrContent
        DEF ElfLoad, LoadFails, KilledInTail, MapPhdrFails, HeapBytesFail, Fail

-----------------------------------------------------------------------------
(***************************************************************************)
(* The options.                                                            *)
(***************************************************************************)

\* The lengths up to n at which a prefix of the strings is whole options.
IsCuts(K, args, n) ==
  K = {k \in 0 .. n : \/ k = 0
                      \/ k >= 1 /\ args[k] \in Flags /\ k - 1 \in K
                      \/ k >= 2 /\ args[k - 1] \in Takers /\ k - 2 \in K}

\* Such a set exists: how the strings divide is a matter of counting up.
LEMMA CutsExist ==
  ASSUME NEW args, NEW n \in Nat
  PROVE  \E K : IsCuts(K, args, n)
<1> DEFINE T == {m \in Nat : \E K : IsCuts(K, args, m)}
<1>1. 0 \in T
  <2>1. IsCuts({0}, args, 0)
    BY DEF IsCuts
  <2> QED BY <2>1
<1>2. ASSUME NEW m \in T PROVE m + 1 \in T
  <2>1. PICK K : IsCuts(K, args, m)
    OBVIOUS
  <2> DEFINE more == \/ args[m + 1] \in Flags /\ m \in K
                     \/ m >= 1 /\ args[m] \in Takers /\ m - 1 \in K
             N == K \cup (IF more THEN {m + 1} ELSE {})
  <2>2. K \subseteq 0 .. m
    BY <2>1 DEF IsCuts
  <2>3. \A k \in 0 .. m : k \in N <=> k \in K
    BY <2>2
  <2>4. m + 1 \in N <=> more
    BY <2>2
  <2>5. N \subseteq 0 .. m + 1
    BY <2>2
  <2> DEFINE C(k, L) == \/ k = 0
                        \/ k >= 1 /\ args[k] \in Flags /\ k - 1 \in L
                        \/ k >= 2 /\ args[k - 1] \in Takers /\ k - 2 \in L
  <2>6. \A k \in 0 .. m : k \in K <=> C(k, K)
    BY <2>1, <2>2 DEF IsCuts
  <2>7. \A k \in 0 .. m : C(k, K) <=> C(k, N)
    <3> HIDE DEF N
    <3> TAKE k \in 0 .. m
    <3>1. (k >= 1 => k - 1 \in 0 .. m) /\ (k >= 2 => k - 2 \in 0 .. m)
      OBVIOUS
    <3> QED BY <3>1, <2>3
  <2>8. more <=> C(m + 1, N)
    <3> HIDE DEF N
    <3>1. m + 1 >= 1 /\ (m + 1) - 1 = m /\ (m + 1) - 2 = m - 1 /\ m + 1 # 0
          /\ (m >= 1 <=> m + 1 >= 2) /\ m \in 0 .. m /\ (m >= 1 => m - 1 \in 0 .. m)
      OBVIOUS
    <3> QED BY <3>1, <2>3
  <2>9. N = {k \in 0 .. m + 1 : C(k, N)}
    <3> HIDE DEF N, C, more
    <3>1. \A k \in 0 .. m + 1 : k \in 0 .. m \/ k = m + 1
      OBVIOUS
    <3>2. \A k \in 0 .. m + 1 : k \in N <=> C(k, N)
      BY <3>1, <2>3, <2>4, <2>6, <2>7, <2>8
    <3> QED BY <3>2, <2>5
  <2>10. IsCuts(N, args, m + 1)
    <3> HIDE DEF N
    <3> QED BY <2>9 DEF IsCuts
  <2> QED BY <2>10
<1>3. T = Nat
  <2> T \in SUBSET Nat
    OBVIOUS
  <2> HIDE DEF T
  <2> QED BY <1>1, <1>2, SetInduction
<1> QED BY <1>3

\* The equations of AreOptions.
LEMMA OptionEquations ==
  ASSUME NEW args, Len(args) \in Nat, NEW k \in 0 .. Len(args)
  PROVE  AreOptions(args)[k] <=>
           \/ k = 0
           \/ k >= 1 /\ args[k] \in Flags /\ AreOptions(args)[k - 1]
           \/ k >= 2 /\ args[k - 1] \in Takers /\ AreOptions(args)[k - 2]
<1> DEFINE n == Len(args)
           Body(w) == [j \in 0 .. n |-> \/ j = 0
                                        \/ j >= 1 /\ args[j] \in Flags /\ w[j - 1]
                                        \/ j >= 2 /\ args[j - 1] \in Takers /\ w[j - 2]]
           c == CHOOSE w : w = Body(w)
<1>1. AreOptions(args) = c
  BY DEF AreOptions
<1>2. \E w : w = Body(w)
  <2>1. PICK K : IsCuts(K, args, n)
    BY CutsExist
  <2> DEFINE w == [j \in 0 .. n |-> j \in K]
  <2>2. \A j \in 0 .. n : /\ j >= 1 => (w[j - 1] <=> j - 1 \in K)
                          /\ j >= 2 => (w[j - 2] <=> j - 2 \in K)
    <3> TAKE j \in 0 .. n
    <3>1. (j >= 1 => j - 1 \in 0 .. n) /\ (j >= 2 => j - 2 \in 0 .. n)
      OBVIOUS
    <3> QED BY <3>1
  <2> DEFINE C(j) == \/ j = 0
                     \/ j >= 1 /\ args[j] \in Flags /\ j - 1 \in K
                     \/ j >= 2 /\ args[j - 1] \in Takers /\ j - 2 \in K
             D(j) == \/ j = 0
                     \/ j >= 1 /\ args[j] \in Flags /\ w[j - 1]
                     \/ j >= 2 /\ args[j - 1] \in Takers /\ w[j - 2]
  <2>3. \A j \in 0 .. n : j \in K <=> C(j)
    <3>1. K = {j \in 0 .. n : C(j)}
      BY <2>1 DEF IsCuts
    <3> HIDE DEF C, n, w
    <3> QED BY <3>1
  <2>4. \A j \in 0 .. n : (j \in K) = D(j)
    <3> TAKE j \in 0 .. n
    <3>1. /\ j >= 1 => (w[j - 1] <=> j - 1 \in K)
          /\ j >= 2 => (w[j - 2] <=> j - 2 \in K)
      BY <2>2
    <3> HIDE DEF w, n
    <3>2. C(j) <=> D(j)
      BY <3>1
    <3>3. j \in K <=> D(j)
      BY <2>3, <3>2
    <3>4. D(j) \in BOOLEAN /\ (j \in K) \in BOOLEAN
      BY ONLY TRUE, SMT
    <3> HIDE DEF D
    <3> QED BY ONLY <3>3, <3>4
  <2>5. w = [j \in 0 .. n |-> (j \in K)]
    OBVIOUS
  <2>6. w = Body(w)
    <3> HIDE DEF w, C
    <3> QED BY <2>4, <2>5, Zenon
  <2> QED BY <2>6
<1>3. c = Body(c)
  <2> HIDE DEF Body
  <2> QED BY <1>2
<1>4. c[k] = Body(c)[k]
  BY <1>3
<1>5. Body(c)[k] = (\/ k = 0
                    \/ k >= 1 /\ args[k] \in Flags /\ c[k - 1]
                    \/ k >= 2 /\ args[k - 1] \in Takers /\ c[k - 2])
  <2> HIDE DEF c
  <2> QED BY Zenon
<1> HIDE DEF c, Body
<1> QED BY <1>1, <1>4, <1>5, Zenon

\* Where a shorter prefix of whole options ends, the longer one goes on with
\* an option: so options can only be read in one way.
LEMMA OptionsAreAPrefixCode ==
  ASSUME NEW args, Len(args) \in Nat,
         NEW m \in 0 .. Len(args), NEW n \in 0 .. Len(args), m < n,
         AreOptions(args)[m], AreOptions(args)[n]
  PROVE  /\ args[m + 1] \in Flags \cup Takers
         /\ args[m + 1] \in Takers => m + 2 <= n
<1> DEFINE L == Len(args)
           w(k) == AreOptions(args)[k]
           P(k) == \A l \in 0 .. L : l < k /\ w(l) /\ w(k) =>
                      /\ args[l + 1] \in Flags \cup Takers
                      /\ args[l + 1] \in Takers => l + 2 <= k
           S == {k \in 0 .. L : ~ P(k)}
<1>1. ASSUME NEW k \in 0 .. L
      PROVE  w(k) <=> \/ k = 0
                      \/ k >= 1 /\ args[k] \in Flags /\ w(k - 1)
                      \/ k >= 2 /\ args[k - 1] \in Takers /\ w(k - 2)
  BY OptionEquations
<1>2. Flags \cap Takers = {}
  BY DEF Flags, Takers
<1>3. L \in Nat
  OBVIOUS
<1>4. S = {}
  <2> SUFFICES ASSUME S # {} PROVE FALSE
    OBVIOUS
  <2>1. S \subseteq Nat
    BY <1>3
  <2>2. PICK k \in S : \A y \in S : k <= y
    <3> HIDE DEF S
    <3> QED BY <2>1, LeastElement
  <2>3. k \in 0 .. L /\ ~ P(k)
    OBVIOUS
  <2>4. \A y \in 0 .. L : y < k => P(y)
    <3> TAKE y \in 0 .. L
    <3> SUFFICES ASSUME y < k, ~ P(y) PROVE FALSE
      OBVIOUS
    <3>1. y \in S
      OBVIOUS
    <3>2. k <= y
      BY <2>2, <3>1
    <3> QED BY ONLY <3>2, <2>3, y < k, y \in 0 .. L, <1>3
  <2> HIDE DEF S
  <2>5. PICK l \in 0 .. L : /\ l < k /\ w(l) /\ w(k)
                            /\ ~ (/\ args[l + 1] \in Flags \cup Takers
                                  /\ args[l + 1] \in Takers => l + 2 <= k)
    BY <2>3
  <2> HIDE DEF w
  <2>6. CASE k >= 1 /\ args[k] \in Flags /\ w(k - 1)
    <3>1. CASE l = k - 1
      <4>1. l + 1 = k
        BY <3>1, <2>3
      <4> QED BY <4>1, <2>5, <2>6, <1>2
    <3>2. CASE l < k - 1
      <4>1. k - 1 \in 0 .. L /\ k - 1 < k
        BY <2>3, <2>6, <1>3
      <4>2. P(k - 1)
        BY <2>4, <4>1
      <4>3. /\ args[l + 1] \in Flags \cup Takers
            /\ args[l + 1] \in Takers => l + 2 <= k - 1
        BY <4>2, <3>2, <2>5, <2>6
      <4> QED BY <4>3, <2>3, <2>5
    <3> QED BY <3>1, <3>2, <2>3, <2>5
  <2>7. CASE k >= 2 /\ args[k - 1] \in Takers /\ w(k - 2)
    <3>0. k - 1 \in 0 .. L /\ k - 1 < k /\ k - 2 \in 0 .. L /\ k - 2 < k /\ k - 2 < k - 1
      BY <2>3, <2>7, <1>3
    <3>1. CASE l = k - 1
      <4>1. P(k - 1) /\ w(k - 1)
        BY <2>4, <2>5, <3>0, <3>1
      <4>2. args[(k - 2) + 1] \in Takers => (k - 2) + 2 <= k - 1
        BY <4>1, <3>0, <2>7
      <4>3. (k - 2) + 1 = k - 1 /\ (k - 2) + 2 = k
        BY <2>3
      <4> QED BY <4>2, <4>3, <3>0, <2>3, <2>7
    <3>2. CASE l = k - 2
      <4>1. l + 1 = k - 1 /\ l + 2 = k
        BY <3>2, <2>3
      <4> QED BY <4>1, <2>3, <2>5, <2>7
    <3>3. CASE l < k - 2
      <4>1. P(k - 2)
        BY <2>4, <3>0
      <4>2. /\ args[l + 1] \in Flags \cup Takers
            /\ args[l + 1] \in Takers => l + 2 <= k - 2
        BY <4>1, <3>3, <2>5, <2>7
      <4> QED BY <4>2, <2>3, <2>5
    <3> QED BY <3>1, <3>2, <3>3, <2>3, <2>5
  <2>8. k # 0
    BY <2>3, <2>5
  <2> QED BY <2>3, <2>5, <2>6, <2>7, <2>8, <1>1
<1>5. P(n)
  BY <1>4
<1> QED BY <1>5

\* The program is the only string behind whole options that is none.
LEMMA OneProgram ==
  ASSUME NEW j \in 1 .. Len(Args), NEW k \in 1 .. Len(Args), Args \in Seq(Strings),
         IsProgram(j), IsProgram(k)
  PROVE  j = k
<1>1. ASSUME NEW a \in 1 .. Len(Args), NEW b \in 1 .. Len(Args),
             IsProgram(a), IsProgram(b), a < b
      PROVE  FALSE
  <2>1. Len(Args) \in Nat
    OBVIOUS
  <2>2. /\ a - 1 \in 0 .. Len(Args) /\ b - 1 \in 0 .. Len(Args) /\ a - 1 < b - 1
        /\ (a - 1) + 1 = a
    BY <1>1, <2>1
  <2>3. AreOptions(Args)[a - 1] /\ AreOptions(Args)[b - 1] /\ Args[a] \notin Dashed
    BY <1>1 DEF IsProgram
  <2>4. Args[a] \in Flags \cup Takers
    <3>1. Args[(a - 1) + 1] \in Flags \cup Takers
      BY ONLY <2>1, <2>2, <2>3, OptionsAreAPrefixCode
    <3> QED BY <3>1, <2>2
  <2>5. Args[a] \in Strings
    OBVIOUS
  <2>6. Args[a] \in Dashed
    BY <2>4, <2>5, NamesAssumption DEF Flags, Takers, opt_table, Option
  <2> QED BY <2>3, <2>6
<1> QED BY <1>1

\* The stack size the options among the first n strings ask for.
SizesUpTo(n) ==
  {j \in 2 .. n : Args[j - 1] \in {"-s", "--stack"} /\ AreOptions(Args)[j - 2]}
Asked(n) ==
  IF SizesUpTo(n) = {} THEN DefaultStackSize ELSE Strtoul[Args[Greatest(SizesUpTo(n))]]

\* What lies before the cursor, and then before the program, is whole options,
\* and the last -s among them has been obeyed.
OptionsInv ==
  /\ parse = "options" =>
       /\ opts \in 1 .. Len(Args) + 1
       /\ AreOptions(Args)[opts - 1]
       /\ guest_stack_size = Asked(opts - 1)
  /\ parse = "done" =>
       /\ prog_argv \in 1 .. Len(Args)
       /\ IsProgram(prog_argv)
       /\ guest_stack_size = Asked(prog_argv - 1)
       /\ prog_envp = Len(Args) + 2

\* The strings before the first NULL.
LEMMA ArgsAre ==
  ASSUME NEW m, IsVector(m)
  PROVE  /\ Args \in Seq(Strings) /\ Len(Args) = m - 1
         /\ \A k \in 1 .. m - 1 : Args[k] = vec[k]
         /\ m \in Nat /\ m >= 1 /\ m < Len(vec) /\ Len(vec) \in Nat
<1>1. /\ Len(vec) \in Nat /\ m \in 1 .. Len(vec) - 1 /\ 1 \in 1 .. Len(vec)
      /\ vec \in Seq(Strings \cup {NULL})
  BY DEF IsVector
<1>2. NextNull(1) = m
  BY <1>1, NextNullIs
<1>3. Args = SubSeq(vec, 1, m - 1)
  BY <1>2 DEF Args, StringsFrom
<1>4. Args \in Seq(Strings)
  BY <1>1, StringsTyped DEF Args
<1>5. /\ Len(SubSeq(vec, 1, m - 1)) = m - 1
      /\ \A k \in 1 .. m - 1 : SubSeq(vec, 1, m - 1)[k] = vec[k]
  BY <1>1
<1> QED BY <1>1, <1>3, <1>4, <1>5

\* A flag asks for nothing.
LEMMA AskedBehindFlag ==
  ASSUME Args \in Seq(Strings), NEW n \in 0 .. Len(Args) - 1,
         AreOptions(Args)[n]
  PROVE  SizesUpTo(n + 1) = SizesUpTo(n)
<1>1. Len(Args) \in Nat /\ n \in Int
  OBVIOUS
<1>2. ASSUME n >= 1, Args[n] \in {"-s", "--stack"}, AreOptions(Args)[n - 1]
      PROVE  FALSE
  <2>1. n - 1 \in 0 .. Len(Args) /\ n \in 0 .. Len(Args) /\ n - 1 < n /\ (n - 1) + 1 = n
    BY <1>1, <1>2
  <2>2. Args[(n - 1) + 1] \in Takers => (n - 1) + 2 <= n
    BY ONLY <1>1, <1>2, <2>1, AreOptions(Args)[n], OptionsAreAPrefixCode
  <2>3. Args[n] \in Takers
    BY <1>2 DEF Takers
  <2> QED BY <2>1, <2>2, <2>3, <1>1
<1> DEFINE C(j) == Args[j - 1] \in {"-s", "--stack"} /\ AreOptions(Args)[j - 2]
<1>3. n >= 1 => ~ C(n + 1)
  <2>1. (n + 1) - 1 = n /\ (n + 1) - 2 = n - 1
    OBVIOUS
  <2> QED BY <1>2, <2>1
<1>4. SizesUpTo(n + 1) = {j \in 2 .. n + 1 : C(j)} /\ SizesUpTo(n) = {j \in 2 .. n : C(j)}
  BY DEF SizesUpTo
<1> HIDE DEF C
<1>5. \A j \in 2 .. n + 1 : j \in 2 .. n \/ (j = n + 1 /\ n >= 1)
  OBVIOUS
<1>6. \A j \in 2 .. n : j \in 2 .. n + 1
  OBVIOUS
<1> QED BY <1>3, <1>4, <1>5, <1>6

\* An option with an argument asks for a size if it is -s, and then has the
\* last word.
LEMMA AskedBehindTaker ==
  ASSUME Args \in Seq(Strings), NEW n \in 0 .. Len(Args) - 2,
         AreOptions(Args)[n]
  PROVE  Asked(n + 2) = IF Args[n + 1] \in {"-s", "--stack"}
                        THEN Strtoul[Args[n + 2]] ELSE Asked(n)
<1>1. Len(Args) \in Nat /\ n \in Int
  OBVIOUS
<1> DEFINE C(j) == Args[j - 1] \in {"-s", "--stack"} /\ AreOptions(Args)[j - 2]
<1>2. SizesUpTo(n + 1) = SizesUpTo(n)
  <2>1. n \in 0 .. Len(Args) - 1
    BY <1>1
  <2> QED BY <2>1, AskedBehindFlag
<1>3. /\ SizesUpTo(n + 2) = {j \in 2 .. n + 2 : C(j)}
      /\ SizesUpTo(n + 1) = {j \in 2 .. n + 1 : C(j)}
  BY DEF SizesUpTo
<1>4. C(n + 2) <=> Args[n + 1] \in {"-s", "--stack"}
  <2>1. (n + 2) - 1 = n + 1 /\ (n + 2) - 2 = n
    OBVIOUS
  <2> QED BY <2>1
<1> HIDE DEF C
<1>5. \A j \in 2 .. n + 2 : j \in 2 .. n + 1 \/ j = n + 2
  OBVIOUS
<1>6. /\ \A j \in 2 .. n + 1 : j \in 2 .. n + 2
      /\ n + 2 \in 2 .. n + 2
  OBVIOUS
<1>7. CASE C(n + 2)
  <2>1. n + 2 \in SizesUpTo(n + 2)
    BY <1>3, <1>6, <1>7
  <2>2. \A y \in SizesUpTo(n + 2) : y \in Int /\ y <= n + 2
    BY <1>3
  <2>3. Greatest(SizesUpTo(n + 2)) = n + 2
    <3> DEFINE S == SizesUpTo(n + 2)
    <3>1. n + 2 \in S /\ \A y \in S : y \in Int /\ y <= n + 2
      BY <2>1, <2>2
    <3> HIDE DEF S
    <3>2. Greatest(S) \in S /\ \A y \in S : Greatest(S) >= y
      BY <3>1 DEF Greatest
    <3>3. Greatest(S) = n + 2
      BY <3>1, <3>2
    <3> QED BY <3>3 DEF S
  <2> QED BY <2>1, <2>3, <1>4, <1>7 DEF Asked
<1>8. CASE ~ C(n + 2)
  <2>1. SizesUpTo(n + 2) = SizesUpTo(n)
    BY <1>2, <1>3, <1>5, <1>6, <1>8
  <2> QED BY <2>1, <1>4, <1>8 DEF Asked
<1> QED BY <1>7, <1>8

\* What the table says of an option that does not print the usage.
LEMMA OptionTable ==
  ASSUME NEW o \in opt_table
  PROVE  /\ ~ o.need_arg /\ o.handle_opt # "help" =>
              o.names \subseteq Flags /\ o.handle_opt # "guest_stack"
         /\ o.need_arg =>
              /\ o.names \subseteq Takers
              /\ o.handle_opt = "guest_stack" => o.names = {"-s", "--stack"}
              /\ o.handle_opt # "guest_stack" => o.names = {"-B", "--address"}
<1>1. CASE o = Option("--help", "-h", FALSE, "help")
  BY <1>1 DEF Option
<1>2. CASE o = Option("--address", "-B", TRUE, "guest_base")
  BY <1>2 DEF Option, Takers
<1>3. CASE o = Option("--stack", "-s", TRUE, "guest_stack")
  BY <1>3 DEF Option, Takers
<1>4. CASE o = Option("--debug", "-d", FALSE, "debug")
  BY <1>4 DEF Option, Flags
<1> QED BY <1>1, <1>2, <1>3, <1>4 DEF opt_table

\* Nothing lies before the first string.
LEMMA OptionsInit == ASSUME Init PROVE OptionsInv
<1>1. StartupInv /\ parse = "options" /\ opts = 1 /\ guest_stack_size = DefaultStackSize
  BY InitInv DEF Init, CmdInit
<1>2. PICK m : IsVector(m)
  BY <1>1 DEF StartupInv, CmdInv
<1>3. Args \in Seq(Strings)
  BY <1>2, ArgsAre
<1>4. Len(Args) \in Nat /\ 0 \in 0 .. Len(Args) /\ 1 \in 1 .. Len(Args) + 1
  BY <1>3
<1>5. AreOptions(Args)[0]
  BY <1>4, OptionEquations
<1>6. SizesUpTo(0) = {}
  BY DEF SizesUpTo
<1> QED BY <1>1, <1>4, <1>5, <1>6 DEF OptionsInv, Asked

\* parse_options reads them one by one.
LEMMA ParseOptionsInv ==
  ASSUME StartupInv, OptionsInv, ParseStep
  PROVE  OptionsInv'
<1>1. vec' = vec /\ parse = "options"
  BY DEF ParseStep, ParseOptions, HandleHelp, HandleNothing, HandleOption, AtOption,
         InvalidOption, NoProgram, FoundProgram
<1>2. Args' = Args
  BY <1>1 DEF Args, StringsFrom, NextNull
<1>3. AreOptions(Args)' = AreOptions(Args)
  BY <1>2 DEF AreOptions
<1>4. /\ \A n : Asked(n)' = Asked(n)
      /\ \A j : IsProgram(j)' <=> IsProgram(j)
  BY <1>2, <1>3 DEF Asked, SizesUpTo, IsProgram, Greatest
<1>5. PICK m : CmdInv(m)
  BY DEF StartupInv
<1>6. IsVector(m) /\ opts \in 1 .. Len(vec)
  BY <1>5 DEF CmdInv
<1>7. /\ Args \in Seq(Strings) /\ Len(Args) = m - 1
      /\ \A k \in 1 .. m - 1 : Args[k] = vec[k]
      /\ m \in Nat /\ m >= 1 /\ m < Len(vec) /\ Len(vec) \in Nat
  BY <1>6, ArgsAre
<1>8. /\ opts \in 1 .. m /\ AreOptions(Args)[opts - 1]
      /\ guest_stack_size = Asked(opts - 1)
  BY <1>1, <1>7 DEF OptionsInv
<1>9. \A k \in 1 .. Len(vec) : vec[k] = NULL <=> k \in {m, Len(vec)}
  BY <1>6 DEF IsVector
<1> DEFINE n == opts - 1
<1>10. n \in Int /\ n \in 0 .. Len(Args) /\ n + 1 = opts
  BY <1>7, <1>8
<1>11. CASE parse' \notin {"options", "done"}
  BY <1>11 DEF OptionsInv
<1>12. ASSUME NEW o \in opt_table, HandleOption(o) PROVE OptionsInv'
  <2>1. /\ parse' = "options" /\ vec[opts] # NULL /\ vec[opts] \in o.names
        /\ o.handle_opt # "help"
        /\ o.need_arg => Argument(o) # NULL
        /\ guest_stack_size' = NewStackSize(o) /\ opts' = PastOption(o)
    BY <1>12 DEF HandleOption, AtOption, find_option
  <2>2. opts \in 1 .. m - 1 /\ Args[opts] = vec[opts] /\ n \in 0 .. Len(Args) - 1
    BY <2>1, <1>7, <1>8, <1>9, <1>10
  <2>3. CASE ~ o.need_arg
    <3>1. o.names \subseteq Flags /\ o.handle_opt # "guest_stack"
      BY <2>1, <2>3, OptionTable
    <3>2. Args[n + 1] \in Flags
      BY <2>1, <2>2, <3>1, <1>10
    <3>3. opts' = opts + 1 /\ guest_stack_size' = guest_stack_size
      BY <2>1, <2>3, <3>1 DEF PastOption, NewStackSize
    <3> HIDE DEF n
    <3>4. AreOptions(Args)[n + 1]
      <4>1. n + 1 \in 0 .. Len(Args) /\ n + 1 >= 1 /\ (n + 1) - 1 = n
        BY <2>2, <1>7, <1>10
      <4>2. AreOptions(Args)[n]
        BY <1>8 DEF n
      <4> QED BY <4>1, <4>2, <3>2, <1>7, OptionEquations
    <3>5. SizesUpTo(n + 1) = SizesUpTo(n)
      <4>1. AreOptions(Args)[n]
        BY <1>8 DEF n
      <4> QED BY <4>1, <2>2, <1>7, AskedBehindFlag
    <3>6. Asked(n + 1) = Asked(n)
      BY <3>5 DEF Asked
    <3>7. opts' - 1 = n + 1 /\ opts' \in 1 .. Len(Args) + 1
      BY <2>2, <3>3, <1>7, <1>10
    <3>8. guest_stack_size' = Asked(n)
      BY <3>3, <1>8 DEF n
    <3> QED BY <2>1, <3>4, <3>6, <3>7, <3>8, <1>2, <1>3, <1>4 DEF OptionsInv
  <2>4. CASE o.need_arg
    <3>1. /\ o.names \subseteq Takers
          /\ o.handle_opt = "guest_stack" => o.names = {"-s", "--stack"}
          /\ o.handle_opt # "guest_stack" => o.names = {"-B", "--address"}
      BY <2>4, OptionTable
    <3>2. vec[opts + 1] # NULL /\ Argument(o) = vec[opts + 1]
      BY <2>1, <2>4 DEF Argument
    <3>3. opts + 1 \in 1 .. m - 1
      <4>1. opts + 1 \in 1 .. Len(vec) /\ opts + 1 <= m
        BY <2>2, <1>7
      <4> QED BY <4>1, <3>2, <2>2, <1>7, <1>9
    <3>4. /\ Args[n + 1] = vec[opts] /\ Args[n + 2] = Argument(o)
          /\ n \in 0 .. Len(Args) - 2 /\ opts' = opts + 2
      <4>1. n + 2 = opts + 1 /\ n \in 0 .. Len(Args) - 2
        BY <3>3, <1>7, <1>10
      <4> QED BY <4>1, <3>2, <3>3, <2>1, <2>2, <2>4, <1>7, <1>10 DEF PastOption
    <3>5. AreOptions(Args)[n]
      BY <1>8
    <3> HIDE DEF n
    <3>6. Args[n + 1] \in Takers
      BY <2>1, <3>1, <3>4
    <3>7. AreOptions(Args)[n + 2]
      <4> DEFINE k == n + 2
      <4>1. k \in 0 .. Len(Args) /\ k >= 2 /\ k - 2 = n /\ k - 1 = n + 1
        BY <3>4, <1>7, <1>10
      <4>2. Args[k - 1] \in Takers /\ AreOptions(Args)[k - 2]
        BY <4>1, <3>5, <3>6
      <4>3. Len(Args) \in Nat
        BY <1>7
      <4> HIDE DEF k
      <4>4. AreOptions(Args)[k]
        BY ONLY <4>1, <4>2, <4>3, OptionEquations
      <4> QED BY <4>4 DEF k
    <3>8. Asked(n + 2) = IF Args[n + 1] \in {"-s", "--stack"}
                         THEN Strtoul[Args[n + 2]] ELSE Asked(n)
      BY <3>4, <3>5, <1>7, AskedBehindTaker
    <3>9. guest_stack_size = Asked(n)
      BY <1>8 DEF n
    <3>10. guest_stack_size' = Asked(n + 2)
      <4>1. CASE o.handle_opt = "guest_stack"
        <5>1. Args[n + 1] \in {"-s", "--stack"}
          BY <4>1, <3>1, <3>4, <2>1
        <5> QED BY <4>1, <5>1, <3>4, <3>8, <2>1 DEF NewStackSize
      <4>2. CASE o.handle_opt # "guest_stack"
        <5>1. Args[n + 1] \notin {"-s", "--stack"}
          BY <4>2, <3>1, <3>4, <2>1
        <5> QED BY <4>2, <5>1, <3>8, <3>9, <2>1 DEF NewStackSize
      <4> QED BY <4>1, <4>2
    <3>11. opts' - 1 = n + 2 /\ opts' \in 1 .. Len(Args) + 1
      BY <2>2, <3>3, <3>4, <1>7, <1>10
    <3> QED BY <2>1, <3>7, <3>10, <3>11, <1>2, <1>3, <1>4 DEF OptionsInv
  <2> QED BY <2>3, <2>4
<1>13. CASE FoundProgram
  <2>1. /\ parse' = "done" /\ vec[opts] # NULL /\ vec[opts] \notin Dashed
        /\ prog_argv' = opts /\ prog_envp' = EnvpFrom(opts)
        /\ guest_stack_size' = guest_stack_size
    BY <1>13 DEF FoundProgram
  <2>2. opts \in 1 .. m - 1 /\ Args[opts] = vec[opts]
    BY <2>1, <1>7, <1>8, <1>9
  <2>3. IsProgram(opts)
    BY <2>1, <2>2, <1>8 DEF IsProgram
  <2>4. EnvpFrom(opts) = m + 1
    <3>1. opts + 1 \in 1 .. Len(vec) /\ opts + 1 <= m
      BY <2>2, <1>7
    <3> QED BY <3>1, <1>6, NextNullIs DEF EnvpFrom
  <2>5. m + 1 = Len(Args) + 2 /\ opts \in 1 .. Len(Args)
    BY <2>2, <1>7
  <2> QED BY <2>1, <2>3, <2>4, <2>5, <1>2, <1>3, <1>4, <1>8 DEF OptionsInv
<1> QED BY <1>11, <1>12, <1>13
        DEF ParseStep, ParseOptions, HandleHelp, HandleNothing, InvalidOption, NoProgram

-----------------------------------------------------------------------------
(***************************************************************************)
(* What one part of main hands to the next.                                *)
(***************************************************************************)

\* What one part of main hands to the next.
HandedInv ==
  /\ tables \notin {"idle", "failed"} =>
       /\ parse = "done"
       /\ stack_size = guest_stack_size
       /\ argvS = BprmArgv
       /\ envS = BprmEnvp
  /\ hart # NoHart => tables = "done" /\ hart = [pc |-> image.entry, sp |-> top]

\* The strings create_elf_tables is given depend on the first two parts only.
LEMMA BprmUnchanged ==
  ASSUME UNCHANGED <<cmdVars, pathVars>>
  PROVE  BprmArgv' = BprmArgv /\ BprmEnvp' = BprmEnvp
<1>1. UNCHANGED <<vec, prog_argv, prog_envp, real>>
  BY DEF cmdVars, pathVars
<1>2. Filename' = Filename
  BY <1>1 DEF Filename, RealText, StrLen0
<1>3. /\ StringsFrom(prog_argv)' = StringsFrom(prog_argv)
      /\ StringsFrom(prog_envp)' = StringsFrom(prog_envp)
  BY <1>1 DEF StringsFrom, NextNull
<1> QED BY <1>2, <1>3 DEF BprmArgv, BprmEnvp

\* Before an image is loaded there is nothing to hand on.
LEMMA NothingYet ==
  ASSUME HandedInv, StartupInv, load # "done", UNCHANGED <<tabVars, hart>>
  PROVE  HandedInv'
<1>1. tables = "idle" /\ tables' = tables /\ hart' = hart
  BY DEF StartupInv, TabInv, tabVars
<1>2. hart = NoHart
  BY <1>1 DEF HandedInv
<1> QED BY <1>1, <1>2 DEF HandedInv, NoHart

\* Each part is handed what the one before it found, and nothing changes that
\* afterwards.
LEMMA HandedStep ==
  ASSUME StartupInv, HandedInv, [Next]_vars
  PROVE  HandedInv'
<1>0. /\ tables # "idle" => load = "done"
      /\ load # "idle" => resolve = "done"
      /\ resolve # "idle" => parse = "done"
  BY DEF StartupInv, TabInv, ImgInv, PathInv
<1>1. CASE ParseStep
  <2>1. parse = "options"
    BY <1>1 DEF ParseStep, ParseOptions, HandleHelp, HandleNothing, HandleOption, AtOption,
         InvalidOption, NoProgram, FoundProgram
  <2> QED BY <2>1, <1>0, <1>1, NothingYet DEF ParseStep
<1>2. CASE PathStep
  <2>1. resolve # "done"
    BY <1>2 DEF PathStep, ResolvePath, GetRealPath, StartAbsolute, StartAtCwd, GetcwdFails,
                Walk, SkipName, Up, AddName, AtName, Terminate
  <2> QED BY <2>1, <1>0, <1>2, NothingYet DEF PathStep
<1>3. CASE LoadStep
  <2>1. load # "done"
    BY <1>3 DEF LoadStep, ElfLoad, ReserveRange, LoadFails, SkipPhdr, KilledInTail,
                MapPhdr, MapPhdrFails, AtPhdr, PhdrsDone, MapHeapBytes, HeapBytesFail
  <2> QED BY <2>1, <1>3, NothingYet DEF LoadStep
<1>4. CASE StackStep
  <2>1. /\ UNCHANGED <<cmdVars, pathVars, imgVars, hart>> /\ load = "done"
        /\ BprmArgv' = BprmArgv /\ BprmEnvp' = BprmEnvp
        /\ guest_stack_size' = guest_stack_size /\ parse' = parse
        /\ parse = "done"
    BY <1>0, <1>4, BprmUnchanged DEF StackStep, cmdVars
  <2>2. tables # "done"
    BY <1>4 DEF StackStep, MapStack, MapStackFails, CreateElfTables, PushEnv, EnvDone,
                PushArg, ArgsDone, PushPointer, TablesDone
  <2>3. hart = NoHart /\ hart' = NoHart
    BY <2>1, <2>2 DEF HandedInv
  <2>4. CASE MapStack(BprmArgv, BprmEnvp, guest_stack_size)
    <3>1. argvS' = BprmArgv /\ envS' = BprmEnvp /\ stack_size' = guest_stack_size
      BY <2>4 DEF MapStack
    <3> QED BY <3>1, <2>1, <2>3 DEF HandedInv, NoHart
  <2>5. CASE MapStackFails
    BY <2>5, <2>3 DEF HandedInv, MapStackFails, NoHart
  <2>6. CASE CreateElfTables
    <3>1. /\ UNCHANGED <<argvS, envS, stack_size>> /\ tables \notin {"idle", "failed"}
      BY <2>6 DEF CreateElfTables, PushEnv, EnvDone, PushArg, ArgsDone, PushPointer,
                  TablesDone, PushString, Killed
    <3> QED BY <3>1, <2>1, <2>3 DEF HandedInv, NoHart
  <2> QED BY <2>4, <2>5, <2>6, <1>4 DEF StackStep
<1>5. CASE StartHart
  <2>1. /\ tables = "done" /\ hart' = [pc |-> image.entry, sp |-> top]
        /\ UNCHANGED <<cmdVars, pathVars, imgVars, tabVars>>
    BY <1>5 DEF StartHart
  <2>2. /\ BprmArgv' = BprmArgv /\ BprmEnvp' = BprmEnvp
        /\ guest_stack_size' = guest_stack_size /\ parse' = parse
        /\ UNCHANGED <<tables, argvS, envS, stack_size, image, top>>
    BY <2>1, BprmUnchanged DEF cmdVars, tabVars, imgVars
  <2> QED BY <2>1, <2>2 DEF HandedInv
<1>6. CASE UNCHANGED vars
  <2>1. UNCHANGED <<cmdVars, pathVars, imgVars, tabVars, hart>>
    BY <1>6 DEF vars
  <2>2. /\ BprmArgv' = BprmArgv /\ BprmEnvp' = BprmEnvp
        /\ guest_stack_size' = guest_stack_size /\ parse' = parse
        /\ UNCHANGED <<tables, argvS, envS, stack_size, image, top, hart>>
    BY <2>1, BprmUnchanged DEF cmdVars, tabVars, imgVars
  <2> QED BY <2>2 DEF HandedInv, NoHart
<1> QED BY <1>1, <1>2, <1>3, <1>4, <1>5, <1>6 DEF Next, Step, Started

\* Only parse_options moves the cursor.
LEMMA OptionsStep ==
  ASSUME StartupInv, OptionsInv, [Next]_vars
  PROVE  OptionsInv'
<1>1. CASE ParseStep
  BY <1>1, ParseOptionsInv
<1>2. CASE UNCHANGED cmdVars
  <2>1. UNCHANGED <<vec, parse, opts, prog_argv, prog_envp, guest_stack_size>>
    BY <1>2 DEF cmdVars
  <2>2. Args' = Args
    BY <2>1 DEF Args, StringsFrom, NextNull
  <2>3. AreOptions(Args)' = AreOptions(Args)
    BY <2>2 DEF AreOptions
  <2>4. /\ \A n : Asked(n)' = Asked(n)
        /\ \A j : IsProgram(j)' <=> IsProgram(j)
    BY <2>2, <2>3 DEF Asked, SizesUpTo, IsProgram, Greatest
  <2> QED BY <2>1, <2>2, <2>3, <2>4 DEF OptionsInv
<1>3. [Next]_vars => ParseStep \/ UNCHANGED cmdVars
  BY DEF Next, Step, Started, PathStep, LoadStep, StackStep, StartHart, vars
<1> QED BY <1>1, <1>2, <1>3

-----------------------------------------------------------------------------
(***************************************************************************)
(* What create_elf_tables has written.                                     *)
(***************************************************************************)

Sane == stack_size + Guard < LongMod

\* Where the auxiliary vector goes, above the pointers written so far.
AuxvAt == top + (Len(ptrs) - left) * Word

\* The strings lie above this.
Floor == IF tables \in {"env", "argv"} THEN top ELSE AuxvAt + 2 * Word

\* The last k strings have been copied, the last one first, and their
\* addresses are in the array behind the index.
PointersTo(strings, index, k) ==
  \A i \in 1 .. k :
    /\ ptrs[index + i] \in Int
    /\ Floor <= ptrs[index + i]
    /\ StringIs(ptrs[index + i], strings[Len(strings) + 1 - i])

WordWritten(a, w) ==
  \A b \in 0 .. Word - 1 : a + b \in DOMAIN mem /\ mem[a + b] = <<"word", w, b>>

\* Nothing is written below the top, nor into the auxiliary vector.
Above ==
  \A a \in DOMAIN mem :
    /\ a \in Int /\ top <= a
    /\ tables \in {"ptrs", "done"} => a < AuxvAt \/ AuxvAt + 2 * Word <= a

ArrayInv ==
  /\ tables \in {"env", "argv", "ptrs", "done"} => Above /\ ptrs[1] = 0
  /\ tables = "env" => PointersTo(envS, 1, Len(envS) - left)
  /\ tables \in {"argv", "ptrs", "done"} =>
       PointersTo(envS, 1, Len(envS)) /\ ptrs[2 + Len(envS)] = 0
  /\ tables = "argv" => PointersTo(argvS, 2 + Len(envS), Len(argvS) - left)
  /\ tables \in {"ptrs", "done"} =>
       /\ PointersTo(argvS, 2 + Len(envS), Len(argvS))
       /\ ptrs[3 + Len(envS) + Len(argvS)] = Len(argvS)
       /\ left <= Len(ptrs)
       /\ \A i \in 1 .. Len(ptrs) - left : WordWritten(AuxvAt - i * Word, ptrs[i])
       /\ left < Len(ptrs) => stack_limit <= top
       /\ AuxvAt + 2 * Word <= stack_limit + stack_size
  /\ tables = "done" => left = 0

TableInv == Sane => ArrayInv

\* Products with the size of a word.
LEMMA Words ==
  ASSUME NEW x \in Int, NEW y \in Int, NEW W \in Int
  PROVE  /\ (x + y) * W = x * W + y * W
         /\ x * W \in Int /\ 0 * W = 0 /\ 1 * W = W
OBVIOUS

\* What is written below all the rest changes none of it.
LEMMA CopiedKeeps ==
  ASSUME NEW a \in Int, NEW n \in Nat, NEW kind, NEW v, mem' = Copied(a, n, kind, v),
         \A b \in DOMAIN mem : b \in Int /\ a + n <= b
  PROVE  /\ \A b \in DOMAIN mem : b \in DOMAIN mem' /\ mem'[b] = mem[b]
         /\ \A b \in 0 .. n - 1 : a + b \in DOMAIN mem' /\ mem'[a + b] = <<kind, v, b>>
         /\ DOMAIN mem' = DOMAIN mem \cup (a .. a + n - 1)
<1>1. Span(a, n) = a .. a + n - 1
  BY DEF Span
<1>2. \A b \in DOMAIN mem : b \notin Span(a, n)
  BY <1>1
<1>3. DOMAIN mem' = DOMAIN mem \cup Span(a, n)
  BY DEF Copied
<1>4. \A b \in DOMAIN mem : b \in DOMAIN mem' /\ mem'[b] = mem[b]
  BY <1>2, <1>3 DEF Copied
<1>5. ASSUME NEW b \in 0 .. n - 1
      PROVE  a + b \in DOMAIN mem' /\ mem'[a + b] = <<kind, v, b>>
  <2>1. a + b \in Span(a, n) /\ (a + b) - a = b
    BY <1>1
  <2> QED BY <2>1, <1>3 DEF Copied
<1> QED BY <1>1, <1>3, <1>4, <1>5

\* Memory that keeps its bytes keeps its strings and words.
LEMMA KeptStrings ==
  ASSUME \A b \in DOMAIN mem : b \in DOMAIN mem' /\ mem'[b] = mem[b]
  PROVE  /\ \A p, s : StringIs(p, s) => StringIs(p, s)'
         /\ \A p, w : WordWritten(p, w) => WordWritten(p, w)'
BY DEF StringIs, WordWritten

\* A string is pushed.
LEMMA PushedString ==
  ASSUME TabInv, ArrayInv, tables \in {"env", "argv"}, left > 0,
         NEW s, s.len \in Nat, PushString(s), tables' = tables
  PROVE  /\ Above' /\ top' \in Int /\ top' <= top /\ StringIs(top, s)'
         /\ \A p, t : StringIs(p, t) => StringIs(p, t)'
         /\ \A i \in 1 .. Len(ptrs) : ptrs'[i] = ptrs[i]
         /\ ptrs'[Len(ptrs) + 1] = top' /\ Len(ptrs) \in Nat
         /\ left' = left - 1 /\ UNCHANGED <<tables, argvS, envS, stack_size>>
<1> DEFINE n == SizeOf(s)
<1>1. n \in Nat /\ n > 0 /\ n = s.len + 1 /\ top \in Int
  BY DEF SizeOf, TabInv
<1>2. ~ Faults(top - n, n)
  BY DEF PushString, Killed
<1>3. /\ top' = top - n /\ ptrs' = Append(ptrs, top - n)
      /\ mem' = Copied(top - n, n, "string", s)
      /\ left' = left - 1 /\ UNCHANGED <<tables, argvS, envS, stack_size>>
  BY <1>2 DEF PushString
<1> HIDE DEF n
<1>4. top - n \in Int /\ (top - n) + n = top /\ top - n <= top
  BY <1>1
<1>5. \A b \in DOMAIN mem : b \in Int /\ (top - n) + n <= b
  BY <1>1 DEF ArrayInv, Above
<1>6. /\ \A b \in DOMAIN mem : b \in DOMAIN mem' /\ mem'[b] = mem[b]
      /\ \A b \in 0 .. n - 1 : (top - n) + b \in DOMAIN mem'
                               /\ mem'[(top - n) + b] = <<"string", s, b>>
      /\ DOMAIN mem' = DOMAIN mem \cup ((top - n) .. (top - n) + n - 1)
  <2> DEFINE a == top - n
  <2>1. /\ a \in Int /\ mem' = Copied(a, n, "string", s)
        /\ \A b \in DOMAIN mem : b \in Int /\ a + n <= b
    BY <1>3, <1>4, <1>5
  <2>2. PICK c \in Int : c = a
    BY <2>1
  <2>3. /\ mem' = Copied(c, n, "string", s)
        /\ \A b \in DOMAIN mem : b \in Int /\ c + n <= b
    BY <2>1, <2>2
  <2>4. PICK l \in Nat : l = n
    BY <1>1
  <2>5. /\ mem' = Copied(c, l, "string", s)
        /\ \A b \in DOMAIN mem : b \in Int /\ c + l <= b
    BY <2>3, <2>4
  <2> HIDE DEF a
  <2>6. /\ \A b \in DOMAIN mem : b \in DOMAIN mem' /\ mem'[b] = mem[b]
        /\ \A b \in 0 .. l - 1 : c + b \in DOMAIN mem' /\ mem'[c + b] = <<"string", s, b>>
        /\ DOMAIN mem' = DOMAIN mem \cup (c .. c + l - 1)
    BY ONLY <2>5, c \in Int, l \in Nat, CopiedKeeps
  <2> QED BY <2>2, <2>4, <2>6 DEF a
<1>7. \A p, t : StringIs(p, t) => StringIs(p, t)'
  BY <1>6, KeptStrings
<1>8. StringIs(top, s)'
  <2>1. \A b \in 0 .. s.len : b \in 0 .. n - 1
    BY <1>1
  <2>2. \A b \in 0 .. s.len : /\ top' + b \in DOMAIN mem'
                              /\ mem'[top' + b] = <<"string", s, b>>
    BY <1>3, <1>6, <2>1
  <2>3. \A b : <<"string", s, b>>[1] = "string"
    OBVIOUS
  <2> QED BY <2>2, <2>3 DEF StringIs
<1>9. Above'
  <2> SUFFICES ASSUME NEW a \in DOMAIN mem' PROVE a \in Int /\ top' <= a
    BY <1>3 DEF Above
  <2>1. CASE a \in DOMAIN mem
    BY <2>1, <1>1, <1>3, <1>4, <1>5
  <2>2. CASE a \in (top - n) .. (top - n) + n - 1
    BY <2>2, <1>1, <1>3, <1>4
  <2> QED BY <2>1, <2>2, <1>6
<1>10. PICK T : ptrs \in Seq(T)
  BY DEF TabInv
<1>11. /\ \A i \in 1 .. Len(ptrs) : Append(ptrs, top - n)[i] = ptrs[i]
       /\ Append(ptrs, top - n)[Len(ptrs) + 1] = top - n /\ Len(ptrs) \in Nat
  BY <1>10
<1> QED BY <1>3, <1>4, <1>7, <1>8, <1>9, <1>11

\* A step that moves none of the strings keeps the pointers to them, and adds
\* one if it writes one.
LEMMA PointersStep ==
  ASSUME NEW strings, NEW i \in Int, NEW k \in Nat, PointersTo(strings, i, k),
         \A p, t : StringIs(p, t) => StringIs(p, t)',
         \A h \in 1 .. k : ptrs'[i + h] = ptrs[i + h],
         Floor \in Int, Floor' \in Int, Floor' <= Floor
  PROVE  /\ PointersTo(strings, i, k)'
         /\ \A p \in Int :
              (  /\ ptrs'[i + (k + 1)] = p /\ Floor' <= p
                 /\ StringIs(p, strings[Len(strings) - k])' /\ Len(strings) \in Int)
              => PointersTo(strings, i, k + 1)'
<1>1. ASSUME NEW h \in 1 .. k
      PROVE  /\ ptrs'[i + h] \in Int
             /\ Floor' <= ptrs'[i + h]
             /\ StringIs(ptrs[i + h], strings[Len(strings) + 1 - h])'
  <2>1. /\ ptrs[i + h] \in Int /\ Floor <= ptrs[i + h]
        /\ StringIs(ptrs[i + h], strings[Len(strings) + 1 - h])
    BY DEF PointersTo
  <2>2. PICK q \in Int : q = ptrs[i + h]
    BY <2>1
  <2>3. q = ptrs'[i + h] /\ Floor <= q
    BY <2>1, <2>2
  <2>6. Floor' <= q
    BY ONLY <2>3, q \in Int, Floor \in Int, Floor' \in Int, Floor' <= Floor
  <2>4. StringIs(q, strings[Len(strings) + 1 - h])'
    BY <2>1, <2>2
  <2>5. StringIs(ptrs[i + h], strings[Len(strings) + 1 - h])'
    BY <2>3, <2>4 DEF StringIs
  <2> QED BY <2>3, <2>5, <2>6
<1>2. PointersTo(strings, i, k)'
  BY <1>1 DEF PointersTo
<1>3. ASSUME NEW p \in Int, ptrs'[i + (k + 1)] = p, Floor' <= p,
             StringIs(p, strings[Len(strings) - k])', Len(strings) \in Int
      PROVE  PointersTo(strings, i, k + 1)'
  <2> SUFFICES ASSUME NEW h \in 1 .. k + 1
               PROVE  /\ ptrs'[i + h] \in Int
                      /\ Floor' <= ptrs'[i + h]
                      /\ StringIs(ptrs[i + h], strings[Len(strings) + 1 - h])'
    BY DEF PointersTo
  <2>1. CASE h \in 1 .. k
    BY <2>1, <1>1
  <2>2. CASE h = k + 1
    <3>1. Len(strings) + 1 - h = Len(strings) - k
      BY <1>3, <2>2
    <3>2. StringIs(ptrs[i + h], strings[Len(strings) + 1 - h])'
      BY <3>1, <2>2, <1>3 DEF StringIs
    <3> QED BY <3>2, <2>2, <1>3
  <2> QED BY <2>1, <2>2
<1> QED BY <1>2, <1>3

\* A string of the environment, and the pointer to it.
LEMMA PushEnvKeeps ==
  ASSUME TabInv, ArrayInv, PushEnv
  PROVE  ArrayInv'
<1>1. tables = "env" /\ left > 0 /\ PushString(envS[left])
  BY DEF PushEnv
<1>2. CASE tables' # "env"
  <2>1. tables' = "killed"
    BY <1>1, <1>2 DEF PushString, Killed
  <2> QED BY <2>1 DEF ArrayInv
<1>3. CASE tables' = "env"
  <2>1. /\ left \in Nat /\ Len(envS) \in Nat /\ left <= Len(envS) /\ top \in Int
        /\ Len(ptrs) = 1 + Len(envS) - left /\ envS[left].len \in Nat
    BY <1>1 DEF TabInv, Counted
  <2>2. PICK s : s = envS[left]
    OBVIOUS
  <2>3. s.len \in Nat /\ PushString(s) /\ tables' = tables /\ tables \in {"env", "argv"}
    BY <1>1, <1>3, <2>1, <2>2
  <2>4. /\ Above' /\ top' \in Int /\ top' <= top /\ StringIs(top, s)'
        /\ \A p, t : StringIs(p, t) => StringIs(p, t)'
        /\ \A i \in 1 .. Len(ptrs) : ptrs'[i] = ptrs[i]
        /\ ptrs'[Len(ptrs) + 1] = top' /\ Len(ptrs) \in Nat
        /\ left' = left - 1 /\ UNCHANGED <<tables, argvS, envS, stack_size>>
    BY ONLY <1>1, <2>3, TabInv, ArrayInv, PushedString
  <2>5. PICK E : E = envS
    OBVIOUS
  <2>6. PICK k \in Nat : k = Len(E) - left
    BY <2>1, <2>5
  <2>7. PointersTo(E, 1, k)
    BY <1>1, <2>5, <2>6 DEF ArrayInv
  <2>8. Floor = top /\ Floor' = top'
    BY <1>1, <1>3 DEF Floor
  <2>9. Len(ptrs) = 1 + k /\ Len(E) - k = left /\ Len(E) \in Int
    BY <2>1, <2>5, <2>6
  <2>10. PICK p \in Int : p = top'
    BY <2>4
  <2>11. StringIs(p, s)'
    BY <2>4, <2>10 DEF StringIs
  <2>12. StringIs(p, E[Len(E) - k])'
    <3>1. PICK l : l = Len(E) - k
      OBVIOUS
    <3>2. E[l] = s
      BY <3>1, <2>2, <2>5, <2>9
    <3>3. StringIs(p, E[l])'
      BY <3>2, <2>11 DEF StringIs
    <3> QED BY <3>1, <3>3
  <2>13. /\ \A h \in 1 .. k : ptrs'[1 + h] = ptrs[1 + h]
         /\ ptrs'[1 + (k + 1)] = p /\ Floor' <= p
         /\ Floor \in Int /\ Floor' \in Int /\ Floor' <= Floor
    <3>1. /\ \A h \in 1 .. k : 1 + h \in 1 .. Len(ptrs)
          /\ 1 + (k + 1) = Len(ptrs) + 1
      BY <2>9
    <3>2. Floor' <= p /\ Floor \in Int /\ Floor' \in Int /\ Floor' <= Floor
      BY ONLY <2>1, <2>4, <2>8, <2>10
    <3>3. \A h \in 1 .. k : ptrs'[1 + h] = ptrs[1 + h]
      BY <3>1, <2>4
    <3> QED BY <3>1, <3>2, <3>3, <2>4, <2>10
  <2>14. PointersTo(E, 1, k + 1)'
    <3>1. 1 \in Int
      OBVIOUS
    <3> QED BY ONLY <3>1, <2>4, <2>7, <2>9, <2>12, <2>13, PointersStep
  <2>15. (Len(envS) - left)' = k + 1 /\ envS' = E
    BY <2>1, <2>4, <2>5, <2>6
  <2>16. PointersTo(envS, 1, Len(envS) - left)'
    BY <2>14, <2>15 DEF PointersTo
  <2>17. ptrs'[1] = 0
    BY <1>1, <2>4, <2>9 DEF ArrayInv
  <2> QED BY <1>3, <2>4, <2>16, <2>17 DEF ArrayInv
<1> QED BY <1>2, <1>3

\* A string of the command line, and the pointer to it.
LEMMA PushArgKeeps ==
  ASSUME TabInv, ArrayInv, PushArg
  PROVE  ArrayInv'
<1>1. tables = "argv" /\ left > 0 /\ PushString(argvS[left])
  BY DEF PushArg
<1>2. CASE tables' # "argv"
  <2>1. tables' = "killed"
    BY <1>1, <1>2 DEF PushString, Killed
  <2> QED BY <2>1 DEF ArrayInv
<1>3. CASE tables' = "argv"
  <2>1. /\ left \in Nat /\ Len(argvS) \in Nat /\ left <= Len(argvS) /\ top \in Int
        /\ Len(envS) \in Nat
        /\ Len(ptrs) = 2 + Len(envS) + Len(argvS) - left /\ argvS[left].len \in Nat
    BY <1>1 DEF TabInv, Counted
  <2>2. PICK s : s = argvS[left]
    OBVIOUS
  <2>3. s.len \in Nat /\ PushString(s) /\ tables' = tables /\ tables \in {"env", "argv"}
    BY <1>1, <1>3, <2>1, <2>2
  <2>4. /\ Above' /\ top' \in Int /\ top' <= top /\ StringIs(top, s)'
        /\ \A p, t : StringIs(p, t) => StringIs(p, t)'
        /\ \A i \in 1 .. Len(ptrs) : ptrs'[i] = ptrs[i]
        /\ ptrs'[Len(ptrs) + 1] = top' /\ Len(ptrs) \in Nat
        /\ left' = left - 1 /\ UNCHANGED <<tables, argvS, envS, stack_size>>
    BY ONLY <1>1, <2>3, TabInv, ArrayInv, PushedString
  <2>5. PICK A : A = argvS
    OBVIOUS
  <2>6. PICK k \in Nat : k = Len(A) - left
    BY <2>1, <2>5
  <2>7. PICK E : E = envS
    OBVIOUS
  <2>8. PICK n \in Nat : n = Len(E)
    BY <2>1, <2>7
  <2>9. /\ PointersTo(A, 2 + n, k) /\ PointersTo(E, 1, n)
        /\ ptrs[1] = 0 /\ ptrs[2 + n] = 0
    BY <1>1, <2>5, <2>6, <2>7, <2>8 DEF ArrayInv
  <2>10. Floor = top /\ Floor' = top'
    BY <1>1, <1>3 DEF Floor
  <2>11. Len(ptrs) = 2 + n + k /\ Len(A) - k = left /\ Len(A) \in Int
    BY <2>1, <2>5, <2>6, <2>7, <2>8
  <2>12. PICK p \in Int : p = top'
    BY <2>4
  <2>13. StringIs(p, s)'
    BY <2>4, <2>12 DEF StringIs
  <2>14. StringIs(p, A[Len(A) - k])'
    <3>1. PICK l : l = Len(A) - k
      OBVIOUS
    <3>2. A[l] = s
      BY <3>1, <2>2, <2>5, <2>11
    <3>3. StringIs(p, A[l])'
      BY <3>2, <2>13 DEF StringIs
    <3> QED BY <3>1, <3>3
  <2>15. PICK c \in Int : c = 2 + n
    OBVIOUS
  <2>16. /\ \A h \in 1 .. k : ptrs'[c + h] = ptrs[c + h]
         /\ \A h \in 1 .. n : ptrs'[1 + h] = ptrs[1 + h]
         /\ ptrs'[c + (k + 1)] = p /\ Floor' <= p
         /\ Floor \in Int /\ Floor' \in Int /\ Floor' <= Floor
    <3>1. /\ \A h \in 1 .. k : c + h \in 1 .. Len(ptrs)
          /\ \A h \in 1 .. n : 1 + h \in 1 .. Len(ptrs)
          /\ c + (k + 1) = Len(ptrs) + 1
      BY <2>11, <2>15
    <3>2. Floor' <= p /\ Floor \in Int /\ Floor' \in Int /\ Floor' <= Floor
      BY ONLY <2>1, <2>4, <2>10, <2>12
    <3>3. /\ \A h \in 1 .. k : ptrs'[c + h] = ptrs[c + h]
          /\ \A h \in 1 .. n : ptrs'[1 + h] = ptrs[1 + h]
      BY <3>1, <2>4
    <3> QED BY <3>1, <3>2, <3>3, <2>4, <2>12
  <2>17. PointersTo(A, c, k + 1)'
    <3>1. PointersTo(A, c, k)
      BY <2>9, <2>15
    <3> QED BY ONLY <3>1, <2>4, <2>11, <2>14, <2>16, PointersStep
  <2>18. PointersTo(E, 1, n)'
    <3>1. 1 \in Int
      OBVIOUS
    <3> QED BY ONLY <3>1, <2>4, <2>9, <2>16, PointersStep
  <2>19. /\ (Len(argvS) - left)' = k + 1 /\ argvS' = A
         /\ (2 + Len(envS))' = c /\ envS' = E /\ Len(envS)' = n
    BY <2>1, <2>4, <2>5, <2>6, <2>7, <2>8, <2>15
  <2>20. PointersTo(argvS, 2 + Len(envS), Len(argvS) - left)'
    BY <2>17, <2>19 DEF PointersTo
  <2>21. PointersTo(envS, 1, Len(envS))'
    BY <2>18, <2>19 DEF PointersTo
  <2>22. ptrs'[1] = 0 /\ ptrs'[2 + n] = 0
    BY <2>4, <2>9, <2>11
  <2> QED BY <1>3, <2>4, <2>8, <2>19, <2>20, <2>21, <2>22 DEF ArrayInv
<1> QED BY <1>2, <1>3

\* The NULL behind the environment.
LEMMA EnvDoneKeeps ==
  ASSUME TabInv, ArrayInv, EnvDone
  PROVE  ArrayInv'
<1>1. /\ tables = "env" /\ left = 0 /\ tables' = "argv"
      /\ ptrs' = Append(ptrs, 0) /\ left' = Len(argvS)
      /\ UNCHANGED <<argvS, envS, stack_size, top, mem>>
  BY DEF EnvDone
<1>2. Len(envS) \in Nat /\ Len(argvS) \in Nat /\ Len(ptrs) = 1 + Len(envS) /\ top \in Int
  BY <1>1 DEF TabInv, Counted
<1>3. PICK T : ptrs \in Seq(T)
  BY DEF TabInv
<1>4. /\ \A i \in 1 .. Len(ptrs) : ptrs'[i] = ptrs[i]
      /\ ptrs'[Len(ptrs) + 1] = 0
  <2>1. /\ \A i \in 1 .. Len(ptrs) : Append(ptrs, 0)[i] = ptrs[i]
        /\ Append(ptrs, 0)[Len(ptrs) + 1] = 0
    BY <1>3
  <2> QED BY <2>1, <1>1
<1>5. PICK E : E = envS
  OBVIOUS
<1>6. PICK n \in Nat : n = Len(E)
  BY <1>2, <1>5
<1>7. PointersTo(E, 1, n) /\ ptrs[1] = 0
  BY <1>1, <1>2, <1>5, <1>6 DEF ArrayInv
<1>8. Floor = top /\ Floor' = top
  BY <1>1 DEF Floor
<1>9. \A p, t : StringIs(p, t) => StringIs(p, t)'
  BY <1>1 DEF StringIs
<1>10. \A h \in 1 .. n : ptrs'[1 + h] = ptrs[1 + h]
  <2>1. \A h \in 1 .. n : 1 + h \in 1 .. Len(ptrs)
    BY <1>2, <1>5, <1>6
  <2> QED BY <2>1, <1>4
<1>11. PointersTo(E, 1, n)'
  <2>1. 1 \in Int /\ Floor \in Int /\ Floor' \in Int /\ Floor' <= Floor
    BY ONLY <1>2, <1>8
  <2> QED BY ONLY <2>1, <1>7, <1>9, <1>10, PointersStep
<1>12. PointersTo(envS, 1, Len(envS))'
  BY <1>1, <1>5, <1>6, <1>11 DEF PointersTo
<1>13. ptrs'[1] = 0 /\ ptrs'[2 + n] = 0
  <2>1. 1 \in 1 .. Len(ptrs) /\ 2 + n = Len(ptrs) + 1
    BY <1>2, <1>5, <1>6
  <2> QED BY <2>1, <1>4, <1>7
<1>14. Above'
  BY <1>1 DEF ArrayInv, Above
<1>15. PointersTo(argvS, 2 + Len(envS), Len(argvS) - left)'
  <2>1. (Len(argvS) - left)' = 0
    BY <1>1, <1>2
  <2> QED BY <2>1 DEF PointersTo
<1> QED BY <1>1, <1>5, <1>6, <1>12, <1>13, <1>14, <1>15 DEF ArrayInv

\* argc, and the room for the auxiliary vector.
LEMMA ArgsDoneKeeps ==
  ASSUME TabInv, ArrayInv, Sane, ArgsDone
  PROVE  ArrayInv'
<1>1. /\ tables = "argv" /\ left = 0 /\ tables' = "ptrs"
      /\ ptrs' = ptrs \o LastPtrs /\ top' = BelowAuxv(top)
      /\ left' = Len(ptrs \o LastPtrs) /\ UNCHANGED <<argvS, envS, stack_size, mem>>
  BY DEF ArgsDone
<1>2. /\ Word \in Nat /\ Word > 0 /\ top \in Int /\ stack_size \in Nat
      /\ stack_limit \in Int /\ Len(envS) \in Nat /\ Len(argvS) \in Nat
      /\ Len(ptrs) = 2 + Len(envS) + Len(argvS)
  BY <1>1, StackAssumption DEF TabInv, Counted, stack_limit
<1>3. PICK T : ptrs \in Seq(T)
  BY DEF TabInv
<1>4. /\ \A i \in 1 .. Len(ptrs) : ptrs'[i] = ptrs[i]
      /\ ptrs'[Len(ptrs) + 1] = Len(argvS)
      /\ Len(ptrs') = Len(ptrs) + 1
  <2>1. ptrs \in Seq(T \cup {Len(argvS)}) /\ <<Len(argvS)>> \in Seq(T \cup {Len(argvS)})
    BY <1>3
  <2>2. ptrs' = ptrs \o <<Len(argvS)>>
    BY <1>1 DEF LastPtrs
  <2> QED BY <2>1, <2>2
<1>5. RoundDown(top) \in Int /\ RoundDown(top) <= top
  <2>1. top % Word \in 0 .. Word - 1
    BY <1>2
  <2> QED BY <2>1, <1>2 DEF RoundDown
<1>6. AuxvAt' = top'
  <2>1. Len(ptrs') - left' = 0
    BY <1>1, <1>2, <1>4
  <2>2. 0 * Word = 0 /\ top' \in Int
    BY <1>1, <1>2, <1>5 DEF BelowAuxv
  <2> QED BY <2>1, <2>2 DEF AuxvAt
<1>7. /\ top' \in Int /\ top' <= top /\ AuxvAt' \in Int
      /\ AuxvAt' + 2 * Word <= top /\ Floor' = AuxvAt' + 2 * Word
      /\ Floor = top
  BY <1>1, <1>2, <1>5, <1>6 DEF BelowAuxv, Floor
<1>8. PICK q \in Int : q = AuxvAt' + 2 * Word
  <2>1. top' + 2 * Word \in Int
    BY ONLY <1>2, <1>7
  <2> QED BY <2>1, <1>6
<1>9. q <= top /\ Floor' = q
  BY <1>7, <1>8
<1>10. AuxvAt' + 2 * Word <= stack_limit + stack_size
  <2>1. top <= stack_limit + stack_size - Word
    BY <1>1 DEF TabInv, Placed, Sane
  <2>2. q <= stack_limit + stack_size
    BY ONLY <2>1, <1>2, <1>9, q \in Int
  <2> QED BY <2>2, <1>8
<1>11. Above'
  <2>1. \A a \in DOMAIN mem : a \in Int /\ top <= a
    BY <1>1 DEF ArrayInv, Above
  <2>2. \A a \in DOMAIN mem : a \in Int /\ top' <= a /\ q <= a
    BY ONLY <2>1, <1>2, <1>7, <1>9, q \in Int
  <2> QED BY <2>2, <1>1, <1>8 DEF Above
<1>12. PICK E : E = envS
  OBVIOUS
<1>13. PICK A : A = argvS
  OBVIOUS
<1>14. PICK n \in Nat : n = Len(E)
  BY <1>2, <1>12
<1>15. PICK k \in Nat : k = Len(A)
  BY <1>2, <1>13
<1>16. /\ PointersTo(A, 2 + n, k) /\ PointersTo(E, 1, n)
       /\ ptrs[1] = 0 /\ ptrs[2 + n] = 0
  <2>1. Len(argvS) - left = k
    BY <1>1, <1>2, <1>13, <1>15
  <2> QED BY <2>1, <1>1, <1>12, <1>13, <1>14, <1>15 DEF ArrayInv
<1>17. PICK c \in Int : c = 2 + n
  OBVIOUS
<1>18. \A p, t : StringIs(p, t) => StringIs(p, t)'
  BY <1>1 DEF StringIs
<1>19. /\ \A h \in 1 .. k : ptrs'[c + h] = ptrs[c + h]
       /\ \A h \in 1 .. n : ptrs'[1 + h] = ptrs[1 + h]
       /\ ptrs'[1] = 0 /\ ptrs'[2 + n] = 0
  <2>1. /\ \A h \in 1 .. k : c + h \in 1 .. Len(ptrs)
        /\ \A h \in 1 .. n : 1 + h \in 1 .. Len(ptrs)
        /\ 1 \in 1 .. Len(ptrs) /\ 2 + n \in 1 .. Len(ptrs)
    BY <1>2, <1>12, <1>13, <1>14, <1>15, <1>17
  <2> QED BY <2>1, <1>4, <1>16
<1>20. Floor \in Int /\ Floor' \in Int /\ Floor' <= Floor
  BY ONLY <1>2, <1>7, <1>9, q \in Int
<1>21. PointersTo(A, c, k)'
  <2>1. PointersTo(A, c, k)
    BY <1>16, <1>17
  <2> QED BY ONLY <2>1, <1>18, <1>19, <1>20, PointersStep
<1>22. PointersTo(E, 1, n)'
  <2>1. 1 \in Int
    OBVIOUS
  <2> QED BY ONLY <2>1, <1>16, <1>18, <1>19, <1>20, PointersStep
<1>23. PointersTo(argvS, 2 + Len(envS), Len(argvS))'
  BY <1>1, <1>12, <1>13, <1>14, <1>15, <1>17, <1>21 DEF PointersTo
<1>24. PointersTo(envS, 1, Len(envS))'
  BY <1>1, <1>12, <1>14, <1>22 DEF PointersTo
<1>25. /\ ptrs'[1] = 0 /\ ptrs'[2 + Len(envS')] = 0
       /\ ptrs'[3 + Len(envS') + Len(argvS')] = Len(argvS')
  <2>1. Len(ptrs) + 1 = 3 + Len(envS) + Len(argvS)
    BY <1>2
  <2> QED BY <2>1, <1>1, <1>4, <1>12, <1>14, <1>19
<1>26. left' = Len(ptrs') /\ Len(ptrs') \in Nat
  BY <1>1, <1>2, <1>4
<1>27. \A i \in 1 .. Len(ptrs') - left' : FALSE
  BY <1>26
<1> QED BY <1>1, <1>10, <1>11, <1>23, <1>24, <1>25, <1>26, <1>27 DEF ArrayInv

\* A pointer goes where it belongs, and moves nothing.
LEMMA PushPointerKeeps ==
  ASSUME TabInv, ArrayInv, Sane, PushPointer
  PROVE  ArrayInv'
<1>1. tables = "ptrs" /\ left > 0 /\ UNCHANGED <<argvS, envS, stack_size, ptrs>>
  BY DEF PushPointer, Killed
<1>2. CASE Faults(top - Word, Word)
  <2>1. tables' = "killed"
    BY <1>2 DEF PushPointer, Killed
  <2> QED BY <2>1 DEF ArrayInv
<1>3. CASE ~ Faults(top - Word, Word)
  <2>1. /\ top' = top - Word /\ mem' = Copied(top - Word, Word, "word", Pointer)
        /\ left' = left - 1 /\ tables' = "ptrs"
    BY <1>1, <1>3 DEF PushPointer
  <2>2. /\ Word \in Nat /\ Word > 0 /\ Guard \in Nat /\ Guard >= 5 * Word
        /\ StackAt \in Nat /\ stack_limit = StackAt + Guard
        /\ top \in Int /\ left \in Nat /\ Len(ptrs) \in Nat /\ left <= Len(ptrs)
    <3>1. Len(ptrs) = PtrsCapacity /\ left <= Len(ptrs)
      BY <1>1 DEF TabInv, Counted
    <3>2. PtrsCapacity \in Nat
      BY DEF TabInv, PtrsCapacity
    <3> QED BY <3>1, <3>2, StackAssumption DEF TabInv, stack_limit
  <2>3. stack_limit - 5 * Word < top
    BY <1>1 DEF TabInv, Placed, Sane
  <2>4. stack_limit <= top'
    <3>1. top - Word \in Int /\ top - Word + Word > StackAt
      BY <2>2, <2>3
    <3> QED BY <3>1, <2>1, <2>2, <1>3, NoFault
  <2>5. PICK W \in Nat : W = Word
    BY <2>2
  <2>6. PICK d \in Nat : d = Len(ptrs) - left
    <3>1. Len(ptrs) - left \in Nat
      BY ONLY <2>2
    <3> QED BY <3>1
  <2>7. /\ AuxvAt = top + d * W /\ d * W \in Nat
        /\ (d + 1) * W = d * W + W
    <3>1. d * W \in Nat /\ (d + 1) * W = d * W + W
      OBVIOUS
    <3> QED BY <3>1, <2>5, <2>6 DEF AuxvAt
  <2>8. AuxvAt' = AuxvAt /\ AuxvAt \in Int /\ top' = AuxvAt - (d + 1) * W
    <3>1. (Len(ptrs) - left)' = d + 1
      BY <1>1, <2>1, <2>2, <2>6
    <3>2. AuxvAt' = top' + (d + 1) * W
      BY <3>1, <2>5 DEF AuxvAt
    <3> DEFINE m == d * W   u == (d + 1) * W
    <3>3. m \in Nat /\ u = m + W /\ AuxvAt = top + m /\ AuxvAt' = top' + u /\ top' = top - W
      BY <3>2, <2>1, <2>5, <2>7
    <3> HIDE DEF m, u
    <3>4. AuxvAt' = AuxvAt /\ AuxvAt \in Int /\ top' = AuxvAt - u
      BY ONLY <3>3, <2>2, W \in Nat
    <3> QED BY <3>4 DEF u
  <2>9. PICK b \in Int : b = top'
    BY <2>1, <2>2
  <2>10. PICK w : w = Pointer
    OBVIOUS
  <2>11. \A a \in DOMAIN mem : a \in Int /\ top <= a /\ (a < AuxvAt \/ AuxvAt + 2 * Word <= a)
    BY <1>1 DEF ArrayInv, Above
  <2>12. /\ mem' = Copied(b, W, "word", w)
         /\ \A a \in DOMAIN mem : a \in Int /\ b + W <= a
    BY <2>1, <2>2, <2>5, <2>9, <2>10, <2>11
  <2>13. /\ \A a \in DOMAIN mem : a \in DOMAIN mem' /\ mem'[a] = mem[a]
         /\ \A a \in 0 .. W - 1 : b + a \in DOMAIN mem' /\ mem'[b + a] = <<"word", w, a>>
         /\ DOMAIN mem' = DOMAIN mem \cup (b .. b + W - 1)
    BY ONLY <2>12, b \in Int, W \in Nat, CopiedKeeps
  <2>14. /\ \A p, s : StringIs(p, s) => StringIs(p, s)'
         /\ \A p, v : WordWritten(p, v) => WordWritten(p, v)'
    BY <2>13, KeptStrings
  <2>15. Above'
    <3> SUFFICES ASSUME NEW a \in DOMAIN mem'
                 PROVE  a \in Int /\ top' <= a /\ (a < AuxvAt' \/ AuxvAt' + 2 * Word <= a)
      BY DEF Above
    <3>1. CASE a \in DOMAIN mem
      <4>1. a \in Int /\ top <= a /\ (a < AuxvAt' \/ AuxvAt' + 2 * Word <= a)
        BY <2>8, <2>11, <3>1
      <4> QED BY <4>1, <2>1, <2>2
    <3>2. CASE a \in b .. b + W - 1
      <4>1. a \in Int /\ top' <= a /\ a < top
        BY <3>2, <2>1, <2>2, <2>5, <2>9
      <4>2. top <= AuxvAt
        <5> DEFINE m == d * W
        <5>1. m \in Nat /\ AuxvAt = top + m
          BY <2>7
        <5> HIDE DEF m
        <5> QED BY <5>1, <2>2
      <4> QED BY <4>1, <4>2, <2>2, <2>8
    <3> QED BY <3>1, <3>2, <2>13
  <2>16. Floor = AuxvAt + 2 * Word /\ Floor' = Floor /\ Floor \in Int
    BY <1>1, <2>1, <2>2, <2>8 DEF Floor
  <2>17. PICK E : E = envS
    OBVIOUS
  <2>18. PICK A : A = argvS
    OBVIOUS
  <2>19. PICK n \in Nat : n = Len(E)
    BY <2>17 DEF TabInv
  <2>20. PICK k \in Nat : k = Len(A)
    BY <2>18 DEF TabInv
  <2>21. PICK c \in Int : c = 2 + n
    OBVIOUS
  <2>22. PointersTo(E, 1, n) /\ PointersTo(A, c, k)
    BY <1>1, <2>17, <2>18, <2>19, <2>20, <2>21 DEF ArrayInv
  <2>23. ptrs' = ptrs /\ 1 \in Int /\ Floor' \in Int /\ Floor' <= Floor
    BY <1>1, <2>16
  <2>24. /\ \A h \in 1 .. n : ptrs'[1 + h] = ptrs[1 + h]
         /\ \A h \in 1 .. k : ptrs'[c + h] = ptrs[c + h]
    BY <2>23
  <2>25. PointersTo(E, 1, n)' /\ PointersTo(A, c, k)'
    <3>1. PointersTo(E, 1, n)'
      BY ONLY <2>14, <2>16, <2>22, <2>23, <2>24, PointersStep
    <3>2. PointersTo(A, c, k)'
      BY ONLY <2>14, <2>16, <2>22, <2>23, <2>24, PointersStep
    <3> QED BY <3>1, <3>2
  <2>26. /\ PointersTo(envS, 1, Len(envS))'
         /\ PointersTo(argvS, 2 + Len(envS), Len(argvS))'
    <3>1. PointersTo(envS, 1, Len(envS))'
      BY <1>1, <2>17, <2>19, <2>25 DEF PointersTo
    <3>2. PointersTo(argvS, 2 + Len(envS), Len(argvS))'
      BY <1>1, <2>17, <2>18, <2>19, <2>20, <2>21, <2>25 DEF PointersTo
    <3> QED BY <3>1, <3>2
  <2>27. WordWritten(b, w)'
    BY <2>5, <2>13 DEF WordWritten
  <2>28. ASSUME NEW i \in 1 .. d + 1
         PROVE  WordWritten(AuxvAt - i * Word, ptrs[i])'
    <3>1. PICK p : p = AuxvAt - i * Word
      OBVIOUS
    <3>2. PICK v : v = ptrs[i]
      OBVIOUS
    <3>3. (AuxvAt - i * Word)' = p /\ ptrs'[i] = v
      BY <3>1, <3>2, <2>8, <2>23
    <3>4. CASE i \in 1 .. d
      <4>1. WordWritten(p, v)
        BY <3>1, <3>2, <3>4, <1>1, <2>6 DEF ArrayInv
      <4>2. WordWritten(p, v)'
        BY <4>1, <2>14
      <4> QED BY <4>2, <3>3 DEF WordWritten
    <3>5. CASE i = d + 1
      <4>1. p = b
        BY <3>1, <3>5, <2>5, <2>8, <2>9
      <4>2. v = w
        BY <3>2, <3>5, <2>6, <2>10 DEF Pointer
      <4> QED BY <4>1, <4>2, <2>27, <3>3 DEF WordWritten
    <3> QED BY <3>4, <3>5
  <2>29. \A i \in 1 .. Len(ptrs') - left' : WordWritten(AuxvAt - i * Word, ptrs[i])'
    <3>1. Len(ptrs') - left' = d + 1
      BY <1>1, <2>1, <2>2, <2>6
    <3> QED BY <3>1, <2>28
  <2>30. /\ ptrs'[1] = 0 /\ ptrs'[2 + Len(envS')] = 0
         /\ ptrs'[3 + Len(envS') + Len(argvS')] = Len(argvS')
         /\ left' <= Len(ptrs')
    BY <1>1, <2>1, <2>2 DEF ArrayInv
  <2>31. AuxvAt' + 2 * Word <= stack_limit + stack_size'
    BY <1>1, <2>8 DEF ArrayInv
  <2> QED BY <2>1, <2>4, <2>15, <2>26, <2>29, <2>30, <2>31 DEF ArrayInv
<1> QED BY <1>2, <1>3

\* Every step of create_elf_tables keeps what it has written.
LEMMA TableStep ==
  ASSUME StartupInv, TableInv, [Next]_vars
  PROVE  TableInv'
<1>1. CASE StackStep
  <2> SUFFICES ASSUME Sane' PROVE ArrayInv'
    BY DEF TableInv
  <2>0. TabInv
    BY DEF StartupInv
  <2>1. CASE MapStack(BprmArgv, BprmEnvp, guest_stack_size)
    <3>1. /\ tables' = "env" /\ ptrs' = <<0>> /\ left' = Len(envS') /\ mem' = mem
          /\ DOMAIN mem = {}
      BY <2>0, <2>1 DEF MapStack, TabInv
    <3>2. Len(envS)' \in Nat
      <4>1. StartupInv'
        BY NextInv
      <4> QED BY <4>1 DEF StartupInv, TabInv
    <3>3. (Len(envS) - left)' = 0
      BY <3>1, <3>2
    <3>4. PointersTo(envS, 1, Len(envS) - left)'
      BY <3>3 DEF PointersTo
    <3>5. Above' /\ ptrs'[1] = 0
      BY <3>1 DEF Above
    <3> QED BY <3>1, <3>4, <3>5 DEF ArrayInv
  <2>2. CASE MapStackFails
    BY <2>2 DEF MapStackFails, ArrayInv
  <2>3. CASE CreateElfTables
    <3>1. stack_size' = stack_size
      BY <2>3 DEF CreateElfTables, PushEnv, EnvDone, PushArg, ArgsDone, PushPointer,
                  TablesDone, PushString, Killed
    <3>2. Sane /\ ArrayInv
      BY <3>1 DEF Sane, TableInv
    <3>3. CASE PushEnv
      BY <3>2, <3>3, <2>0, PushEnvKeeps
    <3>4. CASE EnvDone
      BY <3>2, <3>4, <2>0, EnvDoneKeeps
    <3>5. CASE PushArg
      BY <3>2, <3>5, <2>0, PushArgKeeps
    <3>6. CASE ArgsDone
      BY <3>2, <3>6, <2>0, ArgsDoneKeeps
    <3>7. CASE PushPointer
      BY <3>2, <3>7, <2>0, PushPointerKeeps
    <3>8. CASE TablesDone
      <4>1. /\ tables = "ptrs" /\ left = 0 /\ tables' = "done"
            /\ UNCHANGED <<argvS, envS, stack_size, left, ptrs, top, mem>>
        BY <3>8 DEF TablesDone
      <4>2. AuxvAt' = AuxvAt /\ Floor' = Floor
        BY <4>1 DEF AuxvAt, Floor
      <4>3. \A s, i, k : PointersTo(s, i, k) => PointersTo(s, i, k)'
        BY <4>1, <4>2 DEF PointersTo, StringIs
      <4>4. \A p, w : WordWritten(p, w) => WordWritten(p, w)'
        BY <4>1 DEF WordWritten
      <4>5. /\ PointersTo(envS, 1, Len(envS))
            /\ PointersTo(argvS, 2 + Len(envS), Len(argvS))
        BY <3>2, <4>1 DEF ArrayInv
      <4>6. /\ PointersTo(envS, 1, Len(envS))'
            /\ PointersTo(argvS, 2 + Len(envS), Len(argvS))'
        BY <4>1, <4>2, <4>5 DEF PointersTo, StringIs
      <4>7. \A i \in 1 .. Len(ptrs') - left' : WordWritten(AuxvAt - i * Word, ptrs[i])'
        BY <3>2, <4>1, <4>2 DEF ArrayInv, WordWritten
      <4>8. Above'
        BY <3>2, <4>1, <4>2 DEF ArrayInv, Above
      <4> QED BY <3>2, <4>1, <4>2, <4>6, <4>7, <4>8 DEF ArrayInv
    <3> QED BY <2>3, <3>3, <3>4, <3>5, <3>6, <3>7, <3>8 DEF CreateElfTables
  <2> QED BY <1>1, <2>1, <2>2, <2>3 DEF StackStep
<1>2. CASE UNCHANGED tabVars
  <2>1. UNCHANGED <<tables, argvS, envS, stack_size, left, ptrs, top, mem>>
    BY <1>2 DEF tabVars
  <2>2. AuxvAt' = AuxvAt /\ Floor' = Floor /\ (Sane' <=> Sane)
    BY <2>1 DEF AuxvAt, Floor, Sane
  <2>3. /\ PointersTo(envS, 1, Len(envS)) <=> PointersTo(envS, 1, Len(envS))'
        /\ PointersTo(envS, 1, Len(envS) - left) <=> PointersTo(envS, 1, Len(envS) - left)'
        /\ PointersTo(argvS, 2 + Len(envS), Len(argvS))
             <=> PointersTo(argvS, 2 + Len(envS), Len(argvS))'
        /\ PointersTo(argvS, 2 + Len(envS), Len(argvS) - left)
             <=> PointersTo(argvS, 2 + Len(envS), Len(argvS) - left)'
    BY <2>1, <2>2 DEF PointersTo, StringIs
  <2>4. Above' <=> Above
    BY <2>1, <2>2 DEF Above
  <2>5. \A i : WordWritten(AuxvAt - i * Word, ptrs[i]) => WordWritten(AuxvAt - i * Word, ptrs[i])'
    BY <2>1, <2>2 DEF WordWritten
  <2> QED BY <2>1, <2>2, <2>3, <2>4, <2>5 DEF TableInv, ArrayInv
<1>3. [Next]_vars => StackStep \/ UNCHANGED tabVars
  BY DEF Next, Step, Started, ParseStep, PathStep, LoadStep, StartHart, vars
<1> QED BY <1>1, <1>2, <1>3

\* The strings create_elf_tables is given are those of the command line from
\* the program on, and the whole environment.
LEMMA BprmIs ==
  ASSUME NEW m, IsVector(m), prog_argv \in 1 .. Len(Args), prog_envp = Len(Args) + 2
  PROVE  /\ BprmArgv = <<Filename>> \o Strs(SubSeq(Args, prog_argv + 1, Len(Args)))
         /\ BprmEnvp = Strs(Env)
<1>1. /\ Args \in Seq(Strings) /\ Len(Args) = m - 1
      /\ \A k \in 1 .. m - 1 : Args[k] = vec[k]
      /\ m \in Nat /\ m >= 1 /\ m < Len(vec) /\ Len(vec) \in Nat
  BY ArgsAre
<1>2. vec \in Seq(Strings \cup {NULL})
  BY DEF IsVector
<1>3. PICK j \in 1 .. m - 1 : j = prog_argv
  BY <1>1
<1>4. NextNull(j) = m /\ NextNull(m + 1) = Len(vec)
  <2>1. j \in 1 .. Len(vec) /\ m + 1 \in 1 .. Len(vec) /\ j <= m /\ ~ (m + 1 <= m)
    BY <1>1
  <2> QED BY <2>1, NextNullIs
<1>5. BprmEnvp = Strs(Env)
  <2>1. Len(Args) + 2 = m + 1
    BY <1>1
  <2> QED BY <2>1, <1>4 DEF BprmEnvp, StringsFrom, Env
<1> DEFINE X == SubSeq(vec, j, m - 1)   Y == SubSeq(Args, j + 1, m - 1)
<1>6. /\ Len(X) = m - j /\ \A h \in 1 .. m - j : X[h] = vec[j + h - 1]
      /\ m - j \in Nat /\ m - j >= 1
  BY <1>1, <1>2
<1>7. /\ Len(Y) = m - j - 1 /\ \A h \in 1 .. m - j - 1 : Y[h] = Args[j + h]
  <2>1. j + 1 \in 1 .. Len(Args) + 1 /\ m - 1 \in Int
    BY <1>1
  <2>2. CASE j + 1 <= m - 1
    BY <2>1, <2>2, <1>1
  <2>3. CASE ~ (j + 1 <= m - 1)
    <3>1. Y = <<>> /\ m - j - 1 = 0
      BY <2>1, <2>3, <1>1
    <3>2. Len(Y) = 0
      BY <3>1
    <3>3. \A h \in 1 .. m - j - 1 : FALSE
      BY <3>1
    <3> QED BY <3>1, <3>2, <3>3
  <2> QED BY <2>2, <2>3
<1>8. \A h \in 1 .. m - j - 1 : X[h + 1] = Y[h]
  <2> TAKE h \in 1 .. m - j - 1
  <2>1. h + 1 \in 1 .. m - j /\ j + (h + 1) - 1 = j + h /\ j + h \in 1 .. m - 1
    BY <1>1
  <2>2. X[h + 1] = vec[j + h]
    BY <2>1, <1>6
  <2> QED BY <2>1, <2>2, <1>1, <1>7
<1> HIDE DEF X, Y
<1>9. Tail(Strs(X)) = Strs(Y)
  <2> DEFINE R == {String(X[h]) : h \in 1 .. m - j}
  <2>1. Strs(X) \in Seq(R) /\ Len(Strs(X)) = m - j /\ Strs(X) # <<>>
    <3>1. Strs(X) = [h \in 1 .. m - j |-> String(X[h])]
      BY <1>6 DEF Strs
    <3>2. \A h \in 1 .. m - j : String(X[h]) \in R
      OBVIOUS
    <3> HIDE DEF R
    <3>3. Strs(X) \in Seq(R) /\ Len(Strs(X)) = m - j
      BY <3>1, <3>2, <1>6
    <3> QED BY <3>3, <1>6
  <2> HIDE DEF R
  <2>2. PICK S \in Seq(R) : S = Strs(X)
    BY <2>1
  <2>3. Len(S) = m - j /\ S # <<>> /\ \A h \in 1 .. m - j : S[h] = String(X[h])
    BY <2>1, <2>2, <1>6 DEF Strs
  <2>4. /\ Tail(S) \in Seq(R) /\ Len(Tail(S)) = m - j - 1
        /\ \A h \in 1 .. m - j - 1 : Tail(S)[h] = S[h + 1]
    BY <2>3, <1>6, HeadTailProperties
  <2>5. \A h \in 1 .. m - j - 1 : Tail(S)[h] = String(Y[h])
    <3> TAKE h \in 1 .. m - j - 1
    <3>1. h + 1 \in 1 .. m - j
      BY <1>1
    <3> QED BY <3>1, <2>3, <2>4, <1>8
  <2>6. Tail(S) = [h \in 1 .. m - j - 1 |-> Tail(S)[h]]
    <3>1. PICK U \in Seq(R) : U = Tail(S)
      BY <2>4
    <3>2. PICK l \in Nat : l = m - j - 1
      BY <1>1
    <3>3. Len(U) = l
      BY <3>1, <3>2, <2>4
    <3>4. U = [h \in 1 .. l |-> U[h]]
      BY ONLY <3>3, U \in Seq(R)
    <3> QED BY <3>1, <3>2, <3>4
  <2>7. Strs(Y) = [h \in 1 .. m - j - 1 |-> String(Y[h])]
    BY <1>7 DEF Strs
  <2> QED BY <2>2, <2>5, <2>6, <2>7
<1>10. StringsFrom(prog_argv) = X
  BY <1>3, <1>4 DEF StringsFrom, X
<1>11. SubSeq(Args, prog_argv + 1, Len(Args)) = Y
  BY <1>1, <1>3 DEF Y
<1> QED BY <1>5, <1>9, <1>10, <1>11 DEF BprmArgv

\* The words at the stack pointer are the array of pointers, from its last on.
LEMMA WordAt ==
  ASSUME StartupInv, ArrayInv, tables = "done",
         NEW x \in 0 .. Len(ptrs) - 1
  PROVE  WordIs(top + x * Word, ptrs[Len(ptrs) - x])
<1>1. /\ Len(ptrs) \in Nat /\ top \in Int /\ left = 0 /\ Word \in Nat
  <2>1. Len(ptrs) = PtrsCapacity
    BY DEF StartupInv, TabInv, Counted
  <2> QED BY <2>1, StackAssumption DEF StartupInv, TabInv, PtrsCapacity, ArrayInv
<1>2. PICK n \in Nat : n = Len(ptrs)
  BY <1>1
<1>3. PICK i \in 1 .. n : i = n - x
  BY <1>2
<1>4. AuxvAt - i * Word = top + x * Word
  <2>1. n - left = n
    BY <1>1
  <2>2. AuxvAt = top + n * Word
    BY <2>1, <1>2 DEF AuxvAt
  <2>3. PICK W \in Int : W = Word
    BY <1>1
  <2>4. i * W \in Int /\ x * W \in Int /\ (i + x) * W = i * W + x * W
    OBVIOUS
  <2>5. i + x = n
    BY <1>3
  <2>6. n * W = i * W + x * W
    BY <2>4, <2>5
  <2> DEFINE u == i * W   v == x * W   z == n * W
  <2>7. u \in Int /\ v \in Int /\ z = u + v /\ AuxvAt = top + z
    BY <2>2, <2>3, <2>4, <2>6
  <2> HIDE DEF u, v, z
  <2>8. AuxvAt - u = top + v
    BY ONLY <2>7, <1>1
  <2> QED BY <2>8, <2>3 DEF u, v
<1>5. WordWritten(AuxvAt - i * Word, ptrs[i])
  <2>1. i \in 1 .. Len(ptrs) - left
    BY <1>1, <1>2
  <2> QED BY <2>1 DEF ArrayInv
<1>6. WordWritten(top + x * Word, ptrs[n - x])
  BY <1>3, <1>4, <1>5
<1> QED BY <1>2, <1>6 DEF WordWritten, WordIs, Byte

\* Pointers to the strings, the first one lowest, and a NULL above them.
LEMMA ArrayAt ==
  ASSUME StartupInv, ArrayInv, tables = "done", NEW strings,
         Len(strings) \in Nat, \A h \in 1 .. Len(strings) : strings[h].len \in Nat,
         NEW i \in 1 .. Len(ptrs), NEW x \in 1 .. Len(ptrs),
         i + Len(strings) + x = Len(ptrs), ptrs[i] = 0,
         PointersTo(strings, i, Len(strings))
  PROVE  ArrayIs(top + x * Word, strings)
<1>1. /\ Len(ptrs) \in Nat /\ top \in Int
  <2>1. Len(ptrs) = PtrsCapacity
    BY DEF StartupInv, TabInv, Counted
  <2> QED BY <2>1 DEF StartupInv, TabInv, PtrsCapacity
<1>2. PICK W \in Int : W = Word
  BY StackAssumption
<1>3. PICK k \in Nat : k = Len(strings)
  OBVIOUS
<1>4. ASSUME NEW y \in Nat
      PROVE  top + x * Word + y * Word = top + (x + y) * Word
  <2>1. (x + y) * W = x * W + y * W /\ x * W \in Int /\ y * W \in Int
    OBVIOUS
  <2> DEFINE u == x * W   v == y * W   z == (x + y) * W
  <2>2. u \in Int /\ v \in Int /\ z = u + v
    BY <2>1
  <2> HIDE DEF u, v, z
  <2>3. top + u + v = top + z
    BY ONLY <2>2, <1>1
  <2> QED BY <2>3, <1>2 DEF u, v, z
<1>5. ASSUME NEW h \in 1 .. k
      PROVE  \E p \in DOMAIN mem :
               WordIs(top + x * Word + (h - 1) * Word, p) /\ StringIs(p, strings[h])
  <2>1. /\ h - 1 \in Nat /\ x + (h - 1) \in 0 .. Len(ptrs) - 1
        /\ Len(ptrs) - (x + (h - 1)) = i + (k + 1 - h) /\ k + 1 - h \in 1 .. k
        /\ k + 1 - (k + 1 - h) = h
    BY <1>1, <1>3
  <2>2. PICK y \in 0 .. Len(ptrs) - 1 : y = x + (h - 1)
    BY <2>1
  <2>3. PICK g \in 1 .. k : g = k + 1 - h
    BY <2>1
  <2>4. PICK p : p = ptrs[i + g]
    OBVIOUS
  <2>5. p \in Int /\ StringIs(p, strings[h])
    <3>1. /\ ptrs[i + g] \in Int
          /\ StringIs(ptrs[i + g], strings[Len(strings) + 1 - g])
      BY <1>3 DEF PointersTo
    <3>2. Len(strings) + 1 - g = h
      BY <1>3, <2>1, <2>3
    <3> QED BY <2>4, <3>1, <3>2
  <2>6. WordIs(top + y * Word, p)
    <3>1. WordIs(top + y * Word, ptrs[Len(ptrs) - y])
      BY WordAt
    <3> QED BY <3>1, <2>1, <2>2, <2>3, <2>4
  <2>7. top + x * Word + (h - 1) * Word = top + y * Word
    BY <2>1, <2>2, <1>4
  <2>8. p \in DOMAIN mem
    <3>1. strings[h].len \in Nat
      BY <1>3
    <3>2. 0 \in 0 .. strings[h].len /\ p + 0 = p
      BY <3>1, <2>5
    <3> QED BY <3>2, <2>5 DEF StringIs
  <2> QED BY <2>5, <2>6, <2>7, <2>8
<1>6. WordIs(top + x * Word + k * Word, 0)
  <2>1. x + k \in 0 .. Len(ptrs) - 1 /\ Len(ptrs) - (x + k) = i
    BY <1>1, <1>3
  <2>2. PICK y \in 0 .. Len(ptrs) - 1 : y = x + k
    BY <2>1
  <2>3. WordIs(top + y * Word, ptrs[Len(ptrs) - y])
    BY WordAt
  <2>4. top + x * Word + k * Word = top + y * Word
    BY <2>2, <1>4
  <2> QED BY <2>1, <2>2, <2>3, <2>4
<1> QED BY <1>3, <1>5, <1>6 DEF ArrayIs

\* What create_elf_tables leaves at the stack pointer.
LEMMA TablesAt ==
  ASSUME StartupInv, ArrayInv, tables = "done"
  PROVE  LET argv == top + Word
             envp == argv + (Len(argvS) + 1) * Word
             auxv == envp + (Len(envS) + 1) * Word
         IN  /\ WordIs(top, Len(argvS))
             /\ ArrayIs(argv, argvS)
             /\ ArrayIs(envp, envS)
             /\ WordIs(auxv, 0) /\ WordIs(auxv + Word, 0)
<1> DEFINE argv == top + Word
           envp == argv + (Len(argvS) + 1) * Word
           auxv == envp + (Len(envS) + 1) * Word
<1>1. /\ top \in Int /\ Len(argvS) \in Nat /\ Len(envS) \in Nat
      /\ \A h \in 1 .. Len(envS) : envS[h].len \in Nat
      /\ \A h \in 1 .. Len(argvS) : argvS[h].len \in Nat
      /\ Len(ptrs) = 3 + Len(envS) + Len(argvS)
      /\ stack_size \in Nat
  BY DEF StartupInv, TabInv, Counted, PtrsCapacity
<1>2. PICK W \in Nat : W = Word /\ W > 0
  BY StackAssumption
<1>3. PICK E : E = envS
  OBVIOUS
<1>4. PICK A : A = argvS
  OBVIOUS
<1>5. PICK n \in Nat : n = Len(E)
  BY <1>1, <1>3
<1>6. PICK k \in Nat : k = Len(A)
  BY <1>1, <1>4
<1>7. /\ PointersTo(A, 2 + n, k) /\ PointersTo(E, 1, n)
      /\ ptrs[1] = 0 /\ ptrs[2 + n] = 0 /\ ptrs[3 + n + k] = k
      /\ left = 0 /\ stack_limit <= top
      /\ AuxvAt + 2 * Word <= stack_limit + stack_size
  <2>1. left < Len(ptrs) <=> 0 < 3 + Len(envS) + Len(argvS)
    BY <1>1 DEF ArrayInv
  <2> QED BY <2>1, <1>1, <1>3, <1>4, <1>5, <1>6 DEF ArrayInv
<1>8. Len(ptrs) = 3 + n + k
  BY <1>1, <1>3, <1>4, <1>5, <1>6
<1>9. /\ 1 * W = W /\ 0 * W = 0 /\ (k + 1) * W \in Nat /\ (n + 1) * W \in Nat
      /\ (k + 2) * W = W + (k + 1) * W
      /\ (3 + n + k) * W = (k + 2) * W + (n + 1) * W
      /\ (3 + n + k) * W \in Nat
  <2>1. /\ (k + 1) * W = k * W + W /\ (k + 2) * W = k * W + 2 * W /\ k * W \in Nat
        /\ n * W \in Nat /\ (n + 1) * W = n * W + W
        /\ (3 + n + k) * W = 3 * W + n * W + k * W
    OBVIOUS
  <2> DEFINE u == k * W   v == n * W
  <2>2. u \in Nat /\ v \in Nat
    BY <2>1
  <2>3. /\ (k + 1) * W = u + W /\ (k + 2) * W = u + 2 * W /\ (n + 1) * W = v + W
        /\ (3 + n + k) * W = 3 * W + v + u
    BY <2>1
  <2> HIDE DEF u, v
  <2> QED BY <2>2, <2>3
<1>10. /\ argv = top + 1 * Word
       /\ envp = top + (k + 2) * Word
       /\ auxv = top + (3 + n + k) * Word
  <2> DEFINE a == (k + 1) * W   b == (n + 1) * W   c == (k + 2) * W   d == (3 + n + k) * W
  <2>1. /\ a \in Nat /\ b \in Nat /\ c = W + a /\ d = c + b /\ 1 * W = W
    BY <1>9
  <2>2. argv = top + W /\ envp = argv + a /\ auxv = envp + b
    BY <1>2, <1>3, <1>4, <1>5, <1>6
  <2> HIDE DEF a, b, c, d, argv, envp, auxv
  <2>3. envp = top + c /\ auxv = top + d
    BY ONLY <2>1, <2>2, <1>1, W \in Nat
  <2>4. argv = top + 1 * W
    BY <2>1, <2>2
  <2> QED BY <2>3, <2>4, <1>2 DEF c, d
<1>11. WordIs(top, Len(argvS))
  <2>1. 0 \in 0 .. Len(ptrs) - 1 /\ Len(ptrs) - 0 = 3 + n + k
    BY <1>8
  <2>2. WordIs(top + 0 * Word, ptrs[Len(ptrs) - 0])
    BY <2>1, WordAt
  <2>3. top + 0 * Word = top
    BY <1>1, <1>2, <1>9
  <2> QED BY <2>1, <2>2, <2>3, <1>4, <1>6, <1>7
<1>12. ArrayIs(argv, argvS)
  <2>1. PICK i \in 1 .. Len(ptrs) : i = 2 + n
    BY <1>8
  <2>2. PICK x \in 1 .. Len(ptrs) : x = 1
    BY <1>8
  <2>3. i + Len(A) + x = Len(ptrs) /\ ptrs[i] = 0 /\ PointersTo(A, i, Len(A))
    BY <2>1, <2>2, <1>6, <1>7, <1>8
  <2>4. Len(A) \in Nat /\ \A h \in 1 .. Len(A) : A[h].len \in Nat
    BY <1>1, <1>4
  <2>5. ArrayIs(top + x * Word, A)
    BY ONLY StartupInv, ArrayInv, tables = "done", <2>3, <2>4,
            i \in 1 .. Len(ptrs), x \in 1 .. Len(ptrs), ArrayAt
  <2>6. argv = top + x * Word
    BY <2>2, <1>10
  <2> QED BY <2>5, <2>6, <1>4
<1>13. ArrayIs(envp, envS)
  <2>1. PICK i \in 1 .. Len(ptrs) : i = 1
    BY <1>8
  <2>2. PICK x \in 1 .. Len(ptrs) : x = k + 2
    BY <1>8
  <2>3. i + Len(E) + x = Len(ptrs) /\ ptrs[i] = 0 /\ PointersTo(E, i, Len(E))
    BY <2>1, <2>2, <1>5, <1>7, <1>8
  <2>4. Len(E) \in Nat /\ \A h \in 1 .. Len(E) : E[h].len \in Nat
    BY <1>1, <1>3
  <2>5. ArrayIs(top + x * Word, E)
    BY ONLY StartupInv, ArrayInv, tables = "done", <2>3, <2>4,
            i \in 1 .. Len(ptrs), x \in 1 .. Len(ptrs), ArrayAt
  <2>6. envp = top + x * Word
    BY <2>2, <1>10
  <2> QED BY <2>5, <2>6, <1>3
<1>14. auxv = AuxvAt
  <2>1. Len(ptrs) - left = 3 + n + k
    BY <1>7, <1>8
  <2> QED BY <2>1, <1>10 DEF AuxvAt
<1>15. AuxvAt \in Int /\ top <= AuxvAt
  <2> DEFINE d == (3 + n + k) * W
  <2>1. d \in Nat /\ AuxvAt = top + d
    BY <1>2, <1>9, <1>10, <1>14
  <2> HIDE DEF d
  <2> QED BY <2>1, <1>1
<1> HIDE DEF argv, envp, auxv
<1>16. ASSUME NEW a \in Int, AuxvAt <= a, a + Word <= AuxvAt + 2 * Word
       PROVE  WordIs(a, 0)
  <2>1. \A b \in DOMAIN mem : b \in Int /\ (b < AuxvAt \/ AuxvAt + 2 * Word <= b)
    BY DEF ArrayInv, Above
  <2>2. Span(a, Word) \cap DOMAIN mem = {}
    <3> SUFFICES ASSUME NEW b \in Span(a, Word), b \in DOMAIN mem PROVE FALSE
      OBVIOUS
    <3>1. b \in Int /\ a <= b /\ b < a + Word
      BY <1>2 DEF Span
    <3> QED BY <3>1, <2>1, <1>2, <1>15, <1>16
  <2>3. Span(a, Word) \subseteq StackBytes
    <3>1. stack_limit \in Int
      BY StackAssumption DEF stack_limit
    <3> QED BY <3>1, <1>1, <1>2, <1>7, <1>15, <1>16 DEF Span, StackBytes
  <2> QED BY <2>2, <2>3 DEF WordIs
<1>17. WordIs(auxv, 0) /\ WordIs(auxv + Word, 0)
  <2>1. /\ AuxvAt <= AuxvAt /\ AuxvAt + Word <= AuxvAt + 2 * Word
        /\ AuxvAt + Word \in Int /\ AuxvAt <= AuxvAt + Word
        /\ AuxvAt + Word + Word <= AuxvAt + 2 * Word
    BY <1>2, <1>15
  <2> QED BY <2>1, <1>14, <1>15, <1>16
<1> QED BY <1>11, <1>12, <1>13, <1>17 DEF argv, envp, auxv

-----------------------------------------------------------------------------
(***************************************************************************)
(* The resolved path. get_real_path keeps in the buffer the names that the *)
(* path means so far (OnWalk). The names of a text, and what a path means, *)
(* are recursive functions: first the equations that define them.          *)
(***************************************************************************)

\* Names stay names of characters.
LEMMA NameStepTyped ==
  ASSUME NEW text \in PathText, NEW n \in 1 .. Len(text),
         NEW names \in Seq(Seq(Chars))
  PROVE  NameStep(text, n, names) \in Seq(Seq(Chars))
<1>1. CASE text[n] = Slash
  BY <1>1 DEF NameStep
<1>2. CASE text[n] # Slash
  <2>1. text[n] \in Chars
    BY <1>2 DEF PathText
  <2> DEFINE c == text[n]
             last == Append(names[Len(names)], c)
  <2>2. <<c>> \in Seq(Chars) /\ Append(names, <<c>>) \in Seq(Seq(Chars))
    BY <2>1
  <2>3. [names EXCEPT ![Len(names)] = last] \in Seq(Seq(Chars))
    <3>1. CASE Len(names) = 0
      <4>1. [names EXCEPT ![Len(names)] = last] = names
        BY <3>1
      <4> QED BY <4>1
    <3>2. CASE Len(names) # 0
      <4>1. names[Len(names)] \in Seq(Chars)
        BY <3>2
      <4>2. last \in Seq(Chars)
        BY <4>1, <2>1
      <4>3. Len(names) \in 1 .. Len(names)
        BY <3>2
      <4> HIDE DEF last
      <4> QED BY <4>2, <4>3, ExceptSeq
    <3> QED BY <3>1, <3>2
  <2> QED BY <1>2, <2>2, <2>3 DEF NameStep
<1> QED BY <1>1, <1>2

\* The equations of NamesUpTo.
LEMMA NamesEquations ==
  ASSUME NEW text \in PathText
  PROVE  /\ \A n \in 0 .. Len(text) : NamesUpTo(text)[n] \in Seq(Seq(Chars))
         /\ NamesUpTo(text)[0] = <<>>
         /\ \A n \in 1 .. Len(text) :
              NamesUpTo(text)[n] = NameStep(text, n, NamesUpTo(text)[n - 1])
<1> DEFINE S == Seq(Seq(Chars))
           N == Len(text)
           B(f) == [n \in 0 .. N |->
                      IF n = 0 THEN <<>> ELSE NameStep(text, n, f[n - 1])]
           c == CHOOSE f : f = B(f)
           G == [n \in 1 .. N |-> [s \in S |-> NameStep(text, n, s)]]
<1>1. N \in Nat /\ <<>> \in S
  BY DEF PathText
<1>2. NamesUpTo(text) = c
  BY DEF NamesUpTo
<1>3. \A n \in 1 .. N : \A s \in S : NameStep(text, n, s) \in S
  BY NameStepTyped
<1>4. \E f : f = B(f)
  <2>1. \A n \in 1 .. N : \A s \in S : G[n][s] = NameStep(text, n, s)
    OBVIOUS
  <2>2. G \in [1 .. N -> [S -> S]]
    <3> HIDE DEF S, N
    <3> QED BY <1>3
  <2> HIDE DEF G, S, N, B
  <2>3. PICK a : a = <<>>
    OBVIOUS
  <2>4. \E v : v \in [0 .. N -> S] /\ IsRecursion(v, a, G, N)
    <3>1. a \in S
      BY <1>1, <2>3
    <3> QED BY ONLY <1>1, <2>2, <3>1, RecursionExists
  <2> PICK v : v \in [0 .. N -> S] /\ IsRecursion(v, a, G, N)
    BY <2>4
  <2>5. ASSUME NEW n \in 0 .. N
        PROVE  v[n] = IF n = 0 THEN <<>> ELSE NameStep(text, n, v[n - 1])
    <3>1. CASE n # 0
      <4>1. n \in 1 .. N /\ n - 1 \in 0 .. N
        BY <3>1, <1>1
      <4>2. v[n - 1] \in S
        BY <4>1
      <4> QED BY <3>1, <4>1, <4>2, <2>1, <2>3 DEF IsRecursion
    <3> QED BY <3>1, <2>3 DEF IsRecursion
  <2>6. v = B(v)
    BY <2>5 DEF B
  <2> QED BY <2>6
<1>5. c = B(c)
  <2> HIDE DEF B
  <2> QED BY <1>4
<1>6. c[0] = <<>> /\ \A n \in 1 .. N : c[n] = NameStep(text, n, c[n - 1])
  <2> HIDE DEF c
  <2>1. \A n \in 0 .. N : B(c)[n] = IF n = 0 THEN <<>> ELSE NameStep(text, n, c[n - 1])
    OBVIOUS
  <2> HIDE DEF B, N
  <2>2. \A n \in 0 .. N : c[n] = IF n = 0 THEN <<>> ELSE NameStep(text, n, c[n - 1])
    BY <1>5, <2>1
  <2>3. 0 \in 0 .. N /\ \A n \in 1 .. N : n \in 0 .. N /\ n # 0
    BY <1>1
  <2> QED BY <2>2, <2>3
<1>7. \A n \in 0 .. N : c[n] \in S
  <2> HIDE DEF c, N, S
  <2> DEFINE T == {n \in 0 .. N : c[n] \in S}
  <2>1. 0 \in T
    BY <1>1, <1>6
  <2>2. ASSUME NEW n \in 0 .. N - 1, n \in T PROVE n + 1 \in T
    <3>1. n + 1 \in 1 .. N /\ (n + 1) - 1 = n /\ n + 1 \in 0 .. N
      BY <1>1
    <3> QED BY <1>3, <1>6, <2>2, <3>1
  <2>3. \A n \in 0 .. N : n \in T
    <3> HIDE DEF T
    <3> QED BY <1>1, <2>1, <2>2, RangeInduction
  <2> QED BY <2>3
<1> HIDE DEF c
<1> QED BY <1>2, <1>6, <1>7

\* TextUpTo goes on by one name, and Meanings starts in the root or in dir.
TextStep(text, name) == text \o <<Slash>> \o name

\* A name adds its length and a slash.
LEMMA TextStepLen ==
  ASSUME NEW text \in PathText, NEW name \in Seq(Chars)
  PROVE  /\ TextStep(text, name) \in PathText
         /\ Len(TextStep(text, name)) = Len(text) + 1 + Len(name)
<1>1. name \in PathText /\ <<Slash>> \in PathText /\ Len(<<Slash>>) = 1
  BY DEF PathText
<1> QED BY <1>1 DEF TextStep, PathText

Meant(p, dir) == IF p.absolute THEN <<>> ELSE NamesOf(dir)

\* What a path means is names of characters.
LEMMA MeaningStepTyped ==
  ASSUME NEW names \in Seq(Seq(Chars)), NEW name \in Seq(Chars)
  PROVE  MeaningStep(names, name) \in Seq(Seq(Chars))
<1>1. SubSeq(names, 1, Len(names) - 1) \in Seq(Seq(Chars))
  OBVIOUS
<1> QED BY <1>1 DEF MeaningStep

\* The equations of TextUpTo.
LEMMA TextEquations ==
  ASSUME NEW names \in Seq(Seq(Chars))
  PROVE  /\ \A n \in 0 .. Len(names) : TextUpTo(names)[n] \in PathText
         /\ TextUpTo(names)[0] = <<>>
         /\ \A n \in 1 .. Len(names) :
              TextUpTo(names)[n] = TextStep(TextUpTo(names)[n - 1], names[n])
<1> DEFINE S == PathText
           N == Len(names)
           B(f) == [n \in 0 .. N |->
                      IF n = 0 THEN <<>> ELSE TextStep(f[n - 1], names[n])]
           c == CHOOSE f : f = B(f)
           G == [n \in 1 .. N |-> [s \in S |-> TextStep(s, names[n])]]
<1>1. N \in Nat /\ <<>> \in S
  BY DEF PathText
<1>3. \A n \in 1 .. N : \A s \in S : TextStep(s, names[n]) \in S
  <2> TAKE n \in 1 .. N
  <2> TAKE s \in S
  <2>1. names[n] \in Seq(Chars)
    OBVIOUS
  <2> QED BY <2>1, TextStepLen
<1>2. TextUpTo(names) = c
  BY DEF TextUpTo, TextStep
<1>4. \E f : f = B(f)
  <2>1. \A n \in 1 .. N : \A s \in S : G[n][s] = TextStep(s, names[n])
    OBVIOUS
  <2>2. G \in [1 .. N -> [S -> S]]
    <3> HIDE DEF S, N
    <3> QED BY <1>3
  <2> HIDE DEF G, S, N, B
  <2>3. PICK a : a = <<>>
    OBVIOUS
  <2>4. \E v : v \in [0 .. N -> S] /\ IsRecursion(v, a, G, N)
    <3>1. a \in S
      BY <1>1, <2>3
    <3> QED BY ONLY <1>1, <2>2, <3>1, RecursionExists
  <2> PICK v : v \in [0 .. N -> S] /\ IsRecursion(v, a, G, N)
    BY <2>4
  <2>5. ASSUME NEW n \in 0 .. N
        PROVE  v[n] = IF n = 0 THEN <<>> ELSE TextStep(v[n - 1], names[n])
    <3>1. CASE n # 0
      <4>1. n \in 1 .. N /\ n - 1 \in 0 .. N
        BY <3>1, <1>1
      <4>2. v[n - 1] \in S
        BY <4>1
      <4> QED BY <3>1, <4>1, <4>2, <2>1, <2>3 DEF IsRecursion
    <3> QED BY <3>1, <2>3 DEF IsRecursion
  <2>6. v = B(v)
    BY <2>5 DEF B
  <2> QED BY <2>6
<1>5. c = B(c)
  <2> HIDE DEF B
  <2> QED BY <1>4
<1>6. c[0] = <<>> /\ \A n \in 1 .. N : c[n] = TextStep(c[n - 1], names[n])
  <2> HIDE DEF c
  <2>1. \A n \in 0 .. N : B(c)[n] = IF n = 0 THEN <<>> ELSE TextStep(c[n - 1], names[n])
    OBVIOUS
  <2> HIDE DEF B, N
  <2>2. \A n \in 0 .. N : c[n] = IF n = 0 THEN <<>> ELSE TextStep(c[n - 1], names[n])
    BY <1>5, <2>1
  <2>3. 0 \in 0 .. N /\ \A n \in 1 .. N : n \in 0 .. N /\ n # 0
    BY <1>1
  <2> QED BY <2>2, <2>3
<1>7. \A n \in 0 .. N : c[n] \in S
  <2> HIDE DEF c, N, S
  <2> DEFINE T == {n \in 0 .. N : c[n] \in S}
  <2>1. 0 \in T
    BY <1>1, <1>6
  <2>2. ASSUME NEW n \in 0 .. N - 1, n \in T PROVE n + 1 \in T
    <3>1. n + 1 \in 1 .. N /\ (n + 1) - 1 = n /\ n + 1 \in 0 .. N
      BY <1>1
    <3> QED BY <1>3, <1>6, <2>2, <3>1
  <2>3. \A n \in 0 .. N : n \in T
    <3> HIDE DEF T
    <3> QED BY <1>1, <2>1, <2>2, RangeInduction
  <2> QED BY <2>3
<1> HIDE DEF c
<1> QED BY <1>2, <1>6, <1>7


\* The equations of Meanings.
LEMMA MeaningEquations ==
  ASSUME NEW p \in Path, NEW dir \in PathText
  PROVE  /\ \A n \in 0 .. Len(p.names) : Meanings(p, dir)[n] \in Seq(Seq(Chars))
         /\ Meanings(p, dir)[0] = Meant(p, dir)
         /\ \A n \in 1 .. Len(p.names) :
              Meanings(p, dir)[n] = MeaningStep(Meanings(p, dir)[n - 1], p.names[n])
<1> DEFINE S == Seq(Seq(Chars))
           N == Len(p.names)
           B(f) == [n \in 0 .. N |->
                      IF n = 0 THEN Meant(p, dir) ELSE MeaningStep(f[n - 1], p.names[n])]
           c == CHOOSE f : f = B(f)
           G == [n \in 1 .. N |-> [s \in S |-> MeaningStep(s, p.names[n])]]
<1>1. N \in Nat /\ Meant(p, dir) \in S
  <2>1. p.names \in Seq(Seq(Chars)) /\ Len(dir) \in 0 .. Len(dir)
    BY DEF Path, PathText
  <2>2. NamesOf(dir) \in S
    BY <2>1, NamesEquations DEF NamesOf
  <2> QED BY <2>1, <2>2 DEF Meant
<1>3. \A n \in 1 .. N : \A s \in S : MeaningStep(s, p.names[n]) \in S
  <2> TAKE n \in 1 .. N
  <2> TAKE s \in S
  <2>1. p.names[n] \in Seq(Chars)
    BY DEF Path
  <2> QED BY <2>1, MeaningStepTyped
<1>2. Meanings(p, dir) = c
  BY DEF Meanings, Meant
<1>4. \E f : f = B(f)
  <2>1. \A n \in 1 .. N : \A s \in S : G[n][s] = MeaningStep(s, p.names[n])
    OBVIOUS
  <2>2. G \in [1 .. N -> [S -> S]]
    <3> HIDE DEF S, N
    <3> QED BY <1>3
  <2> HIDE DEF G, S, N, B
  <2>3. PICK a : a = Meant(p, dir)
    OBVIOUS
  <2>4. \E v : v \in [0 .. N -> S] /\ IsRecursion(v, a, G, N)
    <3>1. a \in S
      BY <1>1, <2>3
    <3> QED BY ONLY <1>1, <2>2, <3>1, RecursionExists
  <2> PICK v : v \in [0 .. N -> S] /\ IsRecursion(v, a, G, N)
    BY <2>4
  <2>5. ASSUME NEW n \in 0 .. N
        PROVE  v[n] = IF n = 0 THEN Meant(p, dir) ELSE MeaningStep(v[n - 1], p.names[n])
    <3>1. CASE n # 0
      <4>1. n \in 1 .. N /\ n - 1 \in 0 .. N
        BY <3>1, <1>1
      <4>2. v[n - 1] \in S
        BY <4>1
      <4> QED BY <3>1, <4>1, <4>2, <2>1, <2>3 DEF IsRecursion
    <3> QED BY <3>1, <2>3 DEF IsRecursion
  <2>6. v = B(v)
    BY <2>5 DEF B
  <2> QED BY <2>6
<1>5. c = B(c)
  <2> HIDE DEF B
  <2> QED BY <1>4
<1>6. c[0] = Meant(p, dir) /\ \A n \in 1 .. N : c[n] = MeaningStep(c[n - 1], p.names[n])
  <2> HIDE DEF c
  <2>1. \A n \in 0 .. N : B(c)[n] = IF n = 0 THEN Meant(p, dir) ELSE MeaningStep(c[n - 1], p.names[n])
    OBVIOUS
  <2> HIDE DEF B, N
  <2>2. \A n \in 0 .. N : c[n] = IF n = 0 THEN Meant(p, dir) ELSE MeaningStep(c[n - 1], p.names[n])
    BY <1>5, <2>1
  <2>3. 0 \in 0 .. N /\ \A n \in 1 .. N : n \in 0 .. N /\ n # 0
    BY <1>1
  <2> QED BY <2>2, <2>3
<1>7. \A n \in 0 .. N : c[n] \in S
  <2> HIDE DEF c, N, S
  <2> DEFINE T == {n \in 0 .. N : c[n] \in S}
  <2>1. 0 \in T
    BY <1>1, <1>6
  <2>2. ASSUME NEW n \in 0 .. N - 1, n \in T PROVE n + 1 \in T
    <3>1. n + 1 \in 1 .. N /\ (n + 1) - 1 = n /\ n + 1 \in 0 .. N
      BY <1>1
    <3> QED BY <1>3, <1>6, <2>2, <3>1
  <2>3. \A n \in 0 .. N : n \in T
    <3> HIDE DEF T
    <3> QED BY <1>1, <2>1, <2>2, RangeInduction
  <2> QED BY <2>3
<1> HIDE DEF c
<1> QED BY <1>2, <1>6, <1>7

\* A character takes no name away, and adds one where it starts one.
LEMMA NameStepLen ==
  ASSUME NEW text, NEW n, NEW names \in Seq(Seq(Chars))
  PROVE  /\ Len(names) <= Len(NameStep(text, n, names))
         /\ text[n] # Slash /\ (n = 1 \/ text[n - 1] = Slash) =>
              0 < Len(NameStep(text, n, names))
<1>1. Len(names) \in Nat
  OBVIOUS
<1>2. CASE text[n] = Slash
  BY <1>1, <1>2 DEF NameStep
<1>3. CASE text[n] # Slash /\ (n = 1 \/ text[n - 1] = Slash)
  <2> DEFINE x == <<text[n]>>
             S == Seq(Chars) \cup {x}
  <2>1. NameStep(text, n, names) = Append(names, x)
    BY <1>3 DEF NameStep
  <2>2. names \in Seq(S) /\ x \in S
    OBVIOUS
  <2> HIDE DEF x, S
  <2>3. Len(Append(names, x)) = Len(names) + 1
    BY <2>2, AppendProperties
  <2> QED BY <1>1, <2>1, <2>3
<1>4. CASE text[n] # Slash /\ ~ (n = 1 \/ text[n - 1] = Slash)
  <2> DEFINE f == [names EXCEPT ![Len(names)] = Append(@, text[n])]
  <2>1. NameStep(text, n, names) = f
    BY <1>4 DEF NameStep
  <2>2. PICK k \in Nat : k = Len(names) /\ DOMAIN names = 1 .. k
    OBVIOUS
  <2>3. PICK g : g = [j \in 1 .. k |-> f[j]]
    OBVIOUS
  <2>4. f = g
    BY <2>2, <2>3
  <2>5. Len(g) = k
    <3> HIDE DEF f
    <3> QED BY ONLY <2>3, k \in Nat
  <2>6. Len(f) = Len(names)
    <3> HIDE DEF f
    <3> QED BY <2>2, <2>4, <2>5
  <2> QED BY <1>1, <1>4, <2>1, <2>6
<1> QED BY <1>2, <1>3, <1>4

\* The longer text has no fewer names, and a text that ends in a character one.
LEMMA NamesGrow ==
  ASSUME NEW text \in PathText, NEW m \in 0 .. Len(text)
  PROVE  /\ m # 0 /\ text[m] # Slash => 0 < Len(NamesUpTo(text)[m])
         /\ Len(NamesUpTo(text)[m]) <= Len(NamesUpTo(text)[Len(text)])
<1>1. PICK N \in Nat : N = Len(text)
  BY DEF PathText
<1>2. PICK f : f = NamesUpTo(text)
  OBVIOUS
<1>3. /\ \A n \in 0 .. N : f[n] \in Seq(Seq(Chars))
      /\ \A n \in 1 .. N : f[n] = NameStep(text, n, f[n - 1])
  BY <1>1, <1>2, NamesEquations
<1>4. PICK l : l = [n \in 0 .. N |-> Len(f[n])]
  OBVIOUS
<1>5. \A n \in 0 .. N : l[n] \in Nat /\ l[n] = Len(f[n])
  BY <1>3, <1>4
<1>6. ASSUME NEW n \in 1 .. N
      PROVE  /\ l[n - 1] <= l[n]
             /\ text[n] # Slash /\ (n = 1 \/ text[n - 1] = Slash) => 0 < l[n]
  <2>1. n - 1 \in 0 .. N /\ n \in 0 .. N
    OBVIOUS
  <2>2. f[n - 1] \in Seq(Seq(Chars)) /\ f[n] = NameStep(text, n, f[n - 1])
    BY <1>3, <2>1
  <2> QED BY <2>1, <2>2, <1>5, NameStepLen
<1>7. \A n \in 0 .. N : n # 0 /\ text[n] # Slash => 0 < l[n]
  <2> DEFINE T == {n \in 0 .. N : n # 0 /\ text[n] # Slash => 0 < l[n]}
  <2>1. 0 \in T
    OBVIOUS
  <2>2. ASSUME NEW n \in 0 .. N - 1, n \in T PROVE n + 1 \in T
    <3>1. /\ n + 1 \in 1 .. N /\ (n + 1) - 1 = n /\ n + 1 \in 0 .. N
          /\ n \in 0 .. N /\ (n + 1 = 1 <=> n = 0)
      OBVIOUS
    <3>2. PICK k \in 1 .. N : k = n + 1
      BY <3>1
    <3>3. /\ l[n] <= l[k]
          /\ text[k] # Slash /\ (n = 0 \/ text[n] = Slash) => 0 < l[k]
      BY <1>6, <3>1, <3>2
    <3>4. l[n] \in Nat /\ l[k] \in Nat
      BY <1>5, <3>1, <3>2
    <3>5. n # 0 /\ text[n] # Slash => 0 < l[n]
      BY <2>2
    <3>6. text[k] # Slash => 0 < l[k]
      BY <3>3, <3>4, <3>5
    <3> QED BY <3>1, <3>2, <3>6
  <2>3. \A n \in 0 .. N : n \in T
    <3> HIDE DEF T
    <3> QED BY <2>1, <2>2, RangeInduction
  <2> QED BY <2>3
<1>8. PICK k \in Nat : m + k = N
  <2>1. m \in 0 .. N
    BY <1>1
  <2>2. N - m \in Nat /\ m + (N - m) = N
    BY <2>1
  <2> QED BY <2>2
<1>9. \A i \in 0 .. k : l[m] <= l[m + i]
  <2> DEFINE T == {i \in 0 .. k : l[m] <= l[m + i]}
  <2>1. 0 \in T
    <3>1. m + 0 = m /\ m \in 0 .. N
      BY <1>1
    <3> QED BY <3>1, <1>5
  <2>2. ASSUME NEW i \in 0 .. k - 1, i \in T PROVE i + 1 \in T
    <3>1. /\ m + (i + 1) \in 1 .. N /\ (m + (i + 1)) - 1 = m + i /\ i + 1 \in 0 .. k
          /\ m \in 0 .. N /\ m + i \in 0 .. N /\ m + (i + 1) \in 0 .. N
      BY <1>1, <1>8
    <3>2. PICK h \in 1 .. N : h = m + (i + 1)
      BY <3>1
    <3>3. l[m + i] <= l[h]
      BY <1>6, <3>1, <3>2
    <3>4. l[m] \in Nat /\ l[m + i] \in Nat /\ l[h] \in Nat /\ l[m] <= l[m + i]
      BY <1>5, <2>2, <3>1, <3>2
    <3>5. l[m] <= l[h]
      BY <3>3, <3>4
    <3> QED BY <3>1, <3>2, <3>5
  <2>3. \A i \in 0 .. k : i \in T
    <3> HIDE DEF T
    <3> QED BY <2>1, <2>2, RangeInduction
  <2> QED BY <2>3
<1>10. l[m] <= l[N]
  <2>1. k \in 0 .. k
    OBVIOUS
  <2> QED BY <2>1, <1>8, <1>9
<1>11. N \in 0 .. N /\ m \in 0 .. N
  BY <1>1
<1> QED BY <1>1, <1>2, <1>5, <1>7, <1>10, <1>11

\* Texts that begin alike have the same names there.
LEMMA NamesAgree ==
  ASSUME NEW s \in PathText, NEW t \in PathText, NEW m \in Nat,
         m <= Len(s), m <= Len(t), \A h \in 1 .. m : s[h] = t[h]
  PROVE  \A n \in 0 .. m : NamesUpTo(s)[n] = NamesUpTo(t)[n]
<1>1. Len(s) \in Nat /\ Len(t) \in Nat
  BY DEF PathText
<1> DEFINE a == NamesUpTo(s)
           b == NamesUpTo(t)
           T == {n \in 0 .. m : a[n] = b[n]}
<1>2. /\ a[0] = <<>>
      /\ \A n \in 1 .. Len(s) : a[n] = NameStep(s, n, a[n - 1])
  BY NamesEquations
<1>3. /\ b[0] = <<>>
      /\ \A n \in 1 .. Len(t) : b[n] = NameStep(t, n, b[n - 1])
  BY NamesEquations
<1> HIDE DEF a, b
<1>4. 0 \in T
  BY <1>2, <1>3
<1>5. ASSUME NEW n \in 0 .. m - 1, n \in T PROVE n + 1 \in T
  <2> DEFINE k == n + 1
  <2>1. /\ k \in 1 .. Len(s) /\ k \in 1 .. Len(t) /\ k - 1 = n /\ k \in 1 .. m
        /\ (k # 1 => k - 1 \in 1 .. m)
    BY <1>1
  <2>2. a[n] = b[n]
    BY <1>5
  <2> HIDE DEF k, T
  <2>3. s[k] = t[k] /\ (k # 1 => s[k - 1] = t[k - 1])
    BY <2>1
  <2>4. NameStep(s, k, a[n]) = NameStep(t, k, a[n])
    BY <2>3 DEF NameStep
  <2>5. a[k] = b[k]
    BY <1>2, <1>3, <2>1, <2>2, <2>4
  <2> QED BY <2>1, <2>5 DEF k, T
<1>6. \A n \in 0 .. m : n \in T
  <2> HIDE DEF T
  <2> QED BY <1>4, <1>5, RangeInduction
<1> QED BY <1>6 DEF a, b

\* Behind a slash the characters up to the end are one name more.
LEMMA NameAdded ==
  ASSUME NEW text \in PathText, NEW i \in Nat, i + 2 <= Len(text),
         text[i + 1] = Slash, \A h \in i + 2 .. Len(text) : text[h] # Slash
  PROVE  NamesOf(text) = Append(NamesUpTo(text)[i], SubSeq(text, i + 2, Len(text)))
<1> DEFINE N == Len(text)
           f == NamesUpTo(text)
           g == f[i]
           K == N - (i + 2)
           T == {k \in 0 .. K : f[i + 2 + k] = Append(g, SubSeq(text, i + 2, i + 2 + k))}
<1>1. N \in Nat /\ K \in Nat /\ text \in Seq(Chars \cup {Slash})
  BY DEF PathText
<1>2. /\ \A n \in 0 .. N : f[n] \in Seq(Seq(Chars))
      /\ \A n \in 1 .. N : f[n] = NameStep(text, n, f[n - 1])
  BY NamesEquations
<1> HIDE DEF f
<1>3. f[i + 1] = g /\ g \in Seq(Seq(Chars))
  <2>1. i + 1 \in 1 .. N /\ (i + 1) - 1 = i /\ i \in 0 .. N
    BY <1>1
  <2> QED BY <1>2, <2>1 DEF NameStep
<1>4. 0 \in T
  <2>1. i + 2 \in 1 .. N /\ (i + 2) - 1 = i + 1 /\ i + 2 \in i + 2 .. N /\ i + 2 # 1
        /\ i + 2 + 0 = i + 2 /\ 0 \in 0 .. K
    BY <1>1
  <2>2. f[i + 2] = NameStep(text, i + 2, f[i + 1])
    BY <1>2, <2>1
  <2>3. f[i + 2] = Append(g, <<text[i + 2]>>)
    BY <2>1, <2>2, <1>3 DEF NameStep
  <2>4. SubSeq(text, i + 2, i + 2) = <<text[i + 2]>>
    <3>1. PICK m \in 1 .. N : m = i + 2
      BY <2>1
    <3>2. SubSeq(text, m, m) = <<text[m]>>
      <4>1. PICK t : t = SubSeq(text, m, m)
        OBVIOUS
      <4>2. m \in Int /\ \A j \in m .. m : text[j] \in Chars \cup {Slash}
        BY <1>1
      <4>3. t \in Seq(Chars \cup {Slash}) /\ Len(t) = 1 /\ t[1] = text[m]
        BY <4>1, <4>2, SubSeqProperties
      <4>4. t = <<text[m]>>
        BY <4>3
      <4> QED BY <4>1, <4>4
    <3> QED BY <3>1, <3>2
  <2> QED BY <2>1, <2>3, <2>4
<1>5. ASSUME NEW k \in 0 .. K - 1, k \in T PROVE k + 1 \in T
  <2> DEFINE n == i + 2 + k
             x == SubSeq(text, i + 2, n)
  <2>1. /\ n \in Nat /\ n + 1 \in 1 .. N /\ (n + 1) - 1 = n /\ n + 1 # 1
        /\ n \in i + 2 .. N /\ n + 1 \in i + 2 .. N /\ i + 2 + (k + 1) = n + 1
        /\ k + 1 \in 0 .. K /\ i + 2 \in 1 .. N
    BY <1>1
  <2>2. f[n] = Append(g, x)
    BY <1>5
  <2>3. text[n + 1] # Slash /\ text[n] # Slash
    BY <2>1
  <2>4. f[n + 1] = NameStep(text, n + 1, f[n])
    BY <1>2, <2>1
  <2>5. \A j \in i + 2 .. N : text[j] \in Chars
    BY <1>1, <2>1
  <2>6. /\ x \in Seq(Chars)
        /\ SubSeq(text, i + 2, n + 1) = Append(x, text[n + 1])
    <3>1. SubSeq(text, i + 2, n + 1) = Append(x, text[n + 1])
      BY <1>1, <2>1
    <3>2. x = [j \in 1 .. k + 1 |-> text[i + 1 + j]]
      BY <1>1, <2>1
    <3>3. \A j \in 1 .. k + 1 : text[i + 1 + j] \in Chars
      <4> TAKE j \in 1 .. k + 1
      <4>1. i + 1 + j \in i + 2 .. N
        BY <1>1
      <4> QED BY <4>1, <2>5
    <3> HIDE DEF x
    <3> QED BY <3>1, <3>2, <3>3
  <2> HIDE DEF n, x, T
  <2>7. f[n + 1] = [f[n] EXCEPT ![Len(f[n])] = Append(@, text[n + 1])]
    BY <2>1, <2>3, <2>4 DEF NameStep
  <2>8. [Append(g, x) EXCEPT ![Len(Append(g, x))] = Append(@, text[n + 1])]
          = Append(g, Append(x, text[n + 1]))
    <3> DEFINE y == Append(x, text[n + 1])
               u == Append(g, x)
               w == [u EXCEPT ![Len(u)] = y]
    <3>1. y \in Seq(Chars)
      BY <2>1, <2>5, <2>6
    <3>0. Len(g) \in Nat
      BY <1>3
    <3>2. u \in Seq(Seq(Chars)) /\ Len(u) = Len(g) + 1 /\ u[Len(u)] = x
          /\ Len(u) \in 1 .. Len(u) /\ \A j \in 1 .. Len(g) : u[j] = g[j]
      <4>1. /\ u \in Seq(Seq(Chars)) /\ Len(u) = Len(g) + 1
            /\ \A j \in 1 .. Len(g) : u[j] = g[j]
            /\ u[Len(g) + 1] = x
        <5> DEFINE S == Seq(Chars)
        <5>1. g \in Seq(S) /\ x \in S
          BY <1>3, <2>6
        <5> HIDE DEF S, g
        <5> QED BY <5>1, AppendProperties DEF u, S
      <4> HIDE DEF u
      <4>2. u[Len(u)] = x /\ Len(u) \in 1 .. Len(u)
        BY <4>1, <3>0
      <4> QED BY <4>1, <4>2
    <3> HIDE DEF u, y
    <3>3. /\ w \in Seq(Seq(Chars)) /\ Len(w) = Len(u)
          /\ \A j \in 1 .. Len(u) : w[j] = IF j = Len(u) THEN y ELSE u[j]
      BY <3>1, <3>2, ExceptSeq
    <3> HIDE DEF w
    <3> DEFINE v == Append(g, y)
    <3>4. /\ v \in Seq(Seq(Chars)) /\ Len(v) = Len(g) + 1 /\ v[Len(g) + 1] = y
          /\ \A j \in 1 .. Len(g) : v[j] = g[j]
      BY <1>3, <3>1
    <3> HIDE DEF v
    <3>6. \A j \in 1 .. Len(w) : w[j] = v[j]
      <4> TAKE j \in 1 .. Len(w)
      <4>1. j = Len(g) + 1 \/ j \in 1 .. Len(g)
        BY <3>0, <3>2, <3>3
      <4>2. w[j] = IF j = Len(u) THEN y ELSE u[j]
        BY <3>3
      <4> QED BY <3>0, <3>2, <3>4, <4>1, <4>2
    <3>5. Len(w) = Len(v)
      BY <3>2, <3>3, <3>4
    <3>7. w = v
      BY ONLY <3>3, <3>4, <3>5, <3>6, SeqEqual
    <3>8. [u EXCEPT ![Len(u)] = Append(@, text[n + 1])] = w
      BY <3>2 DEF w, y
    <3> QED BY <3>7, <3>8 DEF v, u, y
  <2>9. f[n + 1] = Append(g, SubSeq(text, i + 2, n + 1))
    BY <2>2, <2>6, <2>7, <2>8
  <2> QED BY <2>1, <2>9 DEF T
<1>6. \A k \in 0 .. K : k \in T
  <2> HIDE DEF T, K
  <2> QED BY <1>1, <1>4, <1>5, RangeInduction
<1>7. K \in 0 .. K /\ i + 2 + K = N
  BY <1>1
<1>8. f[i + 2 + K] = Append(g, SubSeq(text, i + 2, i + 2 + K))
  <2> HIDE DEF K, g
  <2> QED BY <1>6, <1>7
<1> QED BY <1>7, <1>8 DEF f, NamesOf

\* The first n bytes of a buffer, as a text.
Begin(buf, n) == [j \in 1 .. n |-> buf[j - 1]]

\* It has the bytes of the buffer.
LEMMA BeginIs ==
  ASSUME NEW buf, NEW n \in Nat, \A j \in 0 .. n - 1 : buf[j] \in Chars \cup {Slash}
  PROVE  /\ Begin(buf, n) \in PathText
         /\ Len(Begin(buf, n)) = n
         /\ \A j \in 1 .. n : Begin(buf, n)[j] = buf[j - 1]
<1>1. \A j \in 1 .. n : buf[j - 1] \in Chars \cup {Slash}
  <2> TAKE j \in 1 .. n
  <2>1. j - 1 \in 0 .. n - 1
    OBVIOUS
  <2> QED BY <2>1
<1> QED BY <1>1 DEF Begin, PathText

\* Its names are those of the shorter text, as far as that goes.
LEMMA BeginNames ==
  ASSUME NEW buf, NEW n \in Nat, \A j \in 0 .. n - 1 : buf[j] \in Chars \cup {Slash},
         NEW k \in 0 .. n
  PROVE  NamesUpTo(Begin(buf, n))[k] = NamesOf(Begin(buf, k))
<1>1. k \in Nat /\ k <= n /\ \A j \in 0 .. k - 1 : buf[j] \in Chars \cup {Slash}
  OBVIOUS
<1>2. /\ Begin(buf, n) \in PathText /\ Len(Begin(buf, n)) = n
      /\ \A j \in 1 .. n : Begin(buf, n)[j] = buf[j - 1]
  BY BeginIs
<1>3. /\ Begin(buf, k) \in PathText /\ Len(Begin(buf, k)) = k
      /\ \A j \in 1 .. k : Begin(buf, k)[j] = buf[j - 1]
  BY <1>1, BeginIs
<1>4. PICK s \in PathText : s = Begin(buf, n)
  BY <1>2
<1>5. PICK t \in PathText : t = Begin(buf, k)
  BY <1>3
<1>6. k <= Len(s) /\ k <= Len(t) /\ \A h \in 1 .. k : s[h] = t[h]
  BY <1>1, <1>2, <1>3, <1>4, <1>5
<1>7. \A j \in 0 .. k : NamesUpTo(s)[j] = NamesUpTo(t)[j]
  BY ONLY <1>1, <1>6, NamesAgree
<1>8. k \in 0 .. k
  OBVIOUS
<1> QED BY <1>3, <1>4, <1>5, <1>7, <1>8 DEF NamesOf

\* A slash and a name at the end of the text.
LEMMA BeginGoesOn ==
  ASSUME NEW buf, NEW n \in Nat, \A j \in 0 .. n - 1 : buf[j] \in Chars \cup {Slash},
         NEW i \in Nat, i + 2 <= n, buf[i] = Slash,
         \A j \in i + 1 .. n - 1 : buf[j] # Slash
  PROVE  NamesOf(Begin(buf, n)) =
           Append(NamesOf(Begin(buf, i)), SubSeq(Begin(buf, n), i + 2, n))
<1>1. /\ Begin(buf, n) \in PathText /\ Len(Begin(buf, n)) = n
      /\ \A j \in 1 .. n : Begin(buf, n)[j] = buf[j - 1]
  BY BeginIs
<1>2. PICK s \in PathText : s = Begin(buf, n)
  BY <1>1
<1>3. s[i + 1] = Slash
  <2>1. i + 1 \in 1 .. n /\ (i + 1) - 1 = i
    OBVIOUS
  <2> QED BY <1>1, <1>2, <2>1
<1>4. \A h \in i + 2 .. Len(s) : s[h] # Slash
  <2>1. \A h \in i + 2 .. n : h \in 1 .. n /\ h - 1 \in i + 1 .. n - 1
    OBVIOUS
  <2> QED BY <1>1, <1>2, <2>1
<1>5. NamesOf(s) = Append(NamesUpTo(s)[i], SubSeq(s, i + 2, Len(s)))
  <2>1. i + 2 <= Len(s)
    BY <1>1, <1>2
  <2> QED BY ONLY i \in Nat, <2>1, <1>3, <1>4, NameAdded
<1>6. NamesUpTo(s)[i] = NamesOf(Begin(buf, i))
  <2>1. i \in 0 .. n
    OBVIOUS
  <2> QED BY <2>1, <1>2, BeginNames
<1> QED BY <1>1, <1>2, <1>5, <1>6

\* The root has no names.
LEMMA BeginRoot ==
  ASSUME NEW buf, buf[0] = Slash
  PROVE  /\ NamesOf(Begin(buf, 0)) = <<>>
         /\ NamesOf(Begin(buf, 1)) = <<>>
<1>1. \A j \in 0 .. 1 - 1 : buf[j] \in Chars \cup {Slash}
  <2>1. \A j \in 0 .. 1 - 1 : j = 0
    OBVIOUS
  <2> QED BY <2>1
<1>2. /\ Begin(buf, 1) \in PathText /\ Len(Begin(buf, 1)) = 1
      /\ \A j \in 1 .. 1 : Begin(buf, 1)[j] = buf[j - 1]
  BY <1>1, BeginIs
<1>3. PICK s \in PathText : s = Begin(buf, 1)
  BY <1>2
<1>4. s[1] = Slash /\ Len(s) = 1
  <2>1. 1 \in 1 .. 1 /\ 1 - 1 = 0
    OBVIOUS
  <2> QED BY <1>2, <1>3, <2>1
<1>5. NamesUpTo(s)[0] = <<>> /\ NamesUpTo(s)[1] = <<>>
  <2>1. NamesUpTo(s)[0] = <<>>
    BY NamesEquations
  <2>2. NamesUpTo(s)[1] = NameStep(s, 1, NamesUpTo(s)[1 - 1])
    <3>1. 1 \in 1 .. Len(s)
      BY <1>4
    <3> QED BY <3>1, NamesEquations
  <2> QED BY <2>1, <2>2, <1>4 DEF NameStep
<1>6. NamesUpTo(s)[0] = NamesOf(Begin(buf, 0))
  <2>1. 0 \in 0 .. 1
    OBVIOUS
  <2> QED BY <1>1, <1>3, <2>1, BeginNames
<1> QED BY <1>3, <1>4, <1>5, <1>6 DEF NamesOf

\* Buffers that hold the same there begin with the same text.
LEMMA BeginAgrees ==
  ASSUME NEW buf, NEW b2, NEW n \in Nat, \A j \in 0 .. n - 1 : buf[j] = b2[j]
  PROVE  Begin(buf, n) = Begin(b2, n)
<1>1. \A j \in 1 .. n : buf[j - 1] = b2[j - 1]
  <2> TAKE j \in 1 .. n
  <2>1. j - 1 \in 0 .. n - 1
    OBVIOUS
  <2> QED BY <2>1
<1> QED BY <1>1 DEF Begin

\* How long the text of the first n names gets in the directory.
LenUpTo(p, d, n) ==
  (IF p.absolute THEN 0 ELSE Len(d)) + Len(TextUpTo(p.names)[n])

\* Every name makes the text longer by a slash and itself.
LEMMA LenGrows ==
  ASSUME NEW p \in Path, NEW d \in PathText
  PROVE  /\ LenUpTo(p, d, 0) = IF p.absolute THEN 0 ELSE Len(d)
         /\ \A n \in 0 .. Len(p.names) :
              LenUpTo(p, d, n) \in Nat /\ LenUpTo(p, d, n) <= LenUpTo(p, d, Len(p.names))
         /\ \A n \in 0 .. Len(p.names) - 1 :
              LenUpTo(p, d, n + 1) = LenUpTo(p, d, n) + 1 + Len(p.names[n + 1])
<1>1. p.names \in Seq(Seq(Chars)) /\ Len(p.names) \in Nat
  BY DEF Path
<1>2. PICK f : f = TextUpTo(p.names)
  OBVIOUS
<1>3. PICK N \in Nat : N = Len(p.names)
  BY <1>1
<1>4. PICK l : l = [n \in 0 .. N |-> Len(f[n])]
  OBVIOUS
<1>5. PICK base \in Nat : base = IF p.absolute THEN 0 ELSE Len(d)
  BY DEF PathText
<1>6. /\ \A n \in 0 .. N : f[n] \in PathText
      /\ f[0] = <<>>
      /\ \A n \in 1 .. N : f[n] = TextStep(f[n - 1], p.names[n])
  BY <1>1, <1>2, <1>3, TextEquations
<1>7. 0 \in 0 .. N /\ N \in 0 .. N
  OBVIOUS
<1>8. \A n \in 0 .. N : l[n] \in Nat
  BY <1>4, <1>6 DEF PathText
<1>9. l[0] = 0
  BY <1>4, <1>6, <1>7
<1>10. ASSUME NEW n \in 0 .. N - 1
       PROVE  l[n + 1] = l[n] + 1 + Len(p.names[n + 1]) /\ Len(p.names[n + 1]) \in Nat
  <2>1. n + 1 \in 1 .. N /\ (n + 1) - 1 = n /\ n \in 0 .. N /\ n + 1 \in 0 .. N
    OBVIOUS
  <2>2. p.names[n + 1] \in Seq(Chars) /\ f[n] \in PathText
    BY <1>1, <1>3, <1>6, <2>1
  <2>3. f[n + 1] = TextStep(f[n], p.names[n + 1])
    BY <1>6, <2>1
  <2>4. Len(f[n + 1]) = Len(f[n]) + 1 + Len(p.names[n + 1])
    BY <2>2, <2>3, TextStepLen
  <2>5. Len(p.names[n + 1]) \in Nat
    BY <2>2
  <2> QED BY <1>4, <2>1, <2>4, <2>5
<1>11. \A n \in 0 .. N : l[n] <= l[N]
  <2> DEFINE T == {k \in 0 .. N : l[N - k] <= l[N]}
  <2>1. 0 \in T
    <3>1. N - 0 = N
      OBVIOUS
    <3> QED BY <1>7, <1>8, <3>1
  <2>2. ASSUME NEW k \in 0 .. N - 1, k \in T PROVE k + 1 \in T
    <3>1. N - (k + 1) \in 0 .. N - 1
      OBVIOUS
    <3>2. PICK n \in 0 .. N - 1 : n = N - (k + 1)
      BY <3>1
    <3>3. n + 1 = N - k /\ k + 1 \in 0 .. N /\ n \in 0 .. N /\ n + 1 \in 0 .. N
      BY <3>2
    <3>4. l[n + 1] <= l[N]
      BY <2>2, <3>3
    <3>5. l[n] <= l[n + 1]
      <4>1. PICK m \in Nat : l[n + 1] = l[n] + 1 + m
        BY <1>10
      <4>2. l[n] \in Nat
        BY <1>8, <3>3
      <4> QED BY ONLY <4>1, <4>2
    <3>6. l[n] <= l[N]
      BY <1>7, <1>8, <3>3, <3>4, <3>5
    <3> QED BY <3>2, <3>3, <3>6
  <2>3. \A k \in 0 .. N : k \in T
    <3> HIDE DEF T
    <3> QED BY <2>1, <2>2, RangeInduction
  <2>4. ASSUME NEW n \in 0 .. N PROVE l[n] <= l[N]
    <3>1. N - n \in 0 .. N /\ N - (N - n) = n
      OBVIOUS
    <3>2. l[N - (N - n)] <= l[N]
      BY <2>3, <3>1
    <3> QED BY <3>1, <3>2
  <2> QED BY <2>4
<1>12. \A n \in 0 .. N : LenUpTo(p, d, n) = base + l[n]
  BY <1>2, <1>4, <1>5 DEF LenUpTo
<1>13. LenUpTo(p, d, 0) = base
  BY <1>7, <1>9, <1>12
<1>14. ASSUME NEW n \in 0 .. N
       PROVE  LenUpTo(p, d, n) \in Nat /\ LenUpTo(p, d, n) <= LenUpTo(p, d, N)
  BY <1>7, <1>8, <1>11, <1>12
<1>15. ASSUME NEW n \in 0 .. N - 1
       PROVE  LenUpTo(p, d, n + 1) = LenUpTo(p, d, n) + 1 + Len(p.names[n + 1])
  <2>1. n \in 0 .. N /\ n + 1 \in 0 .. N
    OBVIOUS
  <2>2. PICK m \in Nat : m = Len(p.names[n + 1]) /\ l[n + 1] = l[n] + 1 + m
    BY <1>10
  <2>3. LenUpTo(p, d, n + 1) = base + l[n + 1] /\ LenUpTo(p, d, n) = base + l[n]
        /\ l[n] \in Nat
    BY <1>8, <1>12, <2>1
  <2>4. PICK x \in Nat : x = l[n]
    BY <2>3
  <2>5. LenUpTo(p, d, n + 1) = base + (x + 1 + m) /\ LenUpTo(p, d, n) = base + x
    BY <2>2, <2>3, <2>4
  <2>6. base + (x + 1 + m) = (base + x) + 1 + m
    OBVIOUS
  <2> QED BY ONLY <2>2, <2>5, <2>6
<1> QED BY <1>3, <1>5, <1>13, <1>14, <1>15

(***************************************************************************)
(* What the walk along a path keeps true of the buffer b, of which the     *)
(* first q bytes are written, when w names are done: they are the names    *)
(* the path means so far, each behind one slash. The root ends in a NUL;   *)
(* behind names there may be anything the buffer held before, s.           *)
(***************************************************************************)
OnWalk(p, d, s, b, q, w) ==
  /\ b[0] = Slash
  /\ q <= 1 => b[1] = NUL
  /\ \A j \in 0 .. q - 1 : b[j] # NUL
  /\ q > 1 => b[q - 1] # Slash
  /\ \A j \in 1 .. q - 2 : b[j] = Slash => b[j + 1] # Slash
  /\ NamesOf(Begin(b, q)) = Meanings(p, d)[w]
  /\ q <= LenUpTo(p, d, w)
  /\ s[PATH_MAX - 1] = NUL /\ LenUpTo(p, d, Len(p.names)) < PATH_MAX =>
       b[PATH_MAX - 1] = NUL

\* Bytes that are no NUL are those of a text.
LEMMA WrittenBytes ==
  ASSUME NEW b \in [0 .. PATH_MAX - 1 -> Bytes], NEW q \in 0 .. PATH_MAX,
         \A j \in 0 .. q - 1 : b[j] # NUL
  PROVE  \A j \in 0 .. q - 1 : b[j] \in Chars \cup {Slash}
<1> PATH_MAX \in Nat
  BY PathAssumption
<1>1. \A j \in 0 .. q - 1 : j \in 0 .. PATH_MAX - 1
  OBVIOUS
<1> QED BY <1>1 DEF Bytes

\* A name written behind the others is one name more.
LEMMA AddKeeps ==
  ASSUME NEW p \in Path, NEW d \in PathText, NEW s,
         NEW b \in [0 .. PATH_MAX - 1 -> Bytes], NEW q \in 0 .. PATH_MAX,
         NEW w \in 0 .. Len(p.names) - 1, OnWalk(p, d, s, b, q, w),
         NEW name, name = p.names[w + 1], name \notin {<<>>, Dot, DotDot},
         q + 1 + Len(name) <= PATH_MAX,
         NEW c, c[q] = Slash,
         \A j \in 0 .. PATH_MAX - 1 :
           c[j] = IF j = q THEN Slash
                  ELSE IF j \in q + 1 .. q + Len(name) THEN name[j - q] ELSE b[j]
  PROVE  OnWalk(p, d, s, c, q + 1 + Len(name), w + 1)
<1> DEFINE k == Len(name)
           n == q + 1 + k
<1>0. PATH_MAX \in Nat /\ Slash \notin Chars /\ NUL \notin Chars
  BY PathAssumption
<1>1. /\ p.names \in Seq(Seq(Chars)) /\ Len(p.names) \in Nat
      /\ w + 1 \in 1 .. Len(p.names) /\ (w + 1) - 1 = w /\ w \in 0 .. Len(p.names)
      /\ w + 1 \in 0 .. Len(p.names)
  BY DEF Path
<1>2. name \in Seq(Chars) /\ k \in Nat /\ k # 0
  <2>1. name \in Seq(Chars) /\ name # <<>>
    BY <1>1
  <2> QED BY <2>1
<1>3. \A j \in 1 .. k : name[j] \in Chars
  BY <1>2
<1> HIDE DEF k
<1>4. \A j \in q + 1 .. q + k : c[j] = name[j - q] /\ c[j] \in Chars
  <2> TAKE j \in q + 1 .. q + k
  <2>1. j \in 0 .. PATH_MAX - 1 /\ j # q /\ j - q \in 1 .. k
    <3>1. q + 1 + k <= PATH_MAX
      BY DEF k
    <3> QED BY <3>1, <1>0, <1>2
  <2>2. c[j] = name[j - q]
    BY <2>1 DEF k
  <2> QED BY <1>3, <2>1, <2>2
<1>5. \A j \in 0 .. PATH_MAX - 1 : j < q \/ n <= j => c[j] = b[j]
  <2> TAKE j \in 0 .. PATH_MAX - 1
  <2>1. j < q \/ n <= j => j # q /\ j \notin q + 1 .. q + k
    BY <1>2
  <2> QED BY <2>1 DEF k
<1>6. n \in 0 .. PATH_MAX /\ n \in Nat /\ q \in Nat
  <2>1. q + 1 + k <= PATH_MAX
    BY DEF k
  <2> QED BY <2>1, <1>0, <1>2
<1>7. ASSUME NEW j \in 0 .. n - 1 PROVE c[j] \in Chars \cup {Slash} /\ c[j] # NUL
  <2>1. \A i \in 0 .. q - 1 : b[i] \in Chars \cup {Slash}
    BY WrittenBytes DEF OnWalk
  <2>2. j \in 0 .. q - 1 \/ j = q \/ j \in q + 1 .. q + k
    BY <1>2, <1>6
  <2>3. CASE j \in 0 .. q - 1
    <3>1. c[j] = b[j]
      BY <2>3, <1>0, <1>5
    <3> QED BY <2>1, <2>3, <3>1, <1>0 DEF Slash, NUL
  <2>4. CASE j = q
    BY <2>4 DEF Slash, NUL
  <2>5. CASE j \in q + 1 .. q + k
    BY <2>5, <1>0, <1>4
  <2> QED BY <2>2, <2>3, <2>4, <2>5
<1>8. c[0] = Slash
  <2>1. CASE q = 0
    BY <2>1
  <2>2. CASE q # 0
    <3>1. 0 \in 0 .. PATH_MAX - 1 /\ 0 < q
      BY <2>2, <1>0
    <3> QED BY <3>1, <1>5 DEF OnWalk
  <2> QED BY <2>1, <2>2
<1>9. ~ (n <= 1)
  BY <1>2, <1>6
<1>10. n > 1 => c[n - 1] # Slash
  <2>1. n - 1 \in q + 1 .. q + k
    BY <1>2, <1>6
  <2> QED BY <2>1, <1>0, <1>4
<1>11. ASSUME NEW j \in 1 .. n - 2, c[j] = Slash PROVE c[j + 1] # Slash
  <2>1. j \notin q + 1 .. q + k
    BY <1>0, <1>4, <1>11
  <2>2. j \in 1 .. q - 2 \/ (j = q - 1 /\ q > 1) \/ j = q
    BY <2>1, <1>2, <1>6
  <2>3. CASE j \in 1 .. q - 2
    <3>1. j \in 0 .. PATH_MAX - 1 /\ j + 1 \in 0 .. PATH_MAX - 1 /\ j < q /\ j + 1 < q
      BY <2>3, <1>0, <1>6
    <3> QED BY <2>3, <3>1, <1>5, <1>11 DEF OnWalk
  <2>4. CASE j = q - 1 /\ q > 1
    <3>1. j \in 0 .. PATH_MAX - 1 /\ j < q
      BY <2>4, <1>0, <1>6
    <3>2. c[j] = b[q - 1]
      BY <2>4, <3>1, <1>5
    <3> QED BY <2>4, <3>2, <1>11 DEF OnWalk
  <2>5. CASE j = q
    <3>1. j + 1 \in q + 1 .. q + k
      BY <2>5, <1>2, <1>6
    <3> QED BY <3>1, <1>0, <1>4
  <2> QED BY <2>2, <2>3, <2>4, <2>5
<1>12. NamesOf(Begin(c, n)) = Meanings(p, d)[w + 1]
  <2>1. NamesOf(Begin(c, n)) =
          Append(NamesOf(Begin(c, q)), SubSeq(Begin(c, n), q + 2, n))
    <3>1. \A j \in q + 1 .. n - 1 : c[j] # Slash
      <4>1. n - 1 = q + k
        BY <1>2, <1>6
      <4> QED BY <4>1, <1>0, <1>4
    <3>2. q + 2 <= n
      BY <1>2, <1>6
    <3>3. \A j \in 0 .. n - 1 : c[j] \in Chars \cup {Slash}
      BY <1>7
    <3>4. PICK m \in Nat : m = n
      BY <1>6
    <3> HIDE DEF n
    <3> QED BY ONLY <1>6, <3>1, <3>2, <3>3, <3>4, c[q] = Slash, BeginGoesOn
  <2>2. Begin(c, q) = Begin(b, q)
    <3>1. \A j \in 0 .. q - 1 : c[j] = b[j]
      <4>1. \A j \in 0 .. q - 1 : j \in 0 .. PATH_MAX - 1 /\ j < q
        BY <1>0, <1>6
      <4> QED BY <4>1, <1>5
    <3> QED BY <3>1, <1>6, BeginAgrees
  <2>3. SubSeq(Begin(c, n), q + 2, n) = name
    <3>1. /\ Begin(c, n) \in PathText
          /\ \A j \in 1 .. n : Begin(c, n)[j] = c[j - 1]
      BY <1>6, <1>7, BeginIs
    <3>2. PICK t \in PathText : t = Begin(c, n)
      BY <3>1
    <3>3. \A j \in q + 2 .. n : t[j] = c[j - 1] /\ t[j] \in Chars
      <4> TAKE j \in q + 2 .. n
      <4>1. j \in 1 .. n /\ j - 1 \in q + 1 .. q + k
        BY <1>2, <1>6
      <4> QED BY <4>1, <3>1, <3>2, <1>4
    <3>4. PICK u : u = SubSeq(t, q + 2, n)
      OBVIOUS
    <3>5. /\ u \in Seq(Chars) /\ Len(u) = k
          /\ \A i \in 1 .. k : u[i] = t[q + 1 + i]
      <4>1. q + 2 \in Int /\ n \in Int /\ n - (q + 2) + 1 = k /\ q + 2 <= n
        BY <1>2, <1>6
      <4>2. PICK lo \in Int : lo = q + 2
        BY <4>1
      <4>3. PICK hi \in Int : hi = n
        BY <4>1
      <4>4. \A i \in lo .. hi : t[i] \in Chars
        BY <3>3, <4>2, <4>3
      <4>5. /\ SubSeq(t, lo, hi) \in Seq(Chars)
            /\ Len(SubSeq(t, lo, hi)) = IF lo <= hi THEN hi - lo + 1 ELSE 0
            /\ \A i \in 1 .. hi - lo + 1 : SubSeq(t, lo, hi)[i] = t[lo + i - 1]
        BY ONLY <4>4, SubSeqProperties
      <4>6. hi - lo + 1 = k /\ lo <= hi /\ \A i \in 1 .. k : lo + i - 1 = q + 1 + i
        BY <4>1, <4>2, <4>3, <1>2, <1>6
      <4> HIDE DEF n
      <4>7. u = SubSeq(t, lo, hi)
        BY <3>4, <4>2, <4>3
      <4> QED BY <4>5, <4>6, <4>7
    <3>6. \A i \in 1 .. k : u[i] = name[i]
      <4> TAKE i \in 1 .. k
      <4>1. q + 1 + i \in q + 2 .. n /\ (q + 1 + i) - 1 = q + i
            /\ q + i \in q + 1 .. q + k /\ (q + i) - q = i
        <5> HIDE DEF n
        <5>1. n = q + 1 + k /\ i \in 1 .. k /\ q \in Int /\ k \in Int
          BY <1>2, <1>6 DEF n
        <5> QED BY ONLY <5>1
      <4> QED BY <3>3, <3>5, <4>1, <1>4
    <3>7. u = name
      <4>1. Len(u) = Len(name) /\ \A i \in 1 .. Len(u) : u[i] = name[i]
        BY <3>5, <3>6 DEF k
      <4> QED BY ONLY <3>5, <1>2, <4>1, SeqEqual
    <3> QED BY <3>2, <3>4, <3>7
  <2>4. Meanings(p, d)[w + 1] = MeaningStep(Meanings(p, d)[w], name)
    BY <1>1, MeaningEquations
  <2>5. Meanings(p, d)[w + 1] = Append(Meanings(p, d)[w], name)
    BY <2>4 DEF MeaningStep
  <2>6. NamesOf(Begin(b, q)) = Meanings(p, d)[w]
    BY DEF OnWalk
  <2> HIDE DEF n
  <2> QED BY <2>1, <2>2, <2>3, <2>5, <2>6
<1>13. n <= LenUpTo(p, d, w + 1)
  <2>1. LenUpTo(p, d, w + 1) = LenUpTo(p, d, w) + 1 + k
    BY LenGrows DEF k
  <2>2. LenUpTo(p, d, w) \in Nat /\ q <= LenUpTo(p, d, w)
    BY <1>1, LenGrows DEF OnWalk
  <2> QED BY <1>2, <1>6, <2>1, <2>2
<1>14. ASSUME s[PATH_MAX - 1] = NUL, LenUpTo(p, d, Len(p.names)) < PATH_MAX
       PROVE  c[PATH_MAX - 1] = NUL
  <2>1. /\ LenUpTo(p, d, w + 1) <= LenUpTo(p, d, Len(p.names))
        /\ LenUpTo(p, d, w + 1) \in Nat
    BY <1>1, LenGrows
  <2>2. LenUpTo(p, d, Len(p.names)) \in Nat
    <3>1. Len(p.names) \in 0 .. Len(p.names)
      BY <1>1
    <3> QED BY <3>1, LenGrows
  <2>3. PATH_MAX - 1 \in 0 .. PATH_MAX - 1 /\ n <= PATH_MAX - 1
    BY <2>1, <2>2, <1>0, <1>6, <1>13, <1>14
  <2> QED BY <2>3, <1>5, <1>14 DEF OnWalk
<1>15. \A j \in 0 .. n - 1 : c[j] # NUL
  BY <1>7
<1> HIDE DEF n
<1>16. OnWalk(p, d, s, c, n, w + 1)
  BY <1>8, <1>9, <1>10, <1>11, <1>12, <1>13, <1>14, <1>15 DEF OnWalk
<1> QED BY <1>16 DEF n, k

\* "..", "." and the empty name are three names.
LEMMA DotsDiffer == DotDot # <<>> /\ DotDot # Dot
<1>1. Len(DotDot) = 2 /\ Len(Dot) = 1 /\ Len(<<>>) = 0
  BY DEF DotDot, Dot
<1> QED BY <1>1

\* The last of some elements, taken away again.
LEMMA AppendedAndCut ==
  ASSUME NEW S, NEW g \in Seq(S), NEW x \in S
  PROVE  SubSeq(Append(g, x), 1, Len(Append(g, x)) - 1) = g
<1>1. PICK u : u = Append(g, x)
  OBVIOUS
<1>2. u \in Seq(S) /\ Len(u) = Len(g) + 1 /\ \A i \in 1 .. Len(g) : u[i] = g[i]
  BY <1>1, AppendProperties
<1>3. Len(g) \in Nat /\ Len(u) - 1 = Len(g)
  BY <1>2
<1>4. PICK n \in Nat : n = Len(g)
  BY <1>3
<1>5. PICK t : t = SubSeq(u, 1, n)
  OBVIOUS
<1>6. t \in Seq(S) /\ Len(t) = n /\ \A i \in 1 .. n : t[i] = u[i]
  BY <1>2, <1>4, <1>5
<1>7. Len(t) = Len(g) /\ \A i \in 1 .. Len(t) : t[i] = g[i]
  BY <1>2, <1>4, <1>6
<1>8. t = g
  BY ONLY <1>6, <1>7, g \in Seq(S), SeqEqual
<1> QED BY <1>1, <1>3, <1>4, <1>5, <1>8

\* A NUL at the last slash takes the last name away, and none from the root.
LEMMA UpKeeps ==
  ASSUME NEW p \in Path, NEW d \in PathText, NEW s,
         NEW b \in [0 .. PATH_MAX - 1 -> Bytes], NEW q \in 0 .. PATH_MAX,
         NEW w \in 0 .. Len(p.names) - 1, OnWalk(p, d, s, b, q, w),
         p.names[w + 1] = DotDot,
         NEW l \in 0 .. PATH_MAX - 1, b[l] = Slash,
         l = 0 \/ l < q, \A j \in l + 1 .. q - 1 : b[j] # Slash,
         NEW c, \A j \in 0 .. PATH_MAX - 1 :
                  c[j] = IF j = UpFrom(l) THEN NUL ELSE b[j]
  PROVE  OnWalk(p, d, s, c, l, w + 1)
<1>0. PATH_MAX \in Nat /\ PATH_MAX >= 2
  BY PathAssumption
<1>1. /\ p.names \in Seq(Seq(Chars)) /\ Len(p.names) \in Nat
      /\ w + 1 \in 1 .. Len(p.names) /\ (w + 1) - 1 = w /\ w \in 0 .. Len(p.names)
      /\ w + 1 \in 0 .. Len(p.names)
  BY DEF Path
<1>2. PICK e \in Nat : e = UpFrom(l) /\ e # 0 /\ (l = 0 => e = 1) /\ (l # 0 => e = l)
  BY <1>0 DEF UpFrom
<1>3. NUL # Slash
  BY DEF NUL, Slash
<1>4. \A j \in 0 .. PATH_MAX - 1 : c[j] = IF j = e THEN NUL ELSE b[j]
  BY <1>2
<1>5. /\ b[0] = Slash
      /\ \A j \in 0 .. q - 1 : b[j] # NUL
      /\ q > 1 => b[q - 1] # Slash
      /\ \A j \in 1 .. q - 2 : b[j] = Slash => b[j + 1] # Slash
      /\ NamesOf(Begin(b, q)) = Meanings(p, d)[w]
      /\ q <= LenUpTo(p, d, w)
      /\ s[PATH_MAX - 1] = NUL /\ LenUpTo(p, d, Len(p.names)) < PATH_MAX =>
           b[PATH_MAX - 1] = NUL
  BY DEF OnWalk
<1>6. l = 0 \/ (l < q /\ l # q - 1)
  <2>1. l # 0 /\ l < q => q > 1
    BY <1>0
  <2>2. q > 1 => l # q - 1
    BY <1>5
  <2> QED BY <2>1, <2>2
<1>7. c[0] = Slash
  BY <1>0, <1>2, <1>4, <1>5
<1>8. l <= 1 => c[1] = NUL
  <2>1. l <= 1 => e = 1
    BY <1>0, <1>2
  <2>2. 1 \in 0 .. PATH_MAX - 1
    BY <1>0
  <2> QED BY <2>1, <2>2, <1>4
<1>9. \A j \in 0 .. l - 1 : c[j] = b[j]
  <2> TAKE j \in 0 .. l - 1
  <2>1. j \in 0 .. PATH_MAX - 1 /\ j # e
    BY <1>0, <1>2
  <2> QED BY <2>1, <1>4
<1>10. \A j \in 0 .. l - 1 : c[j] # NUL
  <2> TAKE j \in 0 .. l - 1
  <2>1. j \in 0 .. q - 1
    BY <1>0, <1>6
  <2> QED BY <2>1, <1>5, <1>9
<1>11. l > 1 => c[l - 1] # Slash
  <2> SUFFICES ASSUME l > 1 PROVE c[l - 1] # Slash
    OBVIOUS
  <2>1. l - 1 \in 1 .. q - 2 /\ l - 1 \in 0 .. l - 1 /\ (l - 1) + 1 = l
    BY <1>0, <1>6
  <2>2. b[l - 1] # Slash
    BY <1>5, <2>1
  <2> QED BY <1>9, <2>1, <2>2
<1>12. \A j \in 1 .. l - 2 : c[j] = Slash => c[j + 1] # Slash
  <2> TAKE j \in 1 .. l - 2
  <2>1. j \in 0 .. l - 1 /\ j + 1 \in 0 .. l - 1 /\ j \in 1 .. q - 2
    BY <1>0, <1>6
  <2> QED BY <1>5, <1>9, <2>1
<1>13. NamesOf(Begin(c, l)) = Meanings(p, d)[w + 1]
  <2>1. Begin(c, l) = Begin(b, l)
    <3>1. l \in Nat
      BY <1>0
    <3> QED BY ONLY <1>9, <3>1, BeginAgrees
  <2>2. PICK m : m = Meanings(p, d)[w]
    OBVIOUS
  <2>3. Meanings(p, d)[w + 1] = MeaningStep(m, DotDot)
    BY <1>1, <2>2, MeaningEquations
  <2>4. Meanings(p, d)[w + 1] = SubSeq(m, 1, Len(m) - 1)
    BY <2>3, DotsDiffer DEF MeaningStep
  <2>5. NamesOf(Begin(b, l)) = SubSeq(m, 1, Len(m) - 1)
    <3>1. CASE q <= 1
      <4>1. l = 0 /\ q \in {0, 1}
        BY <3>1, <1>0, <1>6
      <4>2. m = <<>> /\ NamesOf(Begin(b, l)) = <<>>
        BY <4>1, <2>2, <1>5, BeginRoot
      <4>3. SubSeq(<<>>, 1, Len(<<>>) - 1) = <<>>
        OBVIOUS
      <4> QED BY <4>2, <4>3
    <3>2. CASE q > 1
      <4>1. l + 2 <= q /\ l \in Nat /\ q \in Nat /\ \A j \in 0 .. l - 1 : j \in 0 .. q - 1
        BY <3>2, <1>0, <1>6
      <4>2. \A j \in 0 .. q - 1 : b[j] \in Chars \cup {Slash}
        BY <1>5, WrittenBytes
      <4>3. PICK x : x = SubSeq(Begin(b, q), l + 2, q)
        OBVIOUS
      <4>4. PICK g : g = NamesOf(Begin(b, l))
        OBVIOUS
      <4>5. m = Append(g, x)
        BY <4>1, <4>2, <4>3, <4>4, <2>2, <1>5, BeginGoesOn
      <4>6. g \in Seq(Seq(Chars))
        <5>1. Begin(b, l) \in PathText /\ Len(Begin(b, l)) = l /\ l \in 0 .. l
          <6>1. \A j \in 0 .. l - 1 : b[j] \in Chars \cup {Slash}
            BY <4>1, <4>2
          <6>2. l \in 0 .. l
            BY <4>1
          <6> QED BY <4>1, <6>1, <6>2, BeginIs
        <5> QED BY <5>1, <4>4, NamesEquations DEF NamesOf
      <4>7. x \in Seq(Chars)
        <5>1. /\ Begin(b, q) \in PathText
              /\ \A j \in 1 .. q : Begin(b, q)[j] = b[j - 1]
          BY <4>1, <4>2, BeginIs
        <5>2. PICK t : t = Begin(b, q)
          OBVIOUS
        <5>3. \A j \in l + 2 .. q : t[j] \in Chars
          <6> TAKE j \in l + 2 .. q
          <6>1. j \in 1 .. q /\ j - 1 \in l + 1 .. q - 1 /\ j - 1 \in 0 .. q - 1
            BY <4>1
          <6> QED BY <6>1, <5>1, <5>2, <4>2
        <5>4. PICK lo \in Int : lo = l + 2
          BY <4>1
        <5>5. SubSeq(t, lo, q) \in Seq(Chars)
          <6>1. q \in Int /\ \A j \in lo .. q : t[j] \in Chars
            BY <4>1, <5>3, <5>4
          <6> QED BY ONLY <6>1, lo \in Int, SubSeqProperties
        <5> QED BY <4>3, <5>2, <5>4, <5>5
      <4>8. SubSeq(m, 1, Len(m) - 1) = g
        <5> DEFINE S == Seq(Chars)
        <5>1. g \in Seq(S) /\ x \in S
          BY <4>6, <4>7
        <5> HIDE DEF S
        <5> QED BY <5>1, <4>5, AppendedAndCut
      <4> QED BY <4>4, <4>8
    <3> QED BY <1>0, <3>1, <3>2
  <2> QED BY <2>1, <2>4, <2>5
<1>14. l <= LenUpTo(p, d, w + 1)
  <2>1. LenUpTo(p, d, w + 1) = LenUpTo(p, d, w) + 1 + Len(p.names[w + 1])
    BY LenGrows
  <2>2. LenUpTo(p, d, w) \in Nat /\ LenUpTo(p, d, w + 1) \in Nat
    BY <1>1, LenGrows
  <2>3. PICK k \in Nat : k = Len(p.names[w + 1])
    BY DEF DotDot
  <2>4. LenUpTo(p, d, w) <= LenUpTo(p, d, w + 1)
    BY <2>1, <2>2, <2>3
  <2> QED BY <1>0, <1>5, <1>6, <2>2, <2>4
<1>15. ASSUME s[PATH_MAX - 1] = NUL, LenUpTo(p, d, Len(p.names)) < PATH_MAX
       PROVE  c[PATH_MAX - 1] = NUL
  <2>1. PATH_MAX - 1 \in 0 .. PATH_MAX - 1
    BY <1>0
  <2> QED BY <2>1, <1>4, <1>5, <1>15
<1> QED BY <1>7, <1>8, <1>10, <1>11, <1>12, <1>13, <1>14, <1>15 DEF OnWalk

\* "." and the empty name mean nothing.
LEMMA SkipKeeps ==
  ASSUME NEW p \in Path, NEW d \in PathText, NEW s, NEW b, NEW q \in 0 .. PATH_MAX,
         NEW w \in 0 .. Len(p.names) - 1, OnWalk(p, d, s, b, q, w),
         p.names[w + 1] \in {<<>>, Dot}
  PROVE  OnWalk(p, d, s, b, q, w + 1)
<1>1. /\ p.names \in Seq(Seq(Chars)) /\ Len(p.names) \in Nat
      /\ w + 1 \in 1 .. Len(p.names) /\ (w + 1) - 1 = w /\ w \in 0 .. Len(p.names)
      /\ w + 1 \in 0 .. Len(p.names)
  BY DEF Path
<1>2. Meanings(p, d)[w + 1] = Meanings(p, d)[w]
  <2>1. Meanings(p, d)[w + 1] = MeaningStep(Meanings(p, d)[w], p.names[w + 1])
    BY <1>1, MeaningEquations
  <2> QED BY <2>1 DEF MeaningStep
<1>3. q <= LenUpTo(p, d, w + 1)
  <2>1. LenUpTo(p, d, w + 1) = LenUpTo(p, d, w) + 1 + Len(p.names[w + 1])
    BY LenGrows
  <2>2. LenUpTo(p, d, w) \in Nat /\ LenUpTo(p, d, w + 1) \in Nat
    BY <1>1, LenGrows
  <2>3. PICK k \in Nat : k = Len(p.names[w + 1])
    BY DEF Dot
  <2>4. LenUpTo(p, d, w) <= LenUpTo(p, d, w + 1)
    BY <2>1, <2>2, <2>3
  <2>5. q <= LenUpTo(p, d, w) /\ q \in Int
    BY PathAssumption DEF OnWalk
  <2> QED BY <2>2, <2>4, <2>5
<1> QED BY <1>2, <1>3 DEF OnWalk

\* A ".." that finds a '/' behind the text takes no name away from it.
LEMMA MisledKeepsNames ==
  ASSUME NEW p \in Path, NEW d \in PathText, NEW s,
         NEW b \in [0 .. PATH_MAX - 1 -> Bytes], NEW q \in 0 .. PATH_MAX,
         NEW w \in 0 .. Len(p.names) - 1, OnWalk(p, d, s, b, q, w),
         p.names[w + 1] = DotDot, q > 1,
         NEW l \in 0 .. PATH_MAX - 1, q <= l, \A j \in 0 .. l - 1 : b[j] # NUL
  PROVE  NamesOf(Begin(b, l)) # Meanings(p, d)[w + 1]
<1>0. PATH_MAX \in Nat
  BY PathAssumption
<1>1. l \in Nat /\ q \in 0 .. l /\ l \in 0 .. PATH_MAX
  BY <1>0
<1>2. \A j \in 0 .. l - 1 : b[j] \in Chars \cup {Slash}
  BY <1>1, WrittenBytes
<1>3. /\ Begin(b, l) \in PathText /\ Len(Begin(b, l)) = l
      /\ \A j \in 1 .. l : Begin(b, l)[j] = b[j - 1]
  BY <1>1, <1>2, BeginIs
<1>4. PICK t \in PathText : t = Begin(b, l)
  BY <1>3
<1>5. NamesUpTo(t)[q] = Meanings(p, d)[w]
  <2>1. NamesUpTo(Begin(b, l))[q] = NamesOf(Begin(b, q))
    BY ONLY <1>1, <1>2, BeginNames
  <2> QED BY <2>1, <1>4 DEF OnWalk
<1>6. t[q] # Slash
  <2>1. q \in 1 .. l
    BY <1>0
  <2> QED BY <2>1, <1>3, <1>4 DEF OnWalk
<1>7. /\ 0 < Len(Meanings(p, d)[w])
      /\ Len(Meanings(p, d)[w]) <= Len(NamesOf(t))
  <2>1. q \in 0 .. Len(t) /\ q # 0
    BY <1>1, <1>3, <1>4
  <2>2. /\ 0 < Len(NamesUpTo(t)[q])
        /\ Len(NamesUpTo(t)[q]) <= Len(NamesUpTo(t)[Len(t)])
    BY <2>1, <1>6, NamesGrow
  <2> QED BY <2>2, <1>5 DEF NamesOf
<1>8. PICK m \in Seq(Seq(Chars)) : m = Meanings(p, d)[w]
  <2>1. w \in 0 .. Len(p.names)
    BY DEF Path
  <2> QED BY <2>1, MeaningEquations
<1>9. Meanings(p, d)[w + 1] = SubSeq(m, 1, Len(m) - 1)
  <2>1. w + 1 \in 1 .. Len(p.names) /\ (w + 1) - 1 = w
    BY DEF Path
  <2>2. Meanings(p, d)[w + 1] = MeaningStep(m, DotDot)
    BY <2>1, <1>8, MeaningEquations
  <2> QED BY <2>2, DotsDiffer DEF MeaningStep
<1>10. Len(Meanings(p, d)[w + 1]) < Len(m)
  <2>1. PICK n \in Nat : n = Len(m) /\ n > 0
    BY <1>7, <1>8
  <2>2. Len(SubSeq(m, 1, n - 1)) = n - 1
    BY <2>1
  <2> QED BY <1>9, <2>1, <2>2
<1>11. Len(m) <= Len(NamesOf(t))
  BY <1>7, <1>8
<1>12. ASSUME NamesOf(t) = Meanings(p, d)[w + 1] PROVE FALSE
  <2>1. PICK n \in Nat : n = Len(m)
    OBVIOUS
  <2>2. PICK u : u = Meanings(p, d)[w + 1]
    OBVIOUS
  <2>3. Len(u) \in Nat
    <3>1. w + 1 \in 0 .. Len(p.names)
      BY DEF Path
    <3>2. u \in Seq(Seq(Chars))
      BY <2>2, <3>1, MeaningEquations
    <3> QED BY <3>2
  <2>4. Len(u) < n /\ n <= Len(u)
    BY <1>10, <1>11, <1>12, <2>1, <2>2
  <2> QED BY ONLY n \in Nat, <2>3, <2>4
<1> QED BY <1>4, <1>12

(***************************************************************************)
(* The start and the end of the walk.                                      *)
(***************************************************************************)
\* The walk along an absolute path starts with a slash.
LEMMA RootKeeps ==
  ASSUME NEW p \in Path, NEW d \in PathText, p.absolute, NEW s,
         NEW c, \A j \in 0 .. PATH_MAX - 1 :
                  c[j] = IF j = 0 THEN Slash ELSE IF j = 1 THEN NUL ELSE s[j]
  PROVE  OnWalk(p, d, s, c, 0, 0)
<1>0. PATH_MAX \in Nat /\ PATH_MAX >= 2 /\ NUL # Slash
  BY PathAssumption DEF NUL, Slash
<1>1. Len(p.names) \in Nat
  BY DEF Path
<1>2. c[0] = Slash
  BY <1>0
<1>3. c[1] = NUL
  BY <1>0
<1>4. NamesOf(Begin(c, 0)) = Meanings(p, d)[0]
  <2>1. Meanings(p, d)[0] = <<>>
    BY MeaningEquations DEF Meant
  <2> QED BY <2>1, <1>2, BeginRoot
<1>5. 0 <= LenUpTo(p, d, 0)
  <2>1. 0 \in 0 .. Len(p.names)
    BY <1>1
  <2>2. LenUpTo(p, d, 0) \in Nat
    BY <2>1, LenGrows
  <2> QED BY <2>2
<1>6. ASSUME s[PATH_MAX - 1] = NUL PROVE c[PATH_MAX - 1] = NUL
  BY <1>0, <1>6
<1> QED BY <1>0, <1>2, <1>3, <1>4, <1>5, <1>6 DEF OnWalk

\* The walk along a relative path starts with the working directory.
LEMMA CwdKeeps ==
  ASSUME NEW p \in Path, NEW d \in Directory, ~ p.absolute, NEW s,
         Len(d) + 1 <= PATH_MAX,
         NEW c, \A j \in 0 .. PATH_MAX - 1 :
                  c[j] = IF j < Len(d) THEN d[j + 1]
                         ELSE IF j = Len(d) THEN NUL ELSE s[j]
  PROVE  OnWalk(p, d, s, c, Len(d), 0)
<1>0. PATH_MAX \in Nat /\ PATH_MAX >= 2 /\ NUL # Slash /\ NUL \notin Chars
  BY PathAssumption DEF NUL, Slash
<1>1. Len(p.names) \in Nat
  BY DEF Path
<1>2. /\ d \in PathText /\ Len(d) > 0 /\ d[1] = Slash
      /\ Len(d) > 1 => d[Len(d)] # Slash
      /\ \A j \in 1 .. Len(d) - 1 : d[j] = Slash => d[j + 1] # Slash
  BY DEF Directory
<1>3. PICK q \in Nat : q = Len(d)
  BY <1>2 DEF PathText
<1>4. /\ \A j \in 0 .. q - 1 : c[j] = d[j + 1]
      /\ \A j \in q .. PATH_MAX - 1 : c[j] = IF j = q THEN NUL ELSE s[j]
  <2>1. q + 1 <= PATH_MAX
    BY <1>3
  <2>2. \A j \in 0 .. q - 1 : j \in 0 .. PATH_MAX - 1 /\ j < q
    BY <1>0, <2>1
  <2>3. \A j \in q .. PATH_MAX - 1 : j \in 0 .. PATH_MAX - 1 /\ ~ (j < q)
    BY <1>0
  <2> QED BY <1>3, <2>2, <2>3
<1>5. q > 0 /\ q + 1 <= PATH_MAX
  BY <1>2, <1>3
<1>6. \A j \in 0 .. q - 1 : c[j] \in Chars \cup {Slash}
  <2> TAKE j \in 0 .. q - 1
  <2>1. j + 1 \in 1 .. Len(d)
    BY <1>3
  <2>2. d[j + 1] \in Chars \cup {Slash}
    BY <2>1, <1>2 DEF PathText
  <2> QED BY <2>2, <1>4
<1>7. c[0] = Slash
  <2>1. 0 \in 0 .. q - 1 /\ 0 + 1 = 1
    BY <1>5
  <2> QED BY <2>1, <1>2, <1>4
<1>8. q <= 1 => c[1] = NUL
  <2>1. q <= 1 => q = 1 /\ 1 \in q .. PATH_MAX - 1
    BY <1>0, <1>5
  <2> QED BY <2>1, <1>4
<1>9. \A j \in 0 .. q - 1 : c[j] # NUL
  BY <1>0, <1>6
<1>10. q > 1 => c[q - 1] # Slash
  <2>1. q - 1 \in 0 .. q - 1 /\ (q - 1) + 1 = q
    BY <1>5
  <2> QED BY <2>1, <1>2, <1>3, <1>4
<1>11. \A j \in 1 .. q - 2 : c[j] = Slash => c[j + 1] # Slash
  <2> TAKE j \in 1 .. q - 2
  <2>1. j \in 0 .. q - 1 /\ j + 1 \in 0 .. q - 1 /\ j + 1 \in 1 .. q - 1
    BY <1>5
  <2>2. c[j] = d[j + 1] /\ c[j + 1] = d[(j + 1) + 1]
    BY <1>4, <2>1
  <2>3. d[j + 1] = Slash => d[(j + 1) + 1] # Slash
    BY <1>2, <1>3, <2>1
  <2> QED BY <2>2, <2>3
<1>12. NamesOf(Begin(c, q)) = Meanings(p, d)[0]
  <2>1. Meanings(p, d)[0] = NamesOf(d)
    BY <1>2, MeaningEquations DEF Meant
  <2>2. /\ Begin(c, q) \in PathText /\ Len(Begin(c, q)) = q
        /\ \A j \in 1 .. q : Begin(c, q)[j] = c[j - 1]
    BY <1>6, BeginIs
  <2>3. PICK t \in PathText : t = Begin(c, q)
    BY <2>2
  <2>4. \A j \in 1 .. Len(t) : t[j] = d[j]
    <3> TAKE j \in 1 .. Len(t)
    <3>1. j \in 1 .. q /\ j - 1 \in 0 .. q - 1 /\ (j - 1) + 1 = j
      BY <2>2, <2>3
    <3> QED BY <3>1, <2>2, <2>3, <1>4
  <2>5. t = d
    <3>1. Len(t) = Len(d)
      BY <2>2, <2>3, <1>3
    <3>2. t \in Seq(Chars \cup {Slash}) /\ d \in Seq(Chars \cup {Slash})
      BY <1>2 DEF PathText
    <3> QED BY ONLY <3>1, <3>2, <2>4, SeqEqual
  <2> QED BY <2>1, <2>3, <2>5
<1>13. q <= LenUpTo(p, d, 0)
  BY <1>2, <1>3, LenGrows
<1>14. ASSUME s[PATH_MAX - 1] = NUL PROVE c[PATH_MAX - 1] = NUL
  <2>1. PATH_MAX - 1 \in q .. PATH_MAX - 1
    BY <1>0, <1>5
  <2> QED BY <2>1, <1>4, <1>14
<1>15. OnWalk(p, d, s, c, q, 0)
  BY <1>7, <1>8, <1>9, <1>10, <1>11, <1>12, <1>13, <1>14 DEF OnWalk
<1> QED BY <1>3, <1>15

\* c starts with a string of e bytes, with the names the path means.
Ends(p, d, c, e) ==
  /\ NamesOf(Begin(c, e)) = Meaning(p, d)
  /\ c[e] = NUL
  /\ \A j \in 0 .. e - 1 : c[j] # NUL
  /\ c[0] = Slash

\* The NUL behind the walk ends the string.
LEMMA EndKeeps ==
  ASSUME NEW p \in Path, NEW d \in PathText, NEW s,
         NEW b \in [0 .. PATH_MAX - 1 -> Bytes], NEW q \in 0 .. PATH_MAX,
         OnWalk(p, d, s, b, q, Len(p.names)),
         NEW e \in 0 .. PATH_MAX - 1, (q = 0 => e = 1) /\ (q # 0 => e = q),
         NEW c, \A j \in 0 .. PATH_MAX - 1 : c[j] = IF j = e THEN NUL ELSE b[j]
  PROVE  Ends(p, d, c, e)
<1>0. PATH_MAX \in Nat /\ PATH_MAX >= 2 /\ NUL # Slash
  BY PathAssumption DEF NUL, Slash
<1>1. /\ b[0] = Slash
      /\ \A j \in 0 .. q - 1 : b[j] # NUL
      /\ NamesOf(Begin(b, q)) = Meanings(p, d)[Len(p.names)]
  BY DEF OnWalk
<1>2. e > 0 /\ \A j \in 0 .. e - 1 : c[j] = b[j]
  <2>1. e > 0
    BY <1>0
  <2>2. \A j \in 0 .. e - 1 : j \in 0 .. PATH_MAX - 1 /\ j # e
    BY <1>0
  <2> QED BY <2>1, <2>2
<1>3. c[0] = Slash
  BY <1>0, <1>1, <1>2
<1>4. \A j \in 0 .. e - 1 : c[j] # NUL
  <2> TAKE j \in 0 .. e - 1
  <2>1. j = 0 \/ j \in 0 .. q - 1
    BY <1>0
  <2> QED BY <2>1, <1>0, <1>1, <1>2
<1>5. NamesOf(Begin(c, e)) = NamesOf(Begin(b, q))
  <2>1. CASE q = 0
    BY <2>1, <1>1, <1>3, BeginRoot
  <2>2. CASE q # 0
    <3>1. e = q /\ e \in Nat
      BY <2>2, <1>0
    <3>2. Begin(c, e) = Begin(b, e)
      BY ONLY <3>1, <1>2, BeginAgrees
    <3> QED BY <3>1, <3>2
  <2> QED BY <2>1, <2>2
<1> QED BY <1>1, <1>3, <1>4, <1>5 DEF Meaning, Ends

\* While no leftover '/' has misled it, the call keeps the walk.
ResolvingInv ==
  /\ stale \in [0 .. PATH_MAX - 1 -> Bytes]
  /\ misled \in BOOLEAN
  /\ resolve \in {"idle", "start"} => real = stale
  /\ ~ misled /\ resolve = "walk" => OnWalk(path, cwd, stale, real, rp2, walked)

\* What it was for: the names, and the ways to an overrun.
ResolvedInv ==
  /\ resolve = "done" /\ ~ misled => NamesOf(RealText) = Meaning(path, cwd)
  /\ resolve = "overrun" =>
       LongestLen >= PATH_MAX \/ stale[PATH_MAX - 1] # NUL \/ misled

\* The invariant: the walk while it lasts, then what it was for.
PathWalkInv == ResolvingInv /\ ResolvedInv

\* Nothing of the path changes elsewhere.
LEMMA PathRests ==
  ASSUME PathWalkInv, UNCHANGED pathVars PROVE PathWalkInv'
<1>1. UNCHANGED <<path, cwd, stale, resolve, real, rp2, walked, misled>>
  BY DEF pathVars
<1>2. ResolvingInv'
  BY <1>1 DEF PathWalkInv, ResolvingInv
<1>3. RealText' = RealText /\ LongestLen' = LongestLen
  BY <1>1 DEF RealText, StrLen0, LongestLen
<1> QED BY <1>1, <1>2, <1>3 DEF PathWalkInv, ResolvedInv

\* Before the call ends there is only the walk to keep.
LEMMA GoesOn ==
  ASSUME ResolvingInv', resolve' \in {"idle", "start", "walk", "error"}
  PROVE  PathWalkInv'
BY DEF PathWalkInv, ResolvedInv

\* The bound of the property is that of the walk.
LEMMA LongestIs == LongestLen = LenUpTo(path, cwd, Len(path.names))
BY DEF LongestLen, LenUpTo

\* An overrun is allowed where the property says so.
LEMMA Overruns ==
  ASSUME PathWalkInv, resolve = "walk", Overrun,
         ~ misled => LongestLen >= PATH_MAX \/ stale[PATH_MAX - 1] # NUL
  PROVE  PathWalkInv'
<1>1. UNCHANGED <<path, cwd, stale, real, misled>> /\ resolve' = "overrun"
  BY DEF Overrun
<1>2. ResolvingInv'
  BY <1>1 DEF PathWalkInv, ResolvingInv
<1>3. LongestLen' = LongestLen
  BY <1>1 DEF LongestLen
<1> QED BY <1>1, <1>2, <1>3 DEF PathWalkInv, ResolvedInv

\* The call starts at the root or in the working directory.
LEMMA StartStep ==
  ASSUME PathInv, PathWalkInv, StartAbsolute \/ StartAtCwd
  PROVE  PathWalkInv'
<1>0. PATH_MAX \in Nat /\ PATH_MAX >= 2
  BY PathAssumption
<1>1. /\ resolve = "start" /\ resolve' = "walk" /\ walked = 0
      /\ UNCHANGED <<path, cwd, stale, walked, misled>>
  BY DEF StartAbsolute, StartAtCwd, PathInv
<1>2. /\ stale \in [0 .. PATH_MAX - 1 -> Bytes] /\ real = stale
      /\ path \in Path /\ cwd \in Directory /\ misled \in BOOLEAN
  BY <1>1 DEF PathInv, PathWalkInv, ResolvingInv
<1> SUFFICES OnWalk(path, cwd, stale, real', rp2', 0)
  BY <1>1, <1>2, GoesOn DEF ResolvingInv
<1>3. PICK p \in Path : p = path
  BY <1>2
<1>4. PICK d \in Directory : d = cwd
  BY <1>2
<1>5. PICK s : s = stale
  OBVIOUS
<1>6. PICK c : c = real'
  OBVIOUS
<1>8. CASE StartAbsolute
  <2>1. p.absolute /\ real' = Written(0, <<Slash, NUL>>) /\ rp2' = 0
    BY <1>8, <1>3 DEF StartAbsolute
  <2>2. \A j \in 0 .. PATH_MAX - 1 :
          c[j] = IF j = 0 THEN Slash ELSE IF j = 1 THEN NUL ELSE s[j]
    <3> TAKE j \in 0 .. PATH_MAX - 1
    <3>1. c[j] = IF j \in 0 .. 0 + 2 - 1 THEN <<Slash, NUL>>[j - 0 + 1] ELSE s[j]
      BY <2>1, <1>2, <1>5, <1>6 DEF Written
    <3>2. CASE j = 0
      BY <3>1, <3>2
    <3>3. CASE j = 1
      BY <3>1, <3>3
    <3>4. CASE j \notin 0 .. 1
      BY <3>1, <3>4, <1>0
    <3> QED BY <3>2, <3>3, <3>4, <1>0
  <2>3. d \in PathText
    BY DEF Directory
  <2>4. OnWalk(p, d, s, c, 0, 0)
    BY <2>1, <2>2, <2>3, RootKeeps
  <2> QED BY <2>1, <2>4, <1>3, <1>4, <1>5, <1>6
<1>9. CASE StartAtCwd
  <2>1. /\ ~ p.absolute /\ real' = Written(0, Append(d, NUL)) /\ rp2' = Len(d)
        /\ Fits(0, Append(d, NUL))
    BY <1>9, <1>3, <1>4 DEF StartAtCwd
  <2>2. d \in Seq(Chars \cup {Slash}) /\ Len(d) \in Nat
    BY DEF Directory, PathText
  <2>3. PICK t : t = Append(d, NUL)
    OBVIOUS
  <2>4. /\ Len(t) = Len(d) + 1 /\ t[Len(d) + 1] = NUL
        /\ \A j \in 1 .. Len(d) : t[j] = d[j]
    BY <2>2, <2>3
  <2>5. \A j \in 0 .. PATH_MAX - 1 :
          c[j] = IF j < Len(d) THEN d[j + 1]
                 ELSE IF j = Len(d) THEN NUL ELSE s[j]
    <3> TAKE j \in 0 .. PATH_MAX - 1
    <3>1. c[j] = IF j \in 0 .. 0 + Len(t) - 1 THEN t[j - 0 + 1] ELSE s[j]
      BY <2>1, <2>3, <1>2, <1>5, <1>6 DEF Written
    <3>2. CASE j < Len(d)
      <4>1. j \in 0 .. 0 + Len(t) - 1 /\ j - 0 + 1 = j + 1 /\ j + 1 \in 1 .. Len(d)
        BY <3>2, <1>0, <2>2, <2>4
      <4> QED BY <3>1, <3>2, <4>1, <2>4
    <3>3. CASE j = Len(d)
      <4>1. j \in 0 .. 0 + Len(t) - 1 /\ j - 0 + 1 = Len(d) + 1 /\ ~ (j < Len(d))
        BY <3>3, <1>0, <2>2, <2>4
      <4> QED BY <3>1, <3>3, <4>1, <2>4
    <3>4. CASE ~ (j < Len(d)) /\ j # Len(d)
      <4>1. j \notin 0 .. 0 + Len(t) - 1
        BY <3>4, <1>0, <2>2, <2>4
      <4> QED BY <3>1, <3>4, <4>1
    <3> QED BY <3>2, <3>3, <3>4
  <2>6. Len(d) + 1 <= PATH_MAX
    BY <2>1, <2>2, <2>3, <2>4 DEF Fits
  <2>7. OnWalk(p, d, s, c, Len(d), 0)
    BY ONLY p \in Path, d \in Directory, <2>1, <2>5, <2>6, CwdKeeps
  <2> QED BY <2>1, <2>7, <1>3, <1>4, <1>5, <1>6
<1> QED BY <1>8, <1>9

\* One name of the path: skipped, up, or added, or the end of the buffer.
LEMMA NameStepKeeps ==
  ASSUME PathInv, PathWalkInv, NEW name, SkipName(name) \/ Up(name) \/ AddName(name)
  PROVE  PathWalkInv'
<1>0. PATH_MAX \in Nat /\ PATH_MAX >= 2
  BY PathAssumption
<1>1. resolve = "walk" /\ walked < Len(path.names) /\ name = path.names[walked + 1]
  BY DEF SkipName, Up, AddName, AtName
<1>2. PICK p \in Path : p = path
  BY DEF PathInv
<1>3. PICK d \in PathText : d = cwd
  BY DEF PathInv, Directory
<1>4. PICK s : s = stale
  OBVIOUS
<1>5. PICK b \in [0 .. PATH_MAX - 1 -> Bytes] : b = real
  BY DEF PathInv
<1>6. PICK q \in 0 .. PATH_MAX : q = rp2
  BY DEF PathInv
<1>7. Len(p.names) \in Nat /\ p.names \in Seq(Seq(Chars))
  BY DEF Path
<1>8. walked \in 0 .. Len(p.names) - 1
  BY <1>1, <1>2, <1>7 DEF PathInv
<1>9. PICK w \in 0 .. Len(p.names) - 1 : w = walked
  BY <1>8
<1>10. name = p.names[w + 1] /\ name \in Seq(Chars)
  <2>1. w + 1 \in 1 .. Len(p.names)
    BY <1>7
  <2> QED BY <1>1, <1>2, <1>7, <1>9, <2>1
<1>11. ~ misled => OnWalk(p, d, s, b, q, w)
  BY <1>1, <1>2, <1>3, <1>4, <1>5, <1>6, <1>9 DEF PathWalkInv, ResolvingInv
<1>12. stale \in [0 .. PATH_MAX - 1 -> Bytes] /\ misled \in BOOLEAN
  BY DEF PathWalkInv, ResolvingInv
<1>13. ASSUME walked' = walked + 1, UNCHANGED <<path, cwd, stale, resolve>>,
              misled' \in BOOLEAN, ~ misled' => OnWalk(p, d, s, real', rp2', w + 1)
       PROVE  PathWalkInv'
  <2>1. ~ misled' => OnWalk(path', cwd', stale', real', rp2', walked')
    BY <1>2, <1>3, <1>4, <1>9, <1>13
  <2>2. ResolvingInv'
    BY <1>1, <1>12, <1>13, <2>1 DEF ResolvingInv
  <2> QED BY <1>1, <1>13, <2>2, GoesOn
<1>14. CASE SkipName(name)
  <2>1. /\ walked' = walked + 1 /\ UNCHANGED <<path, cwd, stale, resolve, real, rp2, misled>>
        /\ name \in {<<>>, Dot}
    BY <1>14 DEF SkipName
  <2>2. ~ misled => OnWalk(p, d, s, b, q, w + 1)
    <3>1. p.names[w + 1] \in {<<>>, Dot}
      BY <2>1, <1>10
    <3> SUFFICES ASSUME ~ misled PROVE OnWalk(p, d, s, b, q, w + 1)
      OBVIOUS
    <3>3. OnWalk(p, d, s, b, q, w)
      BY <1>11
    <3> QED BY ONLY <3>1, <3>3, p \in Path, d \in PathText, q \in 0 .. PATH_MAX,
                    w \in 0 .. Len(p.names) - 1, SkipKeeps
  <2> QED BY <2>1, <2>2, <1>5, <1>6, <1>12, <1>13
<1>15. CASE Up(name)
  <2>0. name = DotDot
    BY <1>15 DEF Up
  <2>1. CASE Terminated
    <3>1. /\ rp2' = LastSlash /\ real' = Written(UpFrom(LastSlash), <<NUL>>)
          /\ walked' = walked + 1 /\ UNCHANGED <<path, cwd, stale, resolve>>
          /\ misled' = (misled \/ LeftoverSlash)
      BY <1>15, <2>1 DEF Up
    <3>2. real[0] = Slash
      BY <1>1 DEF PathInv
    <3>3. /\ LastSlash \in 0 .. StrLen0 - 1 /\ real[LastSlash] = Slash
          /\ \A h \in LastSlash + 1 .. StrLen0 - 1 : real[h] # Slash
      BY <1>0, <2>1, <3>2, LastSlashIs
    <3>4. StrLen0 \in 0 .. PATH_MAX - 1 /\ real[StrLen0] = NUL
      BY <1>0, <2>1, StringInBuffer
    <3>5. PICK z \in 0 .. PATH_MAX - 1 : z = StrLen0
      BY <3>4
    <3>6. PICK l \in 0 .. PATH_MAX - 1 : l = LastSlash
      BY <3>3, <3>4, <1>0
    <3>7. PICK c : c = real'
      OBVIOUS
    <3>8. /\ b[z] = NUL /\ b[l] = Slash /\ \A h \in l + 1 .. z - 1 : b[h] # Slash
      BY <3>3, <3>4, <3>5, <3>6, <1>5
    <3>9. PICK e \in Nat : e = UpFrom(l)
      BY <1>0 DEF UpFrom
    <3>10. \A j \in 0 .. PATH_MAX - 1 : c[j] = IF j = UpFrom(l) THEN NUL ELSE b[j]
      <4> TAKE j \in 0 .. PATH_MAX - 1
      <4>1. c[j] = IF j \in e .. e + 1 - 1 THEN <<NUL>>[j - e + 1] ELSE b[j]
        BY <3>1, <3>6, <3>7, <3>9, <1>5 DEF Written
      <4>2. CASE j = e
        <5>1. j \in e .. e + 1 - 1 /\ j - e + 1 = 1
          BY <4>2
        <5>2. <<NUL>>[1] = NUL
          OBVIOUS
        <5>3. c[j] = NUL
          BY <4>1, <5>1, <5>2
        <5> QED BY <4>2, <5>3, <3>9
      <4>3. CASE j # e
        <5>1. j \notin e .. e + 1 - 1
          BY <4>3
        <5> QED BY <4>1, <4>3, <5>1, <3>9
      <4> QED BY <4>2, <4>3
    <3>11. ~ misled' => OnWalk(p, d, s, c, l, w + 1)
      <4> SUFFICES ASSUME ~ misled, ~ LeftoverSlash PROVE OnWalk(p, d, s, c, l, w + 1)
        BY <3>1
      <4>1. OnWalk(p, d, s, b, q, w)
        BY <1>11
      <4>2. q <= z
        <5>1. \A j \in 0 .. q - 1 : b[j] # NUL
          BY <4>1 DEF OnWalk
        <5> QED BY <5>1, <3>8, <1>0
      <4>3. \A j \in l + 1 .. q - 1 : b[j] # Slash
        <5>1. \A j \in l + 1 .. q - 1 : j \in l + 1 .. z - 1
          BY <4>2, <1>0
        <5> QED BY <5>1, <3>8
      <4>4. p.names[w + 1] = DotDot
        BY <1>10, <2>0
      <4>5. l = 0 \/ l < q
        <5>1. l < TextEnd
          <6>1. TextEnd \in Int
            BY <1>6, <1>0 DEF TextEnd
          <6>2. l \in 0 .. z - 1
            BY <3>3, <3>5, <3>6
          <6>3. l \notin TextEnd .. z - 1
            BY <3>3, <3>5, <3>6 DEF LeftoverSlash
          <6> QED BY <6>1, <6>2, <6>3, <1>0
        <5> QED BY <5>1, <1>6, <1>0 DEF TextEnd
      <4> QED BY ONLY p \in Path, d \in PathText, b \in [0 .. PATH_MAX - 1 -> Bytes],
                      q \in 0 .. PATH_MAX, w \in 0 .. Len(p.names) - 1,
                      l \in 0 .. PATH_MAX - 1, <3>8, <3>10, <4>1, <4>3, <4>4, <4>5, UpKeeps
    <3> QED BY <3>1, <3>6, <3>7, <3>11, <1>12, <1>13
  <2>2. CASE ~ Terminated
    <3>1. Overrun
      BY <1>15, <2>2 DEF Up
    <3>2. ~ misled => LongestLen >= PATH_MAX \/ stale[PATH_MAX - 1] # NUL
      <4> SUFFICES ASSUME ~ misled, stale[PATH_MAX - 1] = NUL
                   PROVE  LongestLen >= PATH_MAX
        OBVIOUS
      <4>1. b[PATH_MAX - 1] # NUL
        <5>1. PATH_MAX - 1 \in 0 .. PATH_MAX - 1
          BY <1>0
        <5> QED BY <5>1, <2>2, <1>5 DEF Terminated
      <4>2. ~ (LenUpTo(p, d, Len(p.names)) < PATH_MAX)
        BY <4>1, <1>4, <1>11 DEF OnWalk
      <4>3. LenUpTo(p, d, Len(p.names)) \in Nat
        <5>1. Len(p.names) \in 0 .. Len(p.names)
          BY <1>7
        <5> QED BY <5>1, LenGrows
      <4> QED BY <4>2, <4>3, <1>0, <1>2, <1>3, LongestIs
    <3> QED BY <3>1, <3>2, <1>1, Overruns
  <2> QED BY <2>1, <2>2
<1>16. CASE AddName(name)
  <2>0. name \notin {<<>>, Dot, DotDot}
    BY <1>16 DEF AddName
  <2> DEFINE text == <<Slash>> \o name
  <2>1. Len(name) \in Nat /\ Len(text) = 1 + Len(name) /\ text[1] = Slash
        /\ \A j \in 1 .. Len(name) : text[j + 1] = name[j]
    <3>1. name \in Seq(Chars \cup {Slash}) /\ <<Slash>> \in Seq(Chars \cup {Slash})
          /\ Len(<<Slash>>) = 1 /\ <<Slash>>[1] = Slash
      BY <1>10
    <3>2. Len(name) \in Nat
      BY <3>1
    <3>3. Len(text) = 1 + Len(name)
      BY <3>1
    <3>4. text[1] = Slash
      BY <3>1
    <3>5. \A j \in 1 .. Len(name) : text[j + 1] = name[j]
      BY <3>1, <3>2
    <3> QED BY <3>2, <3>3, <3>4, <3>5
  <2>2. CASE Fits(rp2, text)
    <3>1. /\ real' = Written(rp2, text) /\ rp2' = rp2 + 1 + Len(name)
          /\ walked' = walked + 1 /\ UNCHANGED <<path, cwd, stale, resolve, misled>>
      BY <1>16, <2>2 DEF AddName
    <3> HIDE DEF text
    <3>2. PICK c : c = real'
      OBVIOUS
    <3>3. PICK k \in Nat : k = Len(name)
      BY <2>1
    <3>4. q + 1 + Len(name) <= PATH_MAX
      BY <2>1, <2>2, <3>3, <1>0, <1>6 DEF Fits
    <3>5. \A j \in 0 .. PATH_MAX - 1 :
            c[j] = IF j = q THEN Slash
                   ELSE IF j \in q + 1 .. q + Len(name) THEN name[j - q] ELSE b[j]
      <4> TAKE j \in 0 .. PATH_MAX - 1
      <4>1. c[j] = IF j \in q .. q + (1 + k) - 1 THEN text[j - q + 1] ELSE b[j]
        BY <2>1, <3>1, <3>2, <3>3, <1>5, <1>6 DEF Written
      <4>2. CASE j = q
        <5>1. j \in q .. q + (1 + k) - 1 /\ j - q + 1 = 1
          BY <4>2
        <5> QED BY <4>1, <4>2, <5>1, <2>1
      <4>3. CASE j \in q + 1 .. q + k
        <5>1. j \in q .. q + (1 + k) - 1 /\ j # q /\ j - q \in 1 .. k
          BY <4>3
        <5> QED BY <4>1, <4>3, <5>1, <2>1, <3>3
      <4>4. CASE j # q /\ j \notin q + 1 .. q + k
        <5>1. j \notin q .. q + (1 + k) - 1
          BY <4>4
        <5> QED BY <4>1, <4>4, <5>1, <3>3
      <4> QED BY <4>2, <4>3, <4>4
    <3>6. c[q] = Slash
      <4>1. q \in 0 .. PATH_MAX - 1
        BY <3>3, <3>4, <1>0
      <4> QED BY <4>1, <3>5
    <3>7. ~ misled => OnWalk(p, d, s, c, q + 1 + Len(name), w + 1)
      <4> SUFFICES ASSUME ~ misled PROVE OnWalk(p, d, s, c, q + 1 + Len(name), w + 1)
        OBVIOUS
      <4>1. OnWalk(p, d, s, b, q, w)
        BY <1>11
      <4> QED BY ONLY p \in Path, d \in PathText, b \in [0 .. PATH_MAX - 1 -> Bytes],
                      q \in 0 .. PATH_MAX, w \in 0 .. Len(p.names) - 1,
                      <1>10, <2>0, <3>4, <3>5, <3>6, <4>1, AddKeeps
    <3>8. rp2' = q + 1 + Len(name)
      BY <3>1, <1>6
    <3> QED BY <3>1, <3>2, <3>7, <3>8, <1>12, <1>13
  <2>3. CASE ~ Fits(rp2, text)
    <3>1. Overrun
      BY <1>16, <2>3 DEF AddName
    <3>2. ~ misled => LongestLen >= PATH_MAX
      <4> SUFFICES ASSUME ~ misled PROVE LongestLen >= PATH_MAX
        OBVIOUS
      <4>0. PICK k \in Nat : k = Len(name)
        BY <2>1
      <4>1. ~ (q + (1 + k) <= PATH_MAX)
        BY <2>1, <2>3, <4>0, <1>6 DEF Fits
      <4>2. q <= LenUpTo(p, d, w)
        BY <1>11 DEF OnWalk
      <4>3. LenUpTo(p, d, w + 1) = LenUpTo(p, d, w) + 1 + k
        BY <4>0, <1>10, LenGrows
      <4>4. /\ w \in 0 .. Len(p.names) /\ w + 1 \in 0 .. Len(p.names)
            /\ Len(p.names) \in 0 .. Len(p.names)
        BY <1>7
      <4>5. /\ LenUpTo(p, d, w) \in Nat /\ LenUpTo(p, d, w + 1) \in Nat
            /\ LenUpTo(p, d, Len(p.names)) \in Nat
            /\ LenUpTo(p, d, w + 1) <= LenUpTo(p, d, Len(p.names))
        BY <4>4, LenGrows
      <4>6. LenUpTo(p, d, Len(p.names)) >= PATH_MAX
        BY <4>1, <4>2, <4>3, <4>5, <1>0
      <4> QED BY <4>6, <1>2, <1>3, LongestIs
    <3> QED BY <3>1, <3>2, <1>1, Overruns
  <2> QED BY <2>2, <2>3
<1> QED BY <1>14, <1>15, <1>16

\* The call ends with a string, or the NUL does not fit.
LEMMA EndStep ==
  ASSUME PathInv, PathWalkInv, Terminate
  PROVE  PathWalkInv'
<1>0. PATH_MAX \in Nat /\ PATH_MAX >= 2
  BY PathAssumption
<1>1. resolve = "walk" /\ walked = Len(path.names)
  BY DEF Terminate
<1>2. PICK p \in Path : p = path
  BY DEF PathInv
<1>3. PICK d \in PathText : d = cwd
  BY DEF PathInv, Directory
<1>4. PICK s : s = stale
  OBVIOUS
<1>5. PICK b \in [0 .. PATH_MAX - 1 -> Bytes] : b = real
  BY DEF PathInv
<1>6. PICK q \in 0 .. PATH_MAX : q = rp2
  BY DEF PathInv
<1>7. ~ misled => OnWalk(p, d, s, b, q, Len(p.names))
  BY <1>1, <1>2, <1>3, <1>4, <1>5, <1>6 DEF PathWalkInv, ResolvingInv
<1>8. PICK e \in Nat : e = TextEnd
  BY <1>0, <1>6 DEF TextEnd
<1>9. (q = 0 => e = 1) /\ (q # 0 => e = q)
  BY <1>6, <1>8 DEF TextEnd
<1>10. stale \in [0 .. PATH_MAX - 1 -> Bytes] /\ misled \in BOOLEAN
  BY DEF PathWalkInv, ResolvingInv
<1>11. CASE Fits(TextEnd, <<NUL>>)
  <2>1. /\ real' = Written(TextEnd, <<NUL>>) /\ resolve' = "done"
        /\ UNCHANGED <<path, cwd, stale, walked, misled>>
    BY <1>11 DEF Terminate
  <2>2. PICK c : c = real'
    OBVIOUS
  <2>3. e \in 0 .. PATH_MAX - 1
    BY <1>0, <1>8, <1>11 DEF Fits
  <2>4. \A j \in 0 .. PATH_MAX - 1 : c[j] = IF j = e THEN NUL ELSE b[j]
    <3> TAKE j \in 0 .. PATH_MAX - 1
    <3>1. c[j] = IF j \in e .. e + 1 - 1 THEN <<NUL>>[j - e + 1] ELSE b[j]
      BY <2>1, <2>2, <1>5, <1>8 DEF Written
    <3>2. CASE j = e
      <4>1. j \in e .. e + 1 - 1 /\ j - e + 1 = 1
        BY <3>2
      <4>2. <<NUL>>[1] = NUL
        OBVIOUS
      <4> QED BY <3>1, <3>2, <4>1, <4>2
    <3>3. CASE j # e
      <4>1. j \notin e .. e + 1 - 1
        BY <3>3
      <4> QED BY <3>1, <3>3, <4>1
    <3> QED BY <3>2, <3>3
  <2>5. ResolvingInv'
    BY <2>1, <1>10 DEF ResolvingInv
  <2>6. ASSUME ~ misled PROVE NamesOf(RealText') = Meaning(p, d)
    <3>1. OnWalk(p, d, s, b, q, Len(p.names))
      BY <1>7, <2>6
    <3>0. Ends(p, d, c, e)
      BY ONLY p \in Path, d \in PathText, b \in [0 .. PATH_MAX - 1 -> Bytes],
              q \in 0 .. PATH_MAX, e \in 0 .. PATH_MAX - 1, <3>1, <1>9, <2>4,
              EndKeeps
    <3>2. /\ NamesOf(Begin(c, e)) = Meaning(p, d)
          /\ c[e] = NUL
          /\ \A j \in 0 .. e - 1 : c[j] # NUL
          /\ c[0] = Slash
      BY <3>0 DEF Ends
    <3>3. e = StrLen0'
      <4>1. StrLen0' = CHOOSE j \in 0 .. PATH_MAX - 1 :
                         c[j] = NUL /\ \A h \in 0 .. j - 1 : c[h] # NUL
        BY <2>2 DEF StrLen0
      <4>2. ASSUME NEW j \in 0 .. PATH_MAX - 1, c[j] = NUL, \A h \in 0 .. j - 1 : c[h] # NUL
            PROVE  j = e
        <5>1. ~ (j < e) /\ ~ (e < j)
          <6>1. j < e => j \in 0 .. e - 1
            BY <1>0, <2>3
          <6>2. e < j => e \in 0 .. j - 1
            BY <1>0, <2>3
          <6> QED BY <3>2, <4>2, <6>1, <6>2
        <5> QED BY <1>0, <2>3, <5>1
      <4> QED BY <4>1, <4>2, <3>2, <2>3
    <3>4. RealText' = Begin(c, e)
      BY <2>2, <3>3 DEF RealText, Begin
    <3> QED BY <3>2, <3>4
  <2>7. ResolvedInv'
    BY <2>1, <2>6, <1>2, <1>3 DEF ResolvedInv
  <2> QED BY <2>5, <2>7 DEF PathWalkInv
<1>12. CASE ~ Fits(TextEnd, <<NUL>>)
  <2>1. Overrun
    BY <1>12 DEF Terminate
  <2>2. ~ misled => LongestLen >= PATH_MAX
    <3> SUFFICES ASSUME ~ misled PROVE LongestLen >= PATH_MAX
      OBVIOUS
    <3>1. ~ (e + 1 <= PATH_MAX)
      BY <1>8, <1>12 DEF Fits
    <3>2. q >= PATH_MAX
      BY <3>1, <1>0, <1>9
    <3>3. q <= LenUpTo(p, d, Len(p.names))
      BY <1>7 DEF OnWalk
    <3>4. LenUpTo(p, d, Len(p.names)) \in Nat
      <4>1. Len(p.names) \in 0 .. Len(p.names)
        BY DEF Path
      <4> QED BY <4>1, LenGrows
    <3> QED BY <3>2, <3>3, <3>4, <1>0, <1>2, <1>3, LongestIs
  <2> QED BY <2>1, <2>2, <1>1, Overruns
<1> QED BY <1>11, <1>12

\* Every step of main keeps the walk.
LEMMA PathWalkStep ==
  ASSUME StartupInv, PathWalkInv, [Next]_vars
  PROVE  PathWalkInv'
<1>1. PathInv
  BY DEF StartupInv
<1>2. CASE ParseStep \/ LoadStep \/ StackStep \/ StartHart \/ UNCHANGED vars
  <2>1. UNCHANGED pathVars
    BY <1>2 DEF ParseStep, LoadStep, StackStep, StartHart, vars
  <2> QED BY <2>1, PathRests
<1>3. CASE PathStep
  <2>1. ASSUME ResolvePath(PathOf[vec[prog_argv]]) PROVE PathWalkInv'
    <3>1. /\ resolve = "idle" /\ resolve' = "start"
          /\ UNCHANGED <<stale, real, misled>>
      BY <2>1 DEF ResolvePath
    <3>2. ResolvingInv'
      BY <3>1 DEF PathWalkInv, ResolvingInv
    <3> QED BY <3>1, <3>2, GoesOn
  <2>2. CASE StartAbsolute \/ StartAtCwd
    BY <2>2, <1>1, StartStep
  <2>3. CASE GetcwdFails
    <3>1. resolve' = "error" /\ stale' = stale /\ misled' = misled
      BY <2>3 DEF GetcwdFails
    <3>2. ResolvingInv'
      BY <3>1 DEF PathWalkInv, ResolvingInv
    <3> QED BY <3>1, <3>2, GoesOn
  <2>4. ASSUME NEW name, SkipName(name) \/ Up(name) \/ AddName(name)
        PROVE  PathWalkInv'
    BY <2>4, <1>1, NameStepKeeps
  <2>5. CASE Terminate
    BY <2>5, <1>1, EndStep
  <2> QED BY <1>3, <2>1, <2>2, <2>3, <2>4, <2>5 DEF PathStep, GetRealPath, Walk
<1> QED BY <1>2, <1>3 DEF Next, Step, Started

\* The call finds the buffer as main has left it.
LEMMA PathWalkInit == ASSUME Init PROVE PathWalkInv
<1>1. PICK s \in Scenarios : PathInit(s.dir, s.stale)
  BY DEF Init
<1>2. s \in Scenario
  BY ScenariosAssumption
<1>3. /\ stale \in [0 .. PATH_MAX - 1 -> Bytes] /\ real = stale /\ resolve = "idle"
      /\ misled = FALSE
  BY <1>1, <1>2 DEF PathInit, Scenario
<1> QED BY <1>3 DEF PathWalkInv, ResolvingInv, ResolvedInv

-----------------------------------------------------------------------------
(***************************************************************************)
(* The theorems.                                                           *)
(***************************************************************************)

\* Cursor, buffer index, stages and the memory of the image are what their
\* types say, for every command line, path and file.
THEOREM StartupTypes == Spec => []StartupTypeOK
<1>1. StartupInv => StartupTypeOK
  BY DEF StartupInv, StartupTypeOK, CmdInv, IsVector, PathInv, ImgInv, TabInv, CmdTypeOK,
         PathTypeOK, ImgTypeOK, TabTypeOK
<1> QED BY <1>1, StartupInvariant, PTL

\* create_elf_tables writes inside the stack or faults in the guard, whatever is
\* to be written. A size that overflows with the guard leaves no stack: then it
\* faults before it has written anything, or, when the sum wraps to no more than
\* a pointer, writes all below the mapping.
THEOREM WritesInsideStack == Spec => []StackInside
<1>1. StartupInv => StackInside
  <2> SUFFICES ASSUME TabInv PROVE StackInside
    BY DEF StartupInv
  <2>1. stack_size + Guard \in Int /\ LongMod \in Int
    BY StackAssumption DEF TabInv
  <2>2. ~ (stack_size + Guard < LongMod) => LongMod <= stack_size + Guard
    BY <2>1
  <2> QED BY <2>2 DEF TabInv, Placed, Wrapped, StackInside
<1> QED BY <1>1, StartupInvariant, PTL

\* The pointers never outgrow the array malloc'ed for them: their count is
\* bound to that of the strings still to be written.
THEOREM PointersFit == Spec => []PtrsFit
<1>1. StartupInv => PtrsFit
  <2> SUFFICES ASSUME TabInv, tables \notin {"idle", "failed"}
               PROVE  Len(ptrs) <= PtrsCapacity
    BY DEF StartupInv, PtrsFit
  <2>1. left \in Nat /\ Len(envS) \in Nat /\ Len(argvS) \in Nat
    BY DEF TabInv
  <2>2. CASE tables = "env"
    BY <2>1, <2>2 DEF TabInv, Counted, PtrsCapacity
  <2>3. CASE tables = "argv"
    BY <2>1, <2>3 DEF TabInv, Counted, PtrsCapacity
  <2>4. CASE tables \in {"ptrs", "done", "killed"}
    BY <2>1, <2>4 DEF TabInv, Counted, PtrsCapacity
  <2> QED BY <2>2, <2>3, <2>4 DEF TabInv, Writing
<1> QED BY <1>1, StartupInvariant, PTL

\* The content of the image follows its program headers at every stage.
THEOREM ContentInvariant == Spec => []ContentInv
<1>1. ImgInv /\ ContentInv /\ [Next]_vars => ContentInv'
  <2> SUFFICES ASSUME ImgInv, ContentInv, [Next]_vars PROVE ContentInv'
    OBVIOUS
  <2>1. CASE LoadStep
    BY <2>1, LoadContent DEF LoadStep
  <2>2. CASE UNCHANGED imgVars
    <3>1. UNCHANGED <<image, load, nseg, byte, prot, bounds>>
      BY <2>2 DEF imgVars
    <3>2. /\ Phdrs' = Phdrs /\ Loads' = Loads /\ loaddr' = loaddr /\ hiaddr' = hiaddr
          /\ Sized(image)' = Sized(image) /\ Whole(image)' = Whole(image)
      BY <3>1 DEF Phdrs, Loads, loaddr, hiaddr
    <3>3. RangeInv' = RangeInv /\ HeapInv' = HeapInv /\ BoundsInv' = BoundsInv
      BY <3>1, <3>2 DEF RangeInv, HeapInv, BoundsInv, HeapBytes, HeapFrom
    <3>4. SegmentsInv' = SegmentsInv
      BY <3>1, <3>2 DEF SegmentsInv, KeptSoFar, SegmentByte
    <3> QED BY <3>1, <3>2, <3>3, <3>4 DEF ContentInv
  <2>3. [Next]_vars => LoadStep \/ UNCHANGED imgVars
    BY DEF Next, Step, Started, ParseStep, PathStep, StackStep, StartHart, vars
  <2> QED BY <2>1, <2>2, <2>3
<1>2. Init => ContentInv
  BY ContentInit
<1>3. StartupInv => ImgInv
  BY DEF StartupInv
<1> QED BY <1>1, <1>2, <1>3, StartupInvariant, PTL DEF Spec

\* The heap of a loaded program lies behind every byte of its image, wherever
\* the last segment ends in its page: for every file whose segments are no
\* shorter in memory than in the file, which the loader does not check.
THEOREM HeapLiesBehind == Spec => [](Sized(image) => HeapBehindImage)
<1>1. ASSUME ImgInv, ContentInv, Sized(image) PROVE HeapBehindImage
  <2> SUFFICES ASSUME load = "done"
               PROVE  /\ bounds.end_data <= bounds.brk /\ bounds.end_code <= bounds.end_data
                      /\ \A j \in Loads : MemEnd(Phdrs[j]) <= bounds.brk
                      /\ \A a \in AlignUp(bounds.brk) .. bounds.brk + HeapReserve - 1 :
                           byte[a] = Zero /\ prot[a] = {"R", "W"}
    BY DEF HeapBehindImage
  <2>1. /\ nseg = Len(Phdrs) /\ RangeInv /\ HeapInv /\ BoundsInv /\ Loads # {}
        /\ image \in Images
    BY <1>1 DEF ContentInv, RangeInv, ImgInv
  <2>2. HeapReserve \in Nat /\ PageSize \in Nat \ {0}
    BY ImagesAssumption
  <2>3. \A j \in Loads : /\ j <= nseg /\ MemEnd(Phdrs[j]) \in Nat
    BY <2>1, EntryTyped DEF Loads
  <2>4. /\ hiaddr \in Int
        /\ \A j \in Loads : MemEnd(Phdrs[j]) + HeapReserve <= hiaddr + 1
    BY <2>1, RangeHolds
  <2>5. bounds.brk \in Nat /\ bounds.brk + HeapReserve <= hiaddr + 1
    <3>1. bounds.brk \in Nat /\ (bounds.brk = 0 \/ \E j \in Loads : bounds.brk = MemEnd(Phdrs[j]))
      BY <2>1 DEF BoundsInv
    <3>2. PICK l \in Loads : TRUE
      BY <2>1
    <3>3. MemEnd(Phdrs[l]) \in Nat /\ MemEnd(Phdrs[l]) + HeapReserve <= hiaddr + 1
      BY <2>3, <2>4
    <3> QED BY <3>1, <3>3, <2>2, <2>4
  <2>6. /\ AlignUp(hiaddr + 1) \in Int /\ hiaddr + 1 <= AlignUp(hiaddr + 1)
        /\ AlignUp(bounds.brk) \in Int
    <3>1. hiaddr + 1 \in Int
      BY <2>4
    <3>2. bounds.brk \in Int
      BY <2>5
    <3>3. \A a \in Int : AlignUp(a) \in Int /\ a <= AlignUp(a)
      BY <2>2, Rounding
    <3> QED BY ONLY <3>1, <3>2, <3>3, Zenon
  <2>7. \A a \in AlignUp(bounds.brk) .. bounds.brk + HeapReserve - 1 : a \in HeapBytes
    <3> TAKE a \in AlignUp(bounds.brk) .. bounds.brk + HeapReserve - 1
    <3>1. a \in Int /\ AlignUp(bounds.brk) <= a /\ a <= bounds.brk + HeapReserve - 1
      BY <2>6
    <3>2. a <= AlignUp(hiaddr + 1) - 1
      <4>1. a <= hiaddr
        BY ONLY <3>1, <2>2, <2>4, <2>5
      <4> QED BY ONLY <3>1, <4>1, <2>4, <2>6
    <3> QED BY <3>1, <3>2, <2>6 DEF HeapBytes, HeapFrom
  <2> QED BY <2>1, <2>3, <2>7 DEF BoundsInv, HeapInv
<1>2. StartupInv => ImgInv
  BY DEF StartupInv
<1> QED BY <1>1, <1>2, StartupInvariant, ContentInvariant, PTL

\* A loaded program holds its file's bytes and zero behind them, page for
\* page, for every file that holds all that its headers speak of.
THEOREM ImageHoldsTheFile == Spec => [](Sized(image) /\ Whole(image) => ImageIsTheFile)
<1>1. ASSUME ImgInv, ContentInv, Sized(image), Whole(image) PROVE ImageIsTheFile
  <2> SUFFICES ASSUME load = "done", NEW j \in Loads,
                      NEW a \in Start(Phdrs[j]) .. MemEnd(Phdrs[j]) - 1, Kept(j, a)
               PROVE  SegmentByte(Phdrs[j], a)
    BY DEF ImageIsTheFile, SegmentByte
  <2>1. nseg = Len(Phdrs) /\ SegmentsInv
    BY <1>1 DEF ContentInv
  <2>2. j <= nseg
    BY <2>1 DEF Loads
  <2>3. KeptSoFar(j, a)
    BY DEF Kept, KeptSoFar
  <2> QED BY <2>1, <2>2, <2>3 DEF SegmentsInv
<1>2. StartupInv => ImgInv
  BY DEF StartupInv
<1> QED BY <1>1, <1>2, StartupInvariant, ContentInvariant, PTL

\* What the guest is started with was found and asked for on the command line.
THEOREM HandedOn == Spec => [](OptionsInv /\ HandedInv)
<1>1. Init => OptionsInv
  BY OptionsInit
<1>2. Init => HandedInv
  BY DEF Init, TabInit, HandedInv
<1> QED BY <1>1, <1>2, HandedStep, OptionsStep, StartupInvariant, PTL DEF Spec

\* The guest's stack has the size the last -s among the options asks for,
\* whatever stands behind the program.
THEOREM StackIsAsAsked == Spec => []StackAsAsked
<1>1. ASSUME StartupInv, OptionsInv, HandedInv PROVE StackAsAsked
  <2> SUFFICES ASSUME Running
               PROVE  LET program == CHOOSE j \in 1 .. Len(Args) : IsProgram(j)
                          sizes == {j \in 2 .. program - 1 :
                                      Args[j - 1] \in {"-s", "--stack"}
                                      /\ AreOptions(Args)[j - 2]}
                      IN  stack_size = IF sizes = {} THEN DefaultStackSize
                                       ELSE Strtoul[Args[Greatest(sizes)]]
    BY DEF StackAsAsked
  <2>1. /\ parse = "done" /\ stack_size = guest_stack_size
    BY <1>1 DEF HandedInv, Running
  <2>2. /\ prog_argv \in 1 .. Len(Args) /\ IsProgram(prog_argv)
        /\ guest_stack_size = Asked(prog_argv - 1)
    BY <1>1, <2>1 DEF OptionsInv
  <2>3. Args \in Seq(Strings)
    <3>1. PICK m : IsVector(m)
      BY <1>1 DEF StartupInv, CmdInv
    <3> QED BY <3>1, ArgsAre
  <2>4. (CHOOSE j \in 1 .. Len(Args) : IsProgram(j)) = prog_argv
    <3>1. \A j \in 1 .. Len(Args) : IsProgram(j) => j = prog_argv
      BY <2>2, <2>3, OneProgram
    <3> QED BY <2>2, <3>1
  <2>5. SizesUpTo(prog_argv - 1) = {j \in 2 .. prog_argv - 1 :
                                      Args[j - 1] \in {"-s", "--stack"}
                                      /\ AreOptions(Args)[j - 2]}
    BY DEF SizesUpTo
  <2> QED BY <2>1, <2>2, <2>4, <2>5 DEF Asked
<1> QED BY <1>1, StartupInvariant, HandedOn, PTL

\* create_elf_tables has written what it has come past, to the end.
THEOREM TablesHold == Spec => []TableInv
<1>1. Init => TableInv
  BY DEF Init, TabInit, TableInv, ArrayInv
<1> QED BY <1>1, TableStep, StartupInvariant, PTL DEF Spec

\* From main's arguments to the guest's: argc, argv, envp and AT_NULL at the
\* stack pointer, and the entry for the program counter.
THEOREM GuestIsTold == Spec => []GuestSeesCommandLine
<1>1. ASSUME StartupInv, OptionsInv, HandedInv, TableInv PROVE GuestSeesCommandLine
  <2> SUFFICES ASSUME Running, stack_size + Guard < LongMod
               PROVE  \E j \in 1 .. Len(Args) :
                        /\ IsProgram(j)
                        /\ LET strings == <<Filename>> \o Strs(SubSeq(Args, j + 1, Len(Args)))
                               argc == Len(strings)
                               argv == hart.sp + Word
                               envp == argv + (argc + 1) * Word
                               auxv == envp + (Len(Env) + 1) * Word
                           IN  /\ WordIs(hart.sp, argc)
                               /\ ArrayIs(argv, strings)
                               /\ ArrayIs(envp, Strs(Env))
                               /\ WordIs(auxv, 0) /\ WordIs(auxv + Word, 0)
                        /\ hart.pc = image.entry
    BY DEF GuestSeesCommandLine
  <2>1. /\ parse = "done" /\ tables = "done" /\ hart = [pc |-> image.entry, sp |-> top]
        /\ argvS = BprmArgv /\ envS = BprmEnvp
    BY <1>1 DEF HandedInv, Running
  <2>2. /\ prog_argv \in 1 .. Len(Args) /\ IsProgram(prog_argv)
        /\ prog_envp = Len(Args) + 2
    BY <1>1, <2>1 DEF OptionsInv
  <2>3. PICK m : IsVector(m)
    BY <1>1 DEF StartupInv, CmdInv
  <2>4. /\ argvS = <<Filename>> \o Strs(SubSeq(Args, prog_argv + 1, Len(Args)))
        /\ envS = Strs(Env)
    BY <2>1, <2>2, <2>3, BprmIs
  <2>5. Len(envS) = Len(Env)
    <3>1. Len(Strs(Env)) \in Nat
      BY <1>1, <2>4 DEF StartupInv, TabInv
    <3>2. Strs(Env) = [h \in 1 .. Len(Env) |-> String(Env[h])]
      BY DEF Strs
    <3>3. Env \in Seq(Strings \cup {NULL})
      <4>1. /\ vec \in Seq(Strings \cup {NULL}) /\ Len(vec) \in Nat
            /\ Len(Args) \in Nat /\ Len(Args) + 2 <= Len(vec)
        <5>1. vec \in Seq(Strings \cup {NULL})
          BY <2>3 DEF IsVector
        <5>2. Len(Args) = m - 1 /\ m \in Nat /\ m >= 1 /\ m < Len(vec) /\ Len(vec) \in Nat
          BY <2>3, ArgsAre
        <5> QED BY <5>1, <5>2
      <4>2. /\ Len(Args) + 2 \in Int /\ Len(vec) - 1 \in Int
            /\ \A h \in Len(Args) + 2 .. Len(vec) - 1 : vec[h] \in Strings \cup {NULL}
        BY <4>1
      <4> QED BY <4>2, SubSeqProperties DEF Env
    <3> QED BY <3>2, <3>3, <2>4
  <2>6. ArrayInv
    BY <1>1 DEF TableInv, Sane
  <2>7. LET argv == top + Word
            envp == argv + (Len(argvS) + 1) * Word
            auxv == envp + (Len(envS) + 1) * Word
        IN  /\ WordIs(top, Len(argvS))
            /\ ArrayIs(argv, argvS)
            /\ ArrayIs(envp, envS)
            /\ WordIs(auxv, 0) /\ WordIs(auxv + Word, 0)
    BY <1>1, <2>1, <2>6, TablesAt
  <2>8. hart.sp = top /\ hart.pc = image.entry
    BY <2>1
  <2> QED BY <2>2, <2>4, <2>5, <2>7, <2>8
<1> QED BY <1>1, StartupInvariant, HandedOn, TablesHold, PTL

\* The call keeps the walk.
THEOREM WalkInvariant == Spec => []PathWalkInv
<1> QED BY PathWalkInit, PathWalkStep, StartupInvariant, PTL DEF Spec

\* get_real_path leaves the path main was given, resolved in the working
\* directory, whatever it consists of and whatever the buffer held, unless a
\* leftover '/' misled it; and it leaves the buffer only where the text is longer
\* than PATH_MAX, nothing ends the leftover bytes, or such a '/' misled it.
THEOREM PathResolved == Spec => []PathIsResolved
<1>1. ASSUME PathInv, resolve = "done" PROVE Len(RealText) > 0 /\ RealText[1] = Slash
  <2>1. Terminated /\ real[0] = Slash /\ PATH_MAX \in Nat
    BY <1>1, PathAssumption DEF PathInv
  <2>2. StrLen0 \in Nat /\ real[StrLen0] = NUL
    BY <2>1, StringInBuffer
  <2>3. StrLen0 # 0
    BY <2>1, <2>2 DEF NUL, Slash
  <2>4. PICK n \in Nat : n = StrLen0 /\ n # 0
    BY <2>2, <2>3
  <2>5. RealText = [j \in 1 .. n |-> real[j - 1]]
    BY <2>4 DEF RealText
  <2>6. 1 \in 1 .. n /\ 1 - 1 = 0
    BY <2>4
  <2> QED BY <2>1, <2>4, <2>5, <2>6
<1>2. PathInv /\ PathWalkInv => PathIsResolved
  BY <1>1 DEF PathWalkInv, ResolvedInv, PathIsResolved
<1>3. StartupInv => PathInv
  BY DEF StartupInv
<1> QED BY <1>2, <1>3, WalkInvariant, StartupInvariant, PTL

\* A '/' that the buffer held before, found by the search for the last one, always
\* leaves other names than the path means: for every path, directory and content
\* of the buffer.
THEOREM LeftoversMislead == Spec => LeftoverMisleads
<1>1. ASSUME PathInv, PathWalkInv, [Next]_vars, ~ misled, misled'
      PROVE  NamesOf(TextSoFar') # Meanings(path, cwd)[walked']
  <2>1. PICK name : Up(name) /\ Terminated
    <3>1. \/ \E name : Up(name) /\ Terminated
          \/ misled' = misled
      BY <1>1 DEF Next, Step, Started, ParseStep, PathStep, LoadStep, StackStep, StartHart,
                  vars, pathVars, ResolvePath, GetRealPath, StartAbsolute, StartAtCwd,
                  GetcwdFails, Walk, SkipName, Up, AddName, Terminate, Overrun
    <3> QED BY <3>1, <1>1
  <2>2. /\ resolve = "walk" /\ walked < Len(path.names) /\ path.names[walked + 1] = DotDot
        /\ rp2' = LastSlash /\ real' = Written(UpFrom(LastSlash), <<NUL>>)
        /\ walked' = walked + 1 /\ LeftoverSlash
    BY <2>1, <1>1 DEF Up, AtName
  <2>3. PATH_MAX \in Nat /\ PATH_MAX >= 2
    BY PathAssumption
  <2>4. /\ path \in Path /\ cwd \in PathText /\ rp2 \in 0 .. PATH_MAX
        /\ real \in [0 .. PATH_MAX - 1 -> Bytes] /\ real[0] = Slash
        /\ walked \in 0 .. Len(path.names) - 1
    <3>1. path \in Path /\ walked \in 0 .. Len(path.names)
      BY <1>1 DEF PathInv
    <3>2. Len(path.names) \in Nat
      BY <3>1 DEF Path
    <3> QED BY <3>1, <3>2, <1>1, <2>2 DEF PathInv, Directory
  <2>5. OnWalk(path, cwd, stale, real, rp2, walked)
    BY <1>1, <2>2 DEF PathWalkInv, ResolvingInv
  <2>6. PICK z \in 0 .. PATH_MAX - 1 :
          z = StrLen0 /\ real[z] = NUL /\ \A h \in 0 .. z - 1 : real[h] # NUL
    BY <2>1, <2>3, StringInBuffer
  <2>7. PICK l \in 0 .. z - 1 : l = LastSlash /\ \A h \in l + 1 .. z - 1 : real[h] # Slash
    BY <2>1, <2>3, <2>4, <2>6, LastSlashIs
  <2>8. TextEnd \in Nat /\ TextEnd <= l
    <3>1. TextEnd \in Nat
      BY <2>3, <2>4 DEF TextEnd
    <3>2. PICK j \in TextEnd .. z - 1 : real[j] = Slash
      BY <2>2, <2>6 DEF LeftoverSlash
    <3>3. j \notin l + 1 .. z - 1
      BY <2>7, <3>2
    <3> QED BY <3>1, <3>3, <2>3, <2>6, <2>7
  <2>9. rp2 > 1 /\ rp2 <= l
    <3>1. ~ (rp2 <= 1)
      <4> SUFFICES ASSUME rp2 <= 1 PROVE FALSE
        OBVIOUS
      <4>1. real[1] = NUL /\ TextEnd = 1
        BY <2>3, <2>4, <2>5 DEF OnWalk, TextEnd
      <4>2. 1 \in 0 .. z - 1
        BY <4>1, <2>3, <2>6, <2>7, <2>8
      <4> QED BY <4>1, <4>2, <2>6
    <3>2. rp2 \in Int /\ TextEnd = rp2
      BY <3>1, <2>3, <2>4 DEF TextEnd
    <3> QED BY <3>1, <3>2, <2>3, <2>8
  <2>10. l \in 0 .. PATH_MAX - 1 /\ \A j \in 0 .. l - 1 : real[j] # NUL
    <3>1. \A j \in 0 .. l - 1 : j \in 0 .. z - 1
      BY <2>3
    <3> QED BY <3>1, <2>3, <2>6
  <2>11. NamesOf(Begin(real, l)) # Meanings(path, cwd)[walked + 1]
    <3>1. PICK p \in Path : p = path
      BY <2>4
    <3>2. PICK b \in [0 .. PATH_MAX - 1 -> Bytes] : b = real
      BY <2>4
    <3>3. PICK d \in PathText : d = cwd
      BY <2>4
    <3>4. PICK q \in 0 .. PATH_MAX : q = rp2
      BY <2>4
    <3>5. PICK w \in 0 .. Len(p.names) - 1 : w = walked
      BY <2>4, <3>1
    <3>6. PICK i \in 0 .. PATH_MAX - 1 : i = l
      BY <2>10
    <3>7. PICK s : s = stale
      OBVIOUS
    <3>8. OnWalk(p, d, s, b, q, w)
      BY <2>5, <3>1, <3>2, <3>3, <3>4, <3>5, <3>7
    <3>9. /\ p.names[w + 1] = DotDot /\ q > 1 /\ q <= i
          /\ \A j \in 0 .. i - 1 : b[j] # NUL
      BY <2>2, <2>9, <2>10, <3>1, <3>2, <3>4, <3>5, <3>6
    <3>10. NamesOf(Begin(b, i)) # Meanings(p, d)[w + 1]
      BY ONLY p \in Path, d \in PathText, b \in [0 .. PATH_MAX - 1 -> Bytes],
              q \in 0 .. PATH_MAX, w \in 0 .. Len(p.names) - 1, i \in 0 .. PATH_MAX - 1,
              <3>8, <3>9, MisledKeepsNames
    <3> QED BY <3>1, <3>2, <3>3, <3>5, <3>6, <3>10
  <2>12. TextSoFar' = Begin(real, l)
    <3>1. TextSoFar' = Begin(real', l)
      BY <2>2, <2>7 DEF TextSoFar, Begin
    <3>2. \A j \in 0 .. l - 1 : real'[j] = real[j]
      <4> TAKE j \in 0 .. l - 1
      <4>1. UpFrom(LastSlash) = l /\ l \in Nat
        BY <2>3, <2>7, <2>9, <2>4 DEF UpFrom
      <4>2. j \in 0 .. PATH_MAX - 1 /\ j \notin l .. l + Len(<<NUL>>) - 1
        BY <2>3, <2>10, <4>1
      <4> QED BY <2>2, <4>1, <4>2 DEF Written
    <3>3. l \in Nat
      BY <2>3, <2>7
    <3>4. PICK c : c = real'
      OBVIOUS
    <3>5. Begin(c, l) = Begin(real, l)
      BY <3>2, <3>3, <3>4, BeginAgrees
    <3> QED BY <3>1, <3>4, <3>5
  <2> QED BY <2>2, <2>11, <2>12
<1>2. PathInv /\ PathWalkInv /\ [Next]_vars =>
        [~ misled /\ misled' => NamesOf(TextSoFar') # Meanings(path, cwd)[walked']]_pathVars
  BY <1>1
<1>3. StartupInv => PathInv
  BY DEF StartupInv
<1> QED BY <1>2, <1>3, WalkInvariant, StartupInvariant, PTL DEF Spec, LeftoverMisleads

=============================================================================
