------------------------------- MODULE RealPath -------------------------------
(***************************************************************************)
(* get_real_path of util.c, as main calls it: into prog_real_path, a       *)
(* buffer of PATH_MAX bytes on main's stack that nothing has written.      *)
(*                                                                         *)
(* A path is the names between its slashes, a name a sequence of           *)
(* characters; the buffer is kept byte by byte, because the function looks *)
(* for the last '/' of a string it has not terminated yet.                 *)
(***************************************************************************)
EXTENDS Integers, Sequences

CONSTANTS
  PATH_MAX,
  Chars      \* the characters of names

Slash == "/"
NUL == ""
Bytes == Chars \cup {Slash, NUL}

ASSUME PathAssumption ==
  /\ PATH_MAX \in Nat /\ PATH_MAX >= 2
  /\ Slash \notin Chars /\ NUL \notin Chars

\* A path is absolute or not, and split at its slashes; what getcwd returns is
\* a text: the root, or names with one slash before each.
Path == [absolute : BOOLEAN, names : Seq(Seq(Chars))]
PathText == Seq(Chars \cup {Slash})
Directory ==
  {dir \in PathText :
     /\ Len(dir) > 0 /\ dir[1] = Slash
     /\ Len(dir) > 1 => dir[Len(dir)] # Slash
     /\ \A j \in 1 .. Len(dir) - 1 : dir[j] = Slash => dir[j + 1] # Slash}

Dot == <<".">>
DotDot == <<".", ".">>

VARIABLES
  path,
  cwd,      \* the working directory
  stale,    \* what prog_real_path holds before the call
  resolve,  \* how far get_real_path is, or how it ended
  real,     \* prog_real_path
  rp2,      \* where the next name goes
  walked,   \* how many names of the path are done
  misled    \* history: a ".." was resolved by a '/' nothing has written

pathVars == <<path, cwd, stale, resolve, real, rp2, walked, misled>>

Resolving == {"idle", "start", "walk", "done", "error", "overrun"}

\* The text of the first n names of a path.
TextUpTo(names) ==
  LET text[n \in 0 .. Len(names)] ==
        IF n = 0 THEN <<>> ELSE text[n - 1] \o <<Slash>> \o names[n]
  IN  text

\* The names in the first n characters of a text: a character starts a name
\* behind a slash, and else continues one, so that no name is empty.
NameStep(text, n, names) ==
  IF text[n] = Slash THEN names
  ELSE IF n = 1 \/ text[n - 1] = Slash THEN Append(names, <<text[n]>>)
  ELSE [names EXCEPT ![Len(names)] = Append(@, text[n])]

NamesUpTo(text) ==
  LET names[n \in 0 .. Len(text)] ==
        IF n = 0 THEN <<>> ELSE NameStep(text, n, names[n - 1])
  IN  names
NamesOf(text) == NamesUpTo(text)[Len(text)]

\* The buffer with a text at index i, which fits or not.
Fits(i, text) == i + Len(text) <= PATH_MAX
Written(i, text) ==
  [j \in 0 .. PATH_MAX - 1 |->
     IF j \in i .. i + Len(text) - 1 THEN text[j - i + 1] ELSE real[j]]

\* The string at the start of the buffer, once something terminates it.
Terminated == \E j \in 0 .. PATH_MAX - 1 : real[j] = NUL
StrLen0 ==
  CHOOSE j \in 0 .. PATH_MAX - 1 : real[j] = NUL /\ \A h \in 0 .. j - 1 : real[h] # NUL
RealText == [j \in 1 .. StrLen0 |-> real[j - 1]]

\* The path "/" keeps its slash.
TextEnd == IF rp2 = 0 THEN 1 ELSE rp2

\* Mutant of LastSlash: the first.
LastSlashFirst == CHOOSE j \in 0 .. StrLen0 - 1 : real[j] = Slash

\* strrchr(rp1, '/'): up to the first NUL, not up to rp2.
LastSlash ==
  CHOOSE j \in 0 .. StrLen0 - 1 :
    real[j] = Slash /\ \A h \in j + 1 .. StrLen0 - 1 : real[h] # Slash

\* The string has a '/' behind the text written so far.
LeftoverSlash == \E j \in TextEnd .. StrLen0 - 1 : real[j] = Slash

PathInit(dir, garbage) ==
  /\ path = [absolute |-> TRUE, names |-> <<>>]
  /\ cwd = dir
  /\ stale = garbage
  /\ resolve = "idle"
  /\ real = garbage
  /\ rp2 = 0
  /\ walked = 0
  /\ misled = FALSE

\* main calls get_real_path.
ResolvePath(p) ==
  /\ resolve = "idle"
  /\ path' = p
  /\ resolve' = "start"
  /\ UNCHANGED <<cwd, stale, real, rp2, walked, misled>>

\* Undefined behaviour: the buffer is read or written past its end.
Overrun ==
  /\ resolve' = "overrun"
  /\ UNCHANGED <<path, cwd, stale, real, rp2, walked, misled>>

StartAbsolute ==
  /\ resolve = "start"
  /\ path.absolute
  /\ real' = Written(0, <<Slash, NUL>>)
  /\ rp2' = 0
  /\ resolve' = "walk"
  /\ UNCHANGED <<path, cwd, stale, walked, misled>>

StartAtCwd ==
  /\ resolve = "start"
  /\ ~path.absolute
  /\ Fits(0, Append(cwd, NUL))
  /\ real' = Written(0, Append(cwd, NUL))
  /\ rp2' = Len(cwd)
  /\ resolve' = "walk"
  /\ UNCHANGED <<path, cwd, stale, walked, misled>>

\* getcwd fails: the name does not fit, the directory is gone.
GetcwdFails ==
  /\ resolve = "start"
  /\ ~path.absolute
  /\ resolve' = "error"
  /\ UNCHANGED <<path, cwd, stale, real, rp2, walked, misled>>

-----------------------------------------------------------------------------
AtName(name) ==
  /\ resolve = "walk"
  /\ walked < Len(path.names)
  /\ name = path.names[walked + 1]

SkipName(name) ==
  /\ AtName(name)
  /\ name \in {<<>>, Dot}
  /\ walked' = walked + 1
  /\ UNCHANGED <<path, cwd, stale, resolve, real, rp2, misled>>

\* Mutant of UpFrom: the root loses its slash.
UpFromRootToo(i) == i

\* The byte that ends the string when its last slash is at i.
UpFrom(i) == IF i # 0 THEN i ELSE 1

Up(name) ==
  /\ AtName(name)
  /\ name = DotDot
  /\ IF Terminated
     THEN /\ rp2' = LastSlash
          /\ real' = Written(UpFrom(LastSlash), <<NUL>>)
          /\ walked' = walked + 1
          /\ misled' = (misled \/ LeftoverSlash)
          /\ UNCHANGED <<path, cwd, stale, resolve>>
     ELSE Overrun

AddName(name) ==
  /\ AtName(name)
  /\ name \notin {<<>>, Dot, DotDot}
  /\ IF Fits(rp2, <<Slash>> \o name)
     THEN /\ real' = Written(rp2, <<Slash>> \o name)
          /\ rp2' = rp2 + 1 + Len(name)
          /\ walked' = walked + 1
          /\ UNCHANGED <<path, cwd, stale, resolve, misled>>
     ELSE Overrun

Terminate ==
  /\ resolve = "walk"
  /\ walked = Len(path.names)
  /\ IF Fits(TextEnd, <<NUL>>)
     THEN /\ real' = Written(TextEnd, <<NUL>>)
          /\ rp2' = TextEnd
          /\ resolve' = "done"
          /\ UNCHANGED <<path, cwd, stale, walked, misled>>
     ELSE Overrun

Walk == \E name \in {path.names[j] : j \in 1 .. Len(path.names)} :
          SkipName(name) \/ Up(name) \/ AddName(name)

GetRealPath ==
  \/ StartAbsolute \/ StartAtCwd \/ GetcwdFails
  \/ Walk \/ Terminate

PathTypeOK ==
  /\ resolve \in Resolving
  /\ real \in [0 .. PATH_MAX - 1 -> Bytes]
  /\ rp2 \in 0 .. PATH_MAX
  /\ walked \in 0 .. Len(path.names)

-----------------------------------------------------------------------------
\* The names that the first n names of a path mean in a directory.
MeaningStep(names, name) ==
  IF name \in {<<>>, Dot} THEN names
  ELSE IF name = DotDot THEN SubSeq(names, 1, Len(names) - 1)
  ELSE Append(names, name)

Meanings(p, dir) ==
  LET names[n \in 0 .. Len(p.names)] ==
        IF n = 0 THEN IF p.absolute THEN <<>> ELSE NamesOf(dir)
        ELSE MeaningStep(names[n - 1], p.names[n])
  IN  names
Meaning(p, dir) == Meanings(p, dir)[Len(p.names)]

\* How long the text would get that the call writes if it never went up.
LongestLen ==
  (IF path.absolute THEN 0 ELSE Len(cwd)) + Len(TextUpTo(path.names)[Len(path.names)])

(***************************************************************************)
(* The program is opened, and told of itself in argv[0], by an absolute    *)
(* path with the same names as the one asked for, in the working           *)
(* directory, with "." and ".." resolved, whatever the buffer held, unless *)
(* a ".." on the way found a '/' left over in it. The buffer is overrun    *)
(* only when the path with the directory does not fit it, or when what was *)
(* left over goes on to its last byte, or after such a '/'.                *)
(***************************************************************************)
PathIsResolved ==
  /\ resolve = "done" => Len(RealText) > 0 /\ RealText[1] = Slash
  /\ resolve = "done" /\ ~misled => NamesOf(RealText) = Meaning(path, cwd)
  /\ resolve = "overrun" =>
       LongestLen >= PATH_MAX \/ stale[PATH_MAX - 1] # NUL \/ misled

\* What get_real_path has written.
TextSoFar == [j \in 1 .. rp2 |-> real[j - 1]]

(***************************************************************************)
(* The search of util.c:194 goes wrong whenever it finds a '/' behind what *)
(* was written: the text it leaves for ".." never has the names that the   *)
(* path means up to there. No such '/' is harmless, and PathIsResolved     *)
(* excepts none too many.                                                  *)
(***************************************************************************)
LeftoverMisleads ==
  [][~misled /\ misled' => NamesOf(TextSoFar') # Meanings(path, cwd)[walked']]_pathVars

=============================================================================
