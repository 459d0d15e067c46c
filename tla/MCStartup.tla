------------------------------- MODULE MCStartup -------------------------------
(***************************************************************************)
(* The instance of Startup for TLC. The scenarios vary one part of the     *)
(* system at a time: many command lines and environments, then the sizes   *)
(* of the stack, then many paths, directories and leftovers in the buffer, *)
(* then many images.                                                       *)
(***************************************************************************)
EXTENDS Startup, FiniteSets

\* Stacks that are too small, that fit, that the host refuses, and that
\* overflow with their guard: to nothing, to less than a pointer, to more.
MCNumbers == [n \in {"0", "3", "40", "70", "90", "200", "236", "240", "245"} |->
                CASE n = "0" -> 0 [] n = "3" -> 3 [] n = "40" -> 40
                  [] n = "70" -> 70 [] n = "90" -> 90
                  [] n = "200" -> 200 [] n = "236" -> 236
                  [] n = "240" -> 240 [] OTHER -> 245]

\* The last is too long for the buffer of the message.
Options == {"-h", "-d", "-B", "-s", "--stack", "-x", "-xx"}
MCDashed == Options

\* Names, with the characters of each.
CharsOf == [n \in {"", ".", "..", "a", "bb"} |->
            CASE n = "" -> <<>> [] n = "." -> <<".">> [] n = ".." -> <<".", ".">>
              [] n = "a" -> <<"a">> [] OTHER -> <<"b", "b">>]

\* The paths of at most three names, as they are split at the slashes.
Names == DOMAIN CharsOf
PathNames == {<<>>} \cup {<<n>> : n \in Names}
               \cup (Names \X Names) \cup (Names \X Names \X Names)

NamesPath(abs, names) ==
  [absolute |-> abs, names |-> [j \in 1 .. Len(names) |-> CharsOf[names[j]]]]

\* A path as a string.
Joined(abs, names) ==
  (IF abs THEN "/" ELSE "") \o
  (IF names = <<>> THEN "" ELSE
     names[1] \o (IF Len(names) > 1 THEN "/" \o names[2] ELSE "")
              \o (IF Len(names) > 2 THEN "/" \o names[3] ELSE ""))

\* A relative path does not start with an empty name.
Splits == {<<TRUE, n>> : n \in PathNames \ {<<"">>}} \cup
          {<<FALSE, n>> : n \in {m \in PathNames : m = <<>> \/ m[1] # ""}}
Paths == {Joined(s[1], s[2]) : s \in Splits}

MCStrings == Options \cup DOMAIN MCNumbers \cup Paths \cup {"e=1"}

MCStrtoul == [s \in MCStrings |-> IF s \in DOMAIN MCNumbers THEN MCNumbers[s] ELSE 0]
MCStrLen == [s \in MCStrings |-> Len(s)]

\* Every string could be the program; one that is no path of these is a name
\* in the working directory.
MCPathOf ==
  LET of == [s \in Paths |->
               LET x == CHOOSE x \in Splits : Joined(x[1], x[2]) = s
               IN  NamesPath(x[1], x[2])]
  IN  [s \in MCStrings |-> IF s \in Paths THEN of[s]
                           ELSE [absolute |-> FALSE, names |-> << <<"a">> >>]]

-----------------------------------------------------------------------------
Seg(t, f, v, o, n, m) ==
  [p_type |-> t, p_flags |-> f, p_vaddr |-> v, p_offset |-> o,
   p_filesz |-> n, p_memsz |-> m]
Img(ok, phdrs) == [valid |-> ok, size |-> 14, entry |-> 5, phdrs |-> phdrs]

Text == Seg("load", {"R", "X"}, 4, 0, 5, 5)
Note == Seg("note", {"R"}, 0, 0, 0, 0)
Plain == Img(TRUE, <<Note, Text>>)
Bad == Img(FALSE, <<Text>>)

\* Data behind the text, in the page it ends in or in a page of its own, with
\* every size of file part and bss around a page, and an address that is not
\* congruent to its offset.
Data ==
  {Seg("load", f, v, o, n, n + b) :
     f \in {{"R", "W"}, {"R"}, {"W"}, {"X"}}, v \in {9, 13, 14}, o \in {5},
     n \in {0, 2, 3}, b \in {0, 1, 2, 7}}

MCImages ==
  {Plain, Bad, Img(TRUE, <<>>), Img(TRUE, <<Note>>),
   Img(TRUE, <<Note, Note, Text, Note>>)} \cup
  {Img(TRUE, <<Text, d>>) : d \in Data}

\* The premises of the theorems about the image, so that the run checks its
\* properties where they are proved.
ASSUME MCImagesAssumption == \A m \in MCImages : Sized(m) /\ Whole(m)

-----------------------------------------------------------------------------
Case(line, env, dir, left_over, file) ==
  [args |-> line, env |-> env, dir |-> dir, stale |-> left_over, image |-> file]

Clean == [j \in 0 .. PATH_MAX - 1 |-> ""]
Home == <<"/", "a">>
MCChars == {".", "a", "b"}

\* Command lines of up to three strings, and longer ones for the stack.
Word1 == {"-h", "-d", "-B", "-s", "-x", "-xx", "70", "a"}
CommandLines ==
  {<<>>} \cup {<<a>> : a \in Word1} \cup (Word1 \X Word1)
  \cup (Word1 \X Word1 \X Word1)
SizedLines ==
  {<<"-s", n, "a", "-s", "0">> : n \in DOMAIN MCNumbers} \cup
  {<<"--stack", n, "-d", "-s", "70", "/a/bb">> : n \in {"0", "90", "240"}}

\* Leftovers: none, no slash and a NUL at the end or none, slashes only, and a
\* slash behind other characters.
Leftovers ==
  {Clean, [j \in DOMAIN Clean |-> "b"],
   [j \in DOMAIN Clean |-> IF j = PATH_MAX - 1 THEN "" ELSE "b"],
   [j \in DOMAIN Clean |-> IF j = PATH_MAX - 1 THEN "" ELSE "/"],
   [j \in DOMAIN Clean |-> IF j = PATH_MAX - 1 THEN ""
                           ELSE IF j = 5 THEN "/" ELSE "b"]}

Dirs == {<<"/">>, Home, <<"/", "b", "b", "/", "a">>}

MCScenarios ==
  {Case(l, e, Home, Clean, Plain) : l \in CommandLines, e \in {<<>>, <<"e=1">>}}
  \cup {Case(l, e, Home, Clean, Plain) :
          l \in SizedLines, e \in {<<>>, <<"e=1">>, <<"e=1", "">>}}
  \cup {Case(<<p>>, <<>>, d, s, Bad) : p \in Paths, d \in Dirs, s \in Leftovers}
  \cup {Case(<<"/a">>, <<>>, Home, Clean, m) : m \in MCImages}

=============================================================================
