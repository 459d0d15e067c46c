------------------------------- MODULE ElfImage -------------------------------
(***************************************************************************)
(* What load_elf_binary puts into the image's pages: the header checks,    *)
(* the PT_LOAD entries with their file bytes, their bss and protection,    *)
(* and the heap behind them. GuestMem has the same calls as an address     *)
(* space of pages that fail and collide; here every byte has a value, and  *)
(* the address space is the image's own reservation.                       *)
(*                                                                         *)
(* Images are ET_EXEC, or ET_DYN linked above 0, which are loaded the      *)
(* same way: GuestMem shows that no image loaded elsewhere ever runs.      *)
(***************************************************************************)
EXTENDS Integers, Sequences

CONSTANTS
  PageSize,      \* of the target and of the host
  Images,
  HeapReserve,   \* info->reserve_brk, 32 MiB
  MaxPhdrs       \* what fits a page of program headers

Phdr ==
  [p_type : {"load", "note"}, p_flags : SUBSET {"R", "W", "X"},
   p_vaddr : Nat, p_offset : Nat, p_filesz : Nat, p_memsz : Nat]
Image == [valid : BOOLEAN, size : Nat, entry : Nat, phdrs : Seq(Phdr)]

\* What linkers write and the loader does not check: a segment's file bytes are
\* part of its memory, and the file is as long as its headers say.
LoadEntries(m) == {e \in {m.phdrs[j] : j \in 1 .. Len(m.phdrs)} : e.p_type = "load"}
Sized(m) == \A e \in LoadEntries(m) : e.p_filesz <= e.p_memsz
Whole(m) == \A e \in LoadEntries(m) : e.p_offset + e.p_filesz <= m.size

ASSUME ImagesAssumption ==
  /\ Images \subseteq Image
  /\ PageSize \in Nat \ {0}
  /\ HeapReserve \in Nat
  /\ MaxPhdrs \in Nat

VARIABLES
  image,   \* the file: its length, the header, the program headers
  load,    \* how far load_elf_binary is, or how it ended
  nseg,    \* how many program headers it has seen
  byte,    \* what each byte holds: an offset in the file, or Zero
  prot,    \* the protection of its page
  bounds   \* start_code, end_code, start_data, end_data, brk

imgVars == <<image, load, nseg, byte, prot, bounds>>

Loading == {"idle", "segments", "heap", "done", "failed", "killed"}

Zero == -1

\* The target_ulong -1 info->start_code starts from: above every address.
Highest == 2 ^ 30

AlignUp(a) == ((a + PageSize - 1) \div PageSize) * PageSize
PageOffset(a) == a % PageSize
PageStart(a) == a - PageOffset(a)

Phdrs == image.phdrs
Loads == {j \in 1 .. Len(Phdrs) : Phdrs[j].p_type = "load"}
Start(e) == e.p_vaddr
FileEnd(e) == e.p_vaddr + e.p_filesz
MemEnd(e) == e.p_vaddr + e.p_memsz

\* PF_X makes a segment readable too.
ProtOf(e) == e.p_flags \cup (IF "X" \in e.p_flags THEN {"R"} ELSE {})

Lowest(S) == CHOOSE x \in S : \A y \in S : x <= y
Greatest(S) == CHOOSE x \in S : \A y \in S : x >= y

loaddr == Lowest({Phdrs[j].p_vaddr - Phdrs[j].p_offset : j \in Loads})
hiaddr == Greatest({MemEnd(Phdrs[j]) - 1 : j \in Loads}) + HeapReserve

ImgInit(m) ==
  /\ image = m
  /\ load = "idle"
  /\ nseg = 0
  /\ byte = [a \in {} |-> Zero]
  /\ prot = [a \in {} |-> {}]
  /\ bounds = [start_code |-> Highest, end_code |-> 0,
               start_data |-> Highest, end_data |-> 0, brk |-> 0]

Fail ==
  /\ load' = "failed"
  /\ UNCHANGED <<image, nseg, byte, prot, bounds>>

\* The file, its header or its program headers cannot be read, or the range
\* of pages they ask for cannot be had.
LoadFails == load = "idle" /\ Fail

\* elf_check_ehdr, load_elf_phdrs, and the reservation without access.
ReserveRange ==
  /\ load = "idle"
  /\ image.valid
  /\ Len(Phdrs) \in 1 .. MaxPhdrs
  /\ Loads # {}
  /\ PageOffset(loaddr) = 0
  /\ load' = "segments"
  /\ byte' = [a \in loaddr .. AlignUp(hiaddr + 1) - 1 |-> Zero]
  /\ prot' = [a \in loaddr .. AlignUp(hiaddr + 1) - 1 |-> {}]
  /\ UNCHANGED <<image, nseg, bounds>>

-----------------------------------------------------------------------------
Pages(from, len) == PageStart(from) .. AlignUp(PageStart(from) + len) - 1

Protected(range, rights) ==
  [a \in DOMAIN prot |-> IF a \in range THEN rights ELSE prot[a]]

\* The byte of the file at an offset; behind its end a page reads as zero.
FileByte(o) == IF o < image.size THEN o ELSE Zero

\* The pages of a segment's file bytes.
FilePages(e) == Pages(Start(e), PageOffset(Start(e)) + e.p_filesz)

\* zero_bss: the pages behind them that are mapped, and the rest of the
\* last file page, which is cleared.
BssPages(e) == AlignUp(FileEnd(e)) .. AlignUp(MemEnd(e)) - 1

\* Mutant of BssTail: only the bss is cleared, not the rest of the page.
BssTailNone(e) == {}
BssTail(e) == FileEnd(e) .. AlignUp(FileEnd(e)) - 1

HasBss(e) == e.p_filesz < e.p_memsz

\* The memory with a segment's file pages and bss.
WithFile(e) ==
  [a \in DOMAIN byte |->
     IF HasBss(e) /\ a \in BssPages(e) \cup BssTail(e) THEN Zero
     ELSE IF a \in FilePages(e)
          THEN FileByte(e.p_offset + (a - Start(e)))
          ELSE byte[a]]

WithoutFile(e) ==
  [a \in DOMAIN byte |->
     IF a \in Pages(Start(e), PageOffset(Start(e)) + e.p_memsz)
     THEN Zero ELSE byte[a]]

\* Mutant of BrkOf: the bss is not counted.
BrkOfFile(e) == FileEnd(e)
BrkOf(e) == MemEnd(e)

\* "Find the full program boundaries."
Bounded(e) ==
  LET low(a, b) == IF a < b THEN a ELSE b
      high(a, b) == IF a > b THEN a ELSE b
      code == "X" \in ProtOf(e)
  IN  [start_code |-> IF code THEN low(Start(e), bounds.start_code)
                      ELSE bounds.start_code,
       end_code |-> IF code THEN high(FileEnd(e), bounds.end_code)
                    ELSE bounds.end_code,
       start_data |-> low(Start(e), bounds.start_data),
       end_data |-> high(FileEnd(e), bounds.end_data),
       brk |-> high(BrkOf(e), bounds.brk)]

AtPhdr(e) ==
  /\ load = "segments"
  /\ nseg < Len(Phdrs)
  /\ e = Phdrs[nseg + 1]

SkipPhdr(e) ==
  /\ AtPhdr(e)
  /\ e.p_type # "load"
  /\ nseg' = nseg + 1
  /\ UNCHANGED <<image, load, byte, prot, bounds>>

\* zero_bss clears the tail through the protection the page has already.
TailFaults(e) == HasBss(e) /\ BssTail(e) # {} /\ "W" \notin ProtOf(e)

KilledInTail(e) ==
  /\ AtPhdr(e)
  /\ e.p_type = "load"
  /\ e.p_filesz # 0
  /\ PageOffset(e.p_offset) = PageOffset(Start(e))
  /\ TailFaults(e)
  /\ load' = "killed"
  /\ UNCHANGED <<image, nseg, byte, prot, bounds>>

\* The entry is mapped, and its boundaries are taken if it can be read.
MapPhdr(e) ==
  /\ AtPhdr(e)
  /\ e.p_type = "load"
  /\ \/ /\ e.p_filesz # 0
        /\ PageOffset(e.p_offset) = PageOffset(Start(e))
        /\ ~TailFaults(e)
        /\ byte' = WithFile(e)
        /\ prot' = Protected(FilePages(e) \cup
                               IF HasBss(e) THEN BssPages(e) ELSE {},
                             ProtOf(e))
     \/ /\ e.p_filesz = 0 /\ e.p_memsz # 0
        /\ byte' = WithoutFile(e)
        /\ prot' = Protected(Pages(Start(e), PageOffset(Start(e)) + e.p_memsz),
                             ProtOf(e))
     \/ /\ e.p_filesz = 0 /\ e.p_memsz = 0
        /\ UNCHANGED <<byte, prot>>
  /\ IF "R" \in ProtOf(e)
     THEN /\ bounds' = Bounded(e)
          /\ nseg' = nseg + 1
          /\ UNCHANGED <<image, load>>
     ELSE /\ load' = "failed"
          /\ UNCHANGED <<image, nseg, bounds>>

\* The host refuses a mapping, of the file or of memory alone, as it does a
\* file offset that is not congruent to the address.
MapPhdrFails(e) ==
  /\ AtPhdr(e)
  /\ e.p_type = "load"
  /\ e.p_filesz # 0 \/ e.p_memsz # 0
  /\ Fail

PhdrsDone ==
  /\ load = "segments"
  /\ nseg = Len(Phdrs)
  /\ load' = "heap"
  /\ UNCHANGED <<image, nseg, byte, prot, bounds>>

HeapFrom == AlignUp(bounds.brk)

HeapBytes == HeapFrom .. AlignUp(hiaddr + 1) - 1

MapHeapBytes ==
  /\ load = "heap"
  /\ HeapFrom <= hiaddr
  /\ byte' = [a \in DOMAIN byte |-> IF a \in HeapBytes THEN Zero ELSE byte[a]]
  /\ prot' = Protected(HeapBytes, {"R", "W"})
  /\ load' = "done"
  /\ UNCHANGED <<image, nseg, bounds>>

HeapBytesFail == load = "heap" /\ Fail

ElfLoad ==
  \/ ReserveRange \/ LoadFails
  \/ \E e \in {Phdrs[j] : j \in 1 .. Len(Phdrs)} :
       SkipPhdr(e) \/ KilledInTail(e) \/ MapPhdr(e) \/ MapPhdrFails(e)
  \/ PhdrsDone \/ MapHeapBytes \/ HeapBytesFail

ImgTypeOK ==
  /\ load \in Loading
  /\ nseg \in 0 .. Len(Phdrs)
  /\ DOMAIN byte = DOMAIN prot

-----------------------------------------------------------------------------
\* The pages a segment covers when it is loaded.
Covered(e) == Pages(Start(e), PageOffset(Start(e)) + e.p_memsz)

\* No later segment is mapped over the byte.
Kept(j, a) == \A h \in Loads : h > j => a \notin Covered(Phdrs[h])

(***************************************************************************)
(* The image is what its program headers say: a byte of a segment is the   *)
(* file's as far as p_filesz goes and zero behind it, also in the page     *)
(* that they share, and has the segment's protection. A page of two        *)
(* segments is the later one's, whole.                                     *)
(***************************************************************************)
ImageIsTheFile ==
  load = "done" =>
    \A j \in Loads :
      \A a \in Start(Phdrs[j]) .. MemEnd(Phdrs[j]) - 1 :
        Kept(j, a) =>
          /\ byte[a] = IF a < FileEnd(Phdrs[j])
                       THEN Phdrs[j].p_offset + (a - Start(Phdrs[j]))
                       ELSE Zero
          /\ prot[a] = ProtOf(Phdrs[j])

(***************************************************************************)
(* brk starts behind every byte of the image, at or above its bounds, and  *)
(* from there to the end of the reserve is zeroed memory for the heap      *)
(* that no segment's byte is in.                                           *)
(***************************************************************************)
HeapBehindImage ==
  load = "done" =>
    /\ bounds.end_data <= bounds.brk /\ bounds.end_code <= bounds.end_data
    /\ \A j \in Loads : MemEnd(Phdrs[j]) <= bounds.brk
    /\ \A a \in AlignUp(bounds.brk) .. bounds.brk + HeapReserve - 1 :
         byte[a] = Zero /\ prot[a] = {"R", "W"}

=============================================================================
