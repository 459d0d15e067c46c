------------------------------- MODULE GuestMem -------------------------------
(***************************************************************************)
(* The guest's address space in rvvk: host_mmap, mmap_find_vma and         *)
(* target_mmap of mmap.c, the calls load_elf_binary makes to them, and     *)
(* the system calls brk and mmap of syscall.c.                             *)
(*                                                                         *)
(* Addresses are guest page numbers: g2h adds a constant, so a page of the *)
(* guest is a page of the host. Every mapping of the program is made with  *)
(* MAP_FIXED and silently replaces what was there; what a page is mapped   *)
(* for is all that is kept of it. The host may refuse any request.         *)
(***************************************************************************)
EXTENDS Integers, Sequences

CONSTANTS
  MemPages,           \* the host's user address space ends here
  TASK_UNMAPPED_BASE,
  Reserve,            \* info->reserve_brk, 32 MiB
  StackLen,           \* guest_stack_size
  Images,             \* the ELF images
  Lengths,            \* the lengths a guest asks mmap for,
  FixedLengths,       \* and with MAP_FIXED
  Breaks,             \* the addresses a guest asks brk for
  Tame                \* the guest maps only over what it may believe free

Page == 0 .. MemPages - 1

\* The address 0 of an mmap call; other hints are rounded down to a page.
NoHint == -1

\* An image: its first page, the page behind its last byte, and the page
\* ranges of its PT_LOAD entries, in the order of the program headers.
Segment == [start : Nat, end : Nat]
Image == [type : {"exec", "dyn"}, lo : Nat, hi : Nat, segs : Seq(Segment)]

ASSUME SizesAssumption ==
  /\ MemPages \in Nat
  /\ TASK_UNMAPPED_BASE \in 0 .. MemPages
  /\ Reserve \in Nat /\ Reserve < TASK_UNMAPPED_BASE
  /\ StackLen \in Nat
  /\ Lengths \subseteq Nat /\ FixedLengths \subseteq Nat
  /\ Breaks \subseteq Nat
  /\ Tame \in BOOLEAN

\* Images are linked below TASK_UNMAPPED_BASE with room for their heap.
ASSUME ImagesAssumption ==
  \A m \in Images :
    /\ m \in Image
    /\ m.lo < m.hi /\ m.hi + Reserve <= TASK_UNMAPPED_BASE
    /\ \A k \in 1 .. Len(m.segs) :
         m.lo <= m.segs[k].start /\ m.segs[k].end <= m.hi

VARIABLES
  image,           \* the image being loaded
  at,              \* the next step of load_elf_binary and main, or "failed"
  k,               \* how many PT_LOAD entries are mapped
  owner,           \* what each page is mapped for
  mmap_next_start,
  load_bias,
  stack,           \* the page below the stack, the guard
  brk              \* target_brk

vars == <<image, at, k, owner, mmap_next_start, load_bias, stack, brk>>

Use == {"hole", "reserved", "image", "heap", "stack", "guard", "mmap"}
Stage ==
  {"reserve", "segment", "heap", "stack", "guard", "start", "run", "failed"}

TypeOK ==
  /\ image \in Images
  /\ at \in Stage
  /\ k \in 0 .. Len(image.segs)
  /\ owner \in [Page -> Use]
  /\ mmap_next_start \in TASK_UNMAPPED_BASE .. MemPages
  /\ load_bias \in Int
  /\ stack \in Nat
  /\ brk \in Nat

Init ==
  /\ image \in Images
  /\ at = "reserve"
  /\ k = 0
  /\ owner = [p \in Page |-> "hole"]
  /\ mmap_next_start = TASK_UNMAPPED_BASE
  /\ load_bias = 0
  /\ stack = 0
  /\ brk = 0

-----------------------------------------------------------------------------
(***************************************************************************)
(* target_mmap(addr, n): with MAP_FIXED one host_mmap, else a reservation  *)
(* by mmap_find_vma first and then the mapping itself.                     *)
(***************************************************************************)

Span(a, n) == a .. a + n - 1

\* Mutant of CanMap: one page past the end.
CanMapOneMore(a, n) == a >= 0 /\ n > 0 /\ a + n <= MemPages + 1

\* A request the host can grant. A negative length is a huge one in C.
CanMap(a, n) == a >= 0 /\ n > 0 /\ a + n <= MemPages

Mapped(a, n, use) ==
  [p \in Page |-> IF p \in Span(a, n) THEN use ELSE owner[p]]

\* Where mmap_find_vma puts a request.
FindVma(addr) == IF addr = NoHint THEN mmap_next_start ELSE addr

\* Mutant of NextStart: the first page of the area is not the area.
NextStartAfterBase(a, n) ==
  IF a = mmap_next_start /\ a > TASK_UNMAPPED_BASE
  THEN mmap_next_start + n
  ELSE mmap_next_start

NextStart(a, n) ==
  IF a = mmap_next_start /\ a >= TASK_UNMAPPED_BASE
  THEN mmap_next_start + n
  ELSE mmap_next_start

MmapFixed(a, n, use) ==
  /\ CanMap(a, n)
  /\ owner' = Mapped(a, n, use)
  /\ UNCHANGED mmap_next_start

MmapSearch(addr, n, use) ==
  /\ CanMap(FindVma(addr), n)
  /\ owner' = Mapped(FindVma(addr), n, use)
  /\ mmap_next_start' = NextStart(FindVma(addr), n)

\* The host refuses the first request: nothing has happened. A system call
\* that ends so is a step that changes nothing.
MmapRefused == UNCHANGED <<owner, mmap_next_start>>

\* The host grants the reservation and refuses the mapping: the pages stay
\* reserved, without access.
MmapHalfDone(addr, n) == MmapSearch(addr, n, "reserved")

-----------------------------------------------------------------------------
(***************************************************************************)
(* load_elf_binary.                                                        *)
(***************************************************************************)
Fails ==
  /\ at' = "failed"
  /\ UNCHANGED <<image, k, load_bias, stack, brk>>

\* Address space for the image and its heap, at the address it was linked
\* for: fixed for ET_EXEC, a hint for ET_DYN, whose linear address may be 0.
ReserveLen == image.hi + Reserve - image.lo
Hint == IF image.lo = 0 THEN NoHint ELSE image.lo

ReserveImage ==
  /\ at = "reserve"
  /\ IF image.type = "exec"
     THEN /\ MmapFixed(image.lo, ReserveLen, "reserved")
          /\ load_bias' = 0
     ELSE /\ MmapSearch(Hint, ReserveLen, "reserved")
          /\ load_bias' = FindVma(Hint) - image.lo
  /\ at' = "segment"
  /\ UNCHANGED <<image, k, stack, brk>>

ReserveFails ==
  /\ at = "reserve"
  /\ \/ MmapRefused
     \/ image.type = "dyn" /\ MmapHalfDone(Hint, ReserveLen)
  /\ Fails

\* One PT_LOAD entry, its file pages and its bss.
MapSegment ==
  /\ at = "segment"
  /\ k < Len(image.segs)
  /\ LET s == image.segs[k + 1]
     IN  IF s.start < s.end
         THEN MmapFixed(load_bias + s.start, s.end - s.start, "image")
         ELSE UNCHANGED <<owner, mmap_next_start>>
  /\ k' = k + 1
  /\ UNCHANGED <<image, at, load_bias, stack, brk>>

\* Any mapping of a segment may fail, also the second one, of its bss, when
\* the file pages are mapped already.
SegmentFails ==
  /\ at = "segment"
  /\ k < Len(image.segs)
  /\ LET s == image.segs[k + 1]
     IN  \/ MmapRefused
         \/ \E e \in s.start + 1 .. s.end :
              MmapFixed(load_bias + s.start, e - s.start, "image")
  /\ Fails

SegmentsDone ==
  /\ at = "segment"
  /\ k = Len(image.segs)
  /\ at' = "heap"
  /\ UNCHANGED <<image, k, owner, mmap_next_start, load_bias, stack, brk>>

\* info->brk, the end of the loaded image.
Brk0 == load_bias + image.hi

\* Mutant of HeapStart: brk_aligned is rounded down.
HeapStartDown == Brk0 - 1
HeapStart == Brk0

\* Mutant of HeapLen: hiaddr moves with the image.
HeapLenBiased == Reserve

\* hiaddr is an address of the file, brk_aligned one of the loaded image.
HeapLen == image.hi + Reserve - Brk0

MapHeap ==
  /\ at = "heap"
  /\ IF image.type = "exec"
     THEN MmapFixed(HeapStart, HeapLen, "heap")
     ELSE MmapSearch(HeapStart, HeapLen, "heap")
  /\ at' = "stack"
  /\ UNCHANGED <<image, k, load_bias, stack, brk>>

HeapFails ==
  /\ at = "heap"
  /\ \/ MmapRefused
     \/ image.type = "dyn" /\ MmapHalfDone(HeapStart, HeapLen)
  /\ Fails

MapStack ==
  /\ at = "stack"
  /\ MmapSearch(NoHint, StackLen + 1, "stack")
  /\ stack' = mmap_next_start
  /\ at' = "guard"
  /\ UNCHANGED <<image, k, load_bias, brk>>

StackFails ==
  /\ at = "stack"
  /\ MmapRefused \/ MmapHalfDone(NoHint, StackLen + 1)
  /\ Fails

\* mprotect takes the access from the lowest page.
ProtectGuard ==
  /\ at = "guard"
  /\ owner' = [owner EXCEPT ![stack] = "guard"]
  /\ at' = "start"
  /\ UNCHANGED <<image, k, mmap_next_start, load_bias, stack, brk>>

\* mprotect fails, or create_elf_tables behind it.
GuardFails ==
  /\ at \in {"guard", "start"}
  /\ MmapRefused
  /\ Fails

\* main: target_set_brk(info->brk), and the guest runs.
TargetSetBrk ==
  /\ at = "start"
  /\ brk' = Brk0
  /\ at' = "run"
  /\ UNCHANGED <<image, k, owner, mmap_next_start, load_bias, stack>>

-----------------------------------------------------------------------------
(***************************************************************************)
(* The guest's system calls.                                               *)
(***************************************************************************)
DoBrk(v) ==
  /\ at = "run"
  /\ brk' = IF v < Brk0 THEN Brk0 ELSE v
  /\ UNCHANGED <<image, at, k, owner, mmap_next_start, load_bias, stack>>

\* What a careful guest knows: the program and its heap, stack and guard are
\* where the loader put them, and the search owns what it has not given out.
MayMap(addr, n, fixed) ==
  LET a == IF fixed THEN addr ELSE FindVma(addr)
  IN  Tame =>
        /\ \A p \in Span(a, n) \cap Page :
             owner[p] \in {"hole", "reserved", "mmap"}
        /\ a + n <= mmap_next_start \/ (~fixed /\ a = mmap_next_start)

MmapCallFixed(addr, n) ==
  /\ at = "run"
  /\ MayMap(addr, n, TRUE)
  /\ MmapFixed(addr, n, "mmap")
  /\ UNCHANGED <<image, at, k, load_bias, stack, brk>>

MmapCall(addr, n) ==
  /\ at = "run"
  /\ MayMap(addr, n, FALSE)
  /\ MmapSearch(addr, n, "mmap")
  /\ UNCHANGED <<image, at, k, load_bias, stack, brk>>

\* The call returns -1 with its pages reserved.
MmapCallFails(addr, n) ==
  /\ at = "run"
  /\ MayMap(addr, n, FALSE)
  /\ MmapHalfDone(addr, n)
  /\ UNCHANGED <<image, at, k, load_bias, stack, brk>>

\* The process has ended.
Over == at = "failed" /\ UNCHANGED vars

Syscall ==
  \/ \E v \in Breaks : DoBrk(v)
  \/ \E n \in FixedLengths, addr \in Page : MmapCallFixed(addr, n)
  \/ \E n \in Lengths, addr \in Page \cup {NoHint} :
       MmapCall(addr, n) \/ MmapCallFails(addr, n)

Next ==
  \/ ReserveImage \/ ReserveFails
  \/ MapSegment \/ SegmentFails \/ SegmentsDone
  \/ MapHeap \/ HeapFails \/ MapStack \/ StackFails
  \/ ProtectGuard \/ GuardFails \/ TargetSetBrk
  \/ Syscall \/ Over

Spec == Init /\ [][Next]_vars

-----------------------------------------------------------------------------
(***************************************************************************)
(* The search gives out fresh pages: from mmap_next_start on, nothing is   *)
(* mapped, whatever failed half-way and whatever the guest re-mapped below *)
(* it. mmap_find_vma looks at no page before it maps over it.              *)
(***************************************************************************)
FreeAboveNext ==
  \A p \in Page : p >= mmap_next_start => owner[p] = "hole"

(***************************************************************************)
(* While the guest runs, its segments, the whole heap reserve behind them, *)
(* the stack and the guard below it are mapped for what load_elf_binary    *)
(* mapped them for, and are disjoint.                                      *)
(***************************************************************************)
LayoutIntact ==
  at = "run" =>
    /\ \A j \in 1 .. Len(image.segs) :
         \A p \in image.segs[j].start .. image.segs[j].end - 1 :
           owner[p] = "image"
    /\ \A p \in Brk0 .. Brk0 + Reserve - 1 : owner[p] = "heap"
    /\ owner[stack] = "guard"
    /\ \A p \in stack + 1 .. stack + StackLen : owner[p] = "stack"

(***************************************************************************)
(* An image that could not be mapped at the address it was linked for is   *)
(* never run: load_elf_binary's bias is applied to the segments and not to *)
(* hiaddr, and the length of the heap underflows.                          *)
(***************************************************************************)
NoBiasedImage == at = "run" => load_bias = 0

(***************************************************************************)
(* brk: the memory up to the break it reports is the heap.                 *)
(***************************************************************************)
BrkBacked ==
  at = "run" => \A p \in Brk0 .. brk - 1 : p \in Page /\ owner[p] = "heap"

(***************************************************************************)
(* mmap without MAP_FIXED finds a location: it takes no page in use.       *)
(***************************************************************************)
HintFindsRoom ==
  [][\A a \in Page, n \in Lengths :
       MmapCall(a, n) => \A p \in Span(a, n) : owner[p] = "hole"]_vars

-----------------------------------------------------------------------------
(***************************************************************************)
(* The inductive invariant.                                                *)
(***************************************************************************)
Loaded == {"stack", "guard", "start", "run"}

\* The image was moved to the search's area.
Biased == load_bias = TASK_UNMAPPED_BASE

SegsMapped ==
  \A j \in 1 .. k :
    \A p \in image.segs[j].start .. image.segs[j].end - 1 : owner[p] = "image"

HeapMapped == \A p \in image.hi .. image.hi + Reserve - 1 : owner[p] = "heap"

StackPlaced ==
  /\ stack >= TASK_UNMAPPED_BASE /\ stack + StackLen < mmap_next_start
  /\ owner[stack] = IF at = "guard" THEN "stack" ELSE "guard"
  /\ \A p \in stack + 1 .. stack + StackLen : owner[p] = "stack"

MemInv ==
  /\ TypeOK
  /\ FreeAboveNext
  /\ load_bias = 0 \/ Biased
  /\ at = "reserve" => mmap_next_start = TASK_UNMAPPED_BASE /\ k = 0
                       /\ load_bias = 0
  /\ at \in {"segment", "heap"} /\ Biased =>
       TASK_UNMAPPED_BASE + image.hi <= mmap_next_start
  /\ at \in {"segment", "heap"} /\ load_bias = 0 => SegsMapped
  /\ at \in {"heap"} \cup Loaded => k = Len(image.segs)
  /\ at \in Loaded => load_bias = 0 /\ SegsMapped /\ HeapMapped
  /\ at \in {"guard", "start", "run"} => StackPlaced

=============================================================================
