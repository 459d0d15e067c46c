---------------------------- MODULE GuestMemProofs ----------------------------
(***************************************************************************)
(* Proofs about GuestMem: for every size of the address space, of the heap *)
(* reserve and of the stack, and for every image linked below              *)
(* TASK_UNMAPPED_BASE, the address-space invariant MemInv is inductive as  *)
(* long as the guest maps only over what it may believe free.              *)
(***************************************************************************)
EXTENDS GuestMem, TLAPS

\* What a mapping of [a, a + n) does, whoever asked for it.
Effect(a, n, use) ==
  /\ a >= 0 /\ n > 0 /\ a + n <= MemPages
  /\ owner' \in [Page -> Use]
  /\ \A p \in Page : owner'[p] = IF p \in a .. a + n - 1 THEN use ELSE owner[p]
  /\ mmap_next_start' \in mmap_next_start .. MemPages
  /\ FreeAboveNext'

\* A MAP_FIXED request below mmap_next_start.
LEMMA FixedEffect ==
  ASSUME TypeOK, FreeAboveNext, NEW a \in Int, NEW n \in Int, NEW use \in Use,
         MmapFixed(a, n, use), a + n <= mmap_next_start
  PROVE  Effect(a, n, use) /\ mmap_next_start' = mmap_next_start
<1>1. a >= 0 /\ n > 0 /\ a + n <= MemPages
  BY DEF MmapFixed, CanMap
<1>2. owner \in [Page -> Use] /\ mmap_next_start \in Int /\ MemPages \in Nat
      /\ mmap_next_start <= MemPages
  BY SizesAssumption DEF TypeOK
<1>3. owner' = [p \in Page |-> IF p \in a .. a + n - 1 THEN use ELSE owner[p]]
      /\ mmap_next_start' = mmap_next_start
  BY DEF MmapFixed, Mapped, Span
<1>4. owner' \in [Page -> Use]
  BY <1>2, <1>3
<1>5. FreeAboveNext'
  BY <1>2, <1>3 DEF FreeAboveNext, Page
<1> QED
  BY <1>1, <1>2, <1>3, <1>4, <1>5 DEF Effect

\* A searched or hinted request: at mmap_next_start, or below it.
LEMMA SearchEffect ==
  ASSUME TypeOK, FreeAboveNext, NEW addr \in Int, NEW n \in Int,
         NEW use \in Use, MmapSearch(addr, n, use),
         \/ FindVma(addr) = mmap_next_start
         \/ FindVma(addr) + n <= mmap_next_start
  PROVE  /\ Effect(FindVma(addr), n, use)
         /\ FindVma(addr) = mmap_next_start =>
              mmap_next_start' = mmap_next_start + n
         /\ FindVma(addr) # mmap_next_start =>
              mmap_next_start' = mmap_next_start
<1> DEFINE a == FindVma(addr)
<1>1. a >= 0 /\ n > 0 /\ a + n <= MemPages
  BY DEF MmapSearch, CanMap
<1>2. /\ owner \in [Page -> Use] /\ mmap_next_start \in Int /\ MemPages \in Nat
      /\ mmap_next_start <= MemPages /\ mmap_next_start >= TASK_UNMAPPED_BASE
      /\ a \in Int
  BY SizesAssumption DEF TypeOK, FindVma
<1>3. owner' = [p \in Page |-> IF p \in a .. a + n - 1 THEN use ELSE owner[p]]
  BY DEF MmapSearch, Mapped, Span
<1>4. /\ a = mmap_next_start => mmap_next_start' = mmap_next_start + n
      /\ a # mmap_next_start => mmap_next_start' = mmap_next_start
  BY <1>2 DEF MmapSearch, NextStart
<1> HIDE DEF a
<1>5. owner' \in [Page -> Use]
  BY <1>2, <1>3
<1>6. mmap_next_start' \in mmap_next_start .. MemPages
  BY <1>1, <1>2, <1>4
<1>7. FreeAboveNext'
  <2>1. a = mmap_next_start \/ a + n <= mmap_next_start
    BY DEF a
  <2> QED
    BY <1>1, <1>2, <1>3, <1>4, <2>1 DEF FreeAboveNext, Page
<1> QED
  BY <1>1, <1>3, <1>4, <1>5, <1>6, <1>7 DEF Effect, a

\* Where the image and its heap lie.
LEMMA ImageBounds ==
  ASSUME TypeOK
  PROVE  /\ image \in Images
         /\ image.lo \in Nat /\ image.hi \in Nat /\ image.lo < image.hi
         /\ image.hi + Reserve <= TASK_UNMAPPED_BASE
         /\ Len(image.segs) \in Nat
         /\ \A j \in 1 .. Len(image.segs) :
              /\ image.segs[j].start \in Nat /\ image.segs[j].end \in Nat
              /\ image.lo <= image.segs[j].start
              /\ image.segs[j].end <= image.hi
         /\ TASK_UNMAPPED_BASE <= mmap_next_start
         /\ mmap_next_start \in Nat /\ mmap_next_start <= MemPages
         /\ Reserve \in Nat /\ TASK_UNMAPPED_BASE \in Nat /\ MemPages \in Nat
         /\ StackLen \in Nat /\ Reserve < TASK_UNMAPPED_BASE
<1>1. image \in Images /\ image \in Image
  BY ImagesAssumption DEF TypeOK
<1>2. image.segs \in Seq(Segment)
  BY <1>1 DEF Image
<1>3. \A j \in 1 .. Len(image.segs) : image.segs[j] \in Segment
  BY <1>2
<1>4. \A j \in 1 .. Len(image.segs) :
        image.segs[j].start \in Nat /\ image.segs[j].end \in Nat
  BY <1>3 DEF Segment
<1>5. Len(image.segs) \in Nat
  BY <1>2
<1>6. image.lo \in Nat /\ image.hi \in Nat
  BY <1>1 DEF Image
<1>7. /\ image.lo < image.hi /\ image.hi + Reserve <= TASK_UNMAPPED_BASE
      /\ \A j \in 1 .. Len(image.segs) :
           image.lo <= image.segs[j].start /\ image.segs[j].end <= image.hi
  BY <1>1, ImagesAssumption
<1>8. mmap_next_start \in TASK_UNMAPPED_BASE .. MemPages
  BY DEF TypeOK
<1>9. /\ TASK_UNMAPPED_BASE <= mmap_next_start
      /\ mmap_next_start \in Nat /\ mmap_next_start <= MemPages
      /\ Reserve \in Nat /\ TASK_UNMAPPED_BASE \in Nat /\ MemPages \in Nat
      /\ StackLen \in Nat /\ Reserve < TASK_UNMAPPED_BASE
  BY <1>8, SizesAssumption
<1> QED
  BY <1>1, <1>4, <1>5, <1>6, <1>7, <1>9

\* The pages of a segment lie inside the image.
LEMMA SegPages ==
  ASSUME TypeOK, NEW j \in 1 .. Len(image.segs),
         NEW p \in image.segs[j].start .. image.segs[j].end - 1
  PROVE  /\ p \in Nat /\ p < image.hi /\ p < TASK_UNMAPPED_BASE
         /\ p < mmap_next_start /\ p \in Page
<1>1. PICK x \in Nat, y \in Nat :
        x = image.segs[j].start /\ y = image.segs[j].end /\ y <= image.hi
  BY ImageBounds
<1>2. p \in x .. y - 1
  BY <1>1
<1>3. p \in Nat /\ p < image.hi
  <2>1. image.hi \in Nat
    BY ImageBounds
  <2> QED
    BY <1>1, <1>2, <2>1
<1> HIDE DEF TypeOK
<1>4. /\ image.hi \in Nat /\ TASK_UNMAPPED_BASE \in Nat /\ MemPages \in Nat
      /\ mmap_next_start \in Nat /\ Reserve \in Nat
      /\ image.hi + Reserve <= TASK_UNMAPPED_BASE
      /\ TASK_UNMAPPED_BASE <= mmap_next_start /\ mmap_next_start <= MemPages
  BY ImageBounds
<1> QED
  BY <1>3, <1>4 DEF Page

-----------------------------------------------------------------------------
\* Steps of load_elf_binary that give up.
LEMMA FailedInv ==
  ASSUME MemInv, Fails, owner' \in [Page -> Use],
         mmap_next_start' \in TASK_UNMAPPED_BASE .. MemPages, FreeAboveNext'
  PROVE  MemInv'
BY DEF MemInv, Fails, TypeOK, Stage, Loaded, Biased

LEMMA RefusedInv ==
  ASSUME MemInv, Fails, MmapRefused
  PROVE  MemInv'
<1>1. /\ owner' \in [Page -> Use]
      /\ mmap_next_start' \in TASK_UNMAPPED_BASE .. MemPages
  BY DEF MemInv, TypeOK, MmapRefused
<1>2. FreeAboveNext'
  BY DEF MemInv, FreeAboveNext, MmapRefused
<1> QED
  BY <1>1, <1>2, FailedInv

LEMMA EffectFailedInv ==
  ASSUME MemInv, Fails, NEW a, NEW n, NEW use, Effect(a, n, use)
  PROVE  MemInv'
<1>1. /\ owner' \in [Page -> Use]
      /\ mmap_next_start' \in TASK_UNMAPPED_BASE .. MemPages
      /\ FreeAboveNext'
  BY ImageBounds DEF Effect, MemInv
<1> QED
  BY <1>1, FailedInv

\* The reservation of the image.
LEMMA ReserveStep ==
  ASSUME MemInv, ReserveImage
  PROVE  MemInv'
<1> USE DEF MemInv
<1>0. /\ at = "reserve" /\ k = 0 /\ load_bias = 0 /\ at' = "segment"
      /\ mmap_next_start = TASK_UNMAPPED_BASE
      /\ UNCHANGED <<image, k, stack, brk>>
      /\ "reserved" \in Use
  BY DEF ReserveImage, Use
<1>1. ReserveLen \in Int /\ Hint \in Int /\ image.lo \in Int
      /\ ReserveLen = image.hi + Reserve - image.lo
  BY ImageBounds DEF ReserveLen, Hint, NoHint
<1>2. CASE image.type = "exec"
  <2>1. MmapFixed(image.lo, ReserveLen, "reserved") /\ load_bias' = 0
    BY <1>2 DEF ReserveImage
  <2>2. image.lo + ReserveLen <= mmap_next_start
    BY <1>1, ImageBounds
  <2>3. Effect(image.lo, ReserveLen, "reserved")
    BY <1>0, <1>1, <2>1, <2>2, FixedEffect
  <2>4. TypeOK'
    BY <1>0, <2>1, <2>3, ImageBounds DEF TypeOK, Effect, Stage
  <2> QED
    BY <1>0, <2>1, <2>3, <2>4, ImageBounds
       DEF Effect, Biased, SegsMapped, Loaded
<1>3. CASE image.type # "exec"
  <2>1. MmapSearch(Hint, ReserveLen, "reserved")
        /\ load_bias' = FindVma(Hint) - image.lo
    BY <1>3 DEF ReserveImage
  <2>2. \/ image.lo = 0 /\ FindVma(Hint) = mmap_next_start
        \/ image.lo # 0 /\ FindVma(Hint) = image.lo
    BY ImageBounds DEF Hint, FindVma, NoHint
  <2>3. image.lo + ReserveLen <= mmap_next_start
    BY <1>1, ImageBounds
  <2>4. /\ Effect(FindVma(Hint), ReserveLen, "reserved")
        /\ FindVma(Hint) = mmap_next_start =>
             mmap_next_start' = mmap_next_start + ReserveLen
    BY <1>0, <1>1, <2>1, <2>2, <2>3, SearchEffect
  <2>5. \/ load_bias' = 0 /\ image.lo # 0
        \/ /\ load_bias' = TASK_UNMAPPED_BASE
           /\ mmap_next_start' = TASK_UNMAPPED_BASE + image.hi + Reserve
    <3>1. CASE image.lo # 0
      BY <1>1, <2>1, <2>2, <3>1
    <3>2. CASE image.lo = 0
      <4>1. FindVma(Hint) = TASK_UNMAPPED_BASE
        BY <1>0, <2>2, <3>2
      <4>2. mmap_next_start' = TASK_UNMAPPED_BASE + (image.hi + Reserve - 0)
        BY <1>0, <1>1, <2>4, <3>2, <4>1
      <4> QED
        BY <2>1, <3>2, <4>1, <4>2, ImageBounds
    <3> QED
      BY <3>1, <3>2
  <2>6. TypeOK'
    BY <1>0, <2>4, <2>5, ImageBounds DEF TypeOK, Effect, Stage
  <2> QED
    BY <1>0, <2>4, <2>5, <2>6, ImageBounds
       DEF Effect, Biased, SegsMapped, Loaded
<1> QED
  BY <1>2, <1>3

\* The PT_LOAD entry that is mapped next.
LEMMA NextSegment ==
  ASSUME TypeOK, k < Len(image.segs)
  PROVE  /\ k \in Nat /\ k + 1 \in 1 .. Len(image.segs)
         /\ image.segs[k + 1].start \in Int /\ image.segs[k + 1].end \in Int
         /\ image.segs[k + 1].end <= image.hi
<1>1. k \in 0 .. Len(image.segs)
  BY DEF TypeOK
<1>2. Len(image.segs) \in Nat
  BY ImageBounds
<1>3. k \in Nat /\ k + 1 \in 1 .. Len(image.segs)
  BY <1>1, <1>2
<1> HIDE DEF TypeOK
<1>4. /\ image.segs[k + 1].start \in Nat /\ image.segs[k + 1].end \in Nat
      /\ image.segs[k + 1].end <= image.hi
  BY <1>3, ImageBounds
<1> QED
  BY <1>3, <1>4

\* A PT_LOAD entry lies below mmap_next_start.
LEMMA SegmentEffect ==
  ASSUME MemInv, at = "segment", k < Len(image.segs), NEW e \in Int,
         e <= image.segs[k + 1].end,
         MmapFixed(load_bias + image.segs[k + 1].start,
                   e - image.segs[k + 1].start, "image")
  PROVE  /\ Effect(load_bias + image.segs[k + 1].start,
                   e - image.segs[k + 1].start, "image")
         /\ mmap_next_start' = mmap_next_start
<1>0. TypeOK
  BY DEF MemInv
<1>2. /\ image.segs[k + 1].start \in Int /\ image.segs[k + 1].end \in Int
      /\ image.segs[k + 1].end <= image.hi
  BY <1>0, NextSegment
<1>3. /\ load_bias \in Int /\ load_bias + image.hi <= mmap_next_start
      /\ image.hi \in Int /\ mmap_next_start \in Int
  <2>1. /\ image.hi \in Nat /\ mmap_next_start \in Nat /\ Reserve \in Nat
        /\ TASK_UNMAPPED_BASE \in Nat
        /\ image.hi + Reserve <= TASK_UNMAPPED_BASE
        /\ TASK_UNMAPPED_BASE <= mmap_next_start
    BY <1>0, ImageBounds
  <2>2. \/ load_bias = 0
        \/ /\ load_bias = TASK_UNMAPPED_BASE
           /\ TASK_UNMAPPED_BASE + image.hi <= mmap_next_start
    BY DEF MemInv, Biased
  <2> QED
    BY <2>1, <2>2
<1>4. PICK x \in Int, y \in Int :
        x = image.segs[k + 1].start /\ y = image.segs[k + 1].end
  BY <1>2
<1>5. /\ load_bias + x \in Int /\ e - x \in Int
      /\ load_bias + x + (e - x) <= mmap_next_start
  <2>1. e <= y /\ y <= image.hi
    BY <1>2, <1>4
  <2> QED
    BY <1>3, <2>1
<1>6. MmapFixed(load_bias + x, e - x, "image")
  BY <1>4
<1>7. "image" \in Use /\ TypeOK /\ FreeAboveNext
  BY DEF MemInv, Use
<1>8. Effect(load_bias + x, e - x, "image")
      /\ mmap_next_start' = mmap_next_start
  BY <1>5, <1>6, <1>7, FixedEffect
<1> QED
  BY <1>4, <1>8

\* The segments mapped so far keep their pages when others are mapped.
LEMMA SegsKept ==
  ASSUME MemInv, load_bias = 0, SegsMapped, NEW a \in Int, NEW n \in Int,
         NEW use, Effect(a, n, use), UNCHANGED <<image, k>>,
         use = "image" \/ a >= image.hi
  PROVE  SegsMapped'
<1> SUFFICES ASSUME NEW j \in 1 .. k,
                    NEW p \in image.segs[j].start .. image.segs[j].end - 1
             PROVE  owner'[p] = "image"
  BY DEF SegsMapped
<1>1. j \in 1 .. Len(image.segs)
  BY ImageBounds DEF MemInv, TypeOK
<1>2. p \in Page /\ p < image.hi /\ p \in Nat /\ image.hi \in Nat
  BY <1>1, SegPages, ImageBounds DEF MemInv
<1>3. owner[p] = "image"
  BY DEF SegsMapped
<1>4. owner'[p] = IF p \in a .. a + n - 1 THEN use ELSE owner[p]
  BY <1>2 DEF Effect
<1> QED
  BY <1>2, <1>3, <1>4

\* The same for the heap, when the mapping is above TASK_UNMAPPED_BASE.
LEMMA HeapKept ==
  ASSUME MemInv, HeapMapped, NEW a \in Int, NEW n \in Int, NEW use,
         Effect(a, n, use), UNCHANGED image, a >= TASK_UNMAPPED_BASE
  PROVE  HeapMapped'
<1> SUFFICES ASSUME NEW p \in image.hi .. image.hi + Reserve - 1
             PROVE  owner'[p] = "heap"
  BY DEF HeapMapped
<1>1. /\ image.hi \in Nat /\ TASK_UNMAPPED_BASE \in Nat /\ MemPages \in Nat
      /\ Reserve \in Nat /\ TASK_UNMAPPED_BASE <= MemPages
      /\ image.hi + Reserve <= TASK_UNMAPPED_BASE
  BY ImageBounds DEF MemInv
<1>2. p \in Page /\ p < TASK_UNMAPPED_BASE /\ p \in Nat
  BY <1>1 DEF Page
<1>3. owner'[p] = IF p \in a .. a + n - 1 THEN use ELSE owner[p]
  BY <1>2 DEF Effect
<1> QED
  BY <1>1, <1>2, <1>3 DEF HeapMapped

LEMMA SegmentStep ==
  ASSUME MemInv, MapSegment
  PROVE  MemInv'
<1>0. TypeOK
  BY DEF MemInv
<1>1. /\ at = "segment" /\ k < Len(image.segs) /\ k' = k + 1
      /\ UNCHANGED <<image, at, load_bias, stack, brk>>
  BY DEF MapSegment
<1>2. k' \in 0 .. Len(image.segs) /\ k + 1 \in 1 .. Len(image.segs)
      /\ k \in Nat
      /\ image.segs[k + 1].start \in Int /\ image.segs[k + 1].end \in Int
  BY <1>0, <1>1, NextSegment
<1>3. CASE ~(image.segs[k + 1].start < image.segs[k + 1].end)
  <2>1. UNCHANGED <<owner, mmap_next_start>>
    BY <1>3 DEF MapSegment
  <2>2. load_bias = 0 => SegsMapped'
    <3> SUFFICES ASSUME load_bias = 0, NEW j \in 1 .. k + 1,
                        NEW p \in image.segs[j].start .. image.segs[j].end - 1
                 PROVE  owner[p] = "image"
      BY <1>1, <2>1 DEF SegsMapped
    <3>1. j # k + 1
      <4> SUFFICES ASSUME j = k + 1 PROVE FALSE
        OBVIOUS
      <4>1. PICK x \in Int, y \in Int :
              x = image.segs[j].start /\ y = image.segs[j].end
        BY <1>2
      <4>2. p \in x .. y - 1 /\ ~(x < y)
        BY <1>3, <4>1
      <4> QED
        BY <4>1, <4>2
    <3> QED
      BY <1>1, <1>2, <3>1 DEF MemInv, SegsMapped
  <2>3. TypeOK' /\ FreeAboveNext'
    BY <1>1, <1>2, <2>1 DEF MemInv, TypeOK, FreeAboveNext
  <2> QED
    BY <1>1, <2>1, <2>2, <2>3 DEF MemInv, Biased, Loaded
<1>4. CASE image.segs[k + 1].start < image.segs[k + 1].end
  <2>1. PICK x \in Int, y \in Int :
          /\ x = image.segs[k + 1].start /\ y = image.segs[k + 1].end
          /\ x < y
    BY <1>2, <1>4
  <2>2. MmapFixed(load_bias + x, y - x, "image")
    BY <1>4, <2>1 DEF MapSegment
  <2>3. /\ Effect(load_bias + x, y - x, "image")
        /\ mmap_next_start' = mmap_next_start
    BY <1>1, <2>1, <2>2, SegmentEffect
  <2>4. load_bias = 0 => SegsMapped'
    <3> SUFFICES ASSUME load_bias = 0, NEW j \in 1 .. k + 1,
                        NEW p \in image.segs[j].start .. image.segs[j].end - 1
                 PROVE  owner'[p] = "image"
      BY <1>1 DEF SegsMapped
    <3>1. p \in Page
      BY <1>0, <1>2, SegPages
    <3>2. owner'[p] = IF p \in x .. x + (y - x) - 1 THEN "image" ELSE owner[p]
      BY <2>3, <3>1 DEF Effect
    <3>3. CASE j = k + 1
      <4>1. p \in x .. y - 1
        BY <2>1, <3>3
      <4>2. p \in x .. x + (y - x) - 1
        BY <4>1
      <4> QED
        BY <3>2, <4>2
    <3>4. CASE j # k + 1
      BY <1>1, <1>2, <3>2, <3>4 DEF MemInv, SegsMapped
    <3> QED
      BY <3>3, <3>4
  <2>5. TypeOK' /\ FreeAboveNext'
    BY <1>1, <1>2, <2>3 DEF MemInv, TypeOK, Effect
  <2> QED
    BY <1>1, <2>3, <2>4, <2>5 DEF MemInv, Biased, Loaded
<1> QED
  BY <1>3, <1>4

\* A segment that fails has mapped some of its pages, or none.
LEMMA SegmentFailsStep ==
  ASSUME MemInv, SegmentFails
  PROVE  MemInv'
<1>0. TypeOK
  BY DEF MemInv
<1>1. at = "segment" /\ k < Len(image.segs) /\ Fails
  BY DEF SegmentFails
<1>3. PICK x \in Int, y \in Int :
        x = image.segs[k + 1].start /\ y = image.segs[k + 1].end
  BY <1>0, <1>1, NextSegment
<1>4. CASE MmapRefused
  BY <1>1, <1>4, RefusedInv
<1>5. CASE ~MmapRefused
  <2>1. PICK e \in x + 1 .. y : MmapFixed(load_bias + x, e - x, "image")
    BY <1>3, <1>5 DEF SegmentFails
  <2>2. e \in Int /\ e <= y
    BY <2>1
  <2>3. Effect(load_bias + x, e - x, "image")
    BY <1>1, <1>3, <2>1, <2>2, SegmentEffect
  <2> QED
    BY <1>1, <2>3, EffectFailedInv
<1> QED
  BY <1>4, <1>5

LEMMA SegmentsDoneStep ==
  ASSUME MemInv, SegmentsDone
  PROVE  MemInv'
<1>1. TypeOK' /\ FreeAboveNext'
  BY DEF MemInv, TypeOK, FreeAboveNext, SegmentsDone, Stage
<1> QED
  BY <1>1 DEF MemInv, SegmentsDone, Biased, Loaded, SegsMapped

\* The heap: only an image at its own address has one.
LEMMA HeapStep ==
  ASSUME MemInv, MapHeap
  PROVE  MemInv'
<1>1. /\ at = "heap" /\ at' = "stack" /\ k = Len(image.segs)
      /\ UNCHANGED <<image, k, load_bias, stack, brk>>
      /\ "heap" \in Use /\ TypeOK /\ FreeAboveNext
  BY DEF MapHeap, MemInv, Use
<1>2. /\ image.hi \in Nat /\ TASK_UNMAPPED_BASE \in Nat /\ MemPages \in Nat
      /\ mmap_next_start \in Nat /\ Reserve \in Nat
      /\ image.hi + Reserve <= TASK_UNMAPPED_BASE
      /\ TASK_UNMAPPED_BASE <= mmap_next_start
      /\ Reserve < TASK_UNMAPPED_BASE /\ image.hi > 0
  BY <1>1, ImageBounds
<1>3. HeapStart \in Int /\ HeapLen \in Int
      /\ HeapStart = load_bias + image.hi
      /\ HeapLen = image.hi + Reserve - (load_bias + image.hi)
  BY <1>1, <1>2 DEF HeapStart, HeapLen, Brk0, TypeOK
<1>4. FindVma(HeapStart) = HeapStart
  BY <1>2, <1>3 DEF FindVma, NoHint, MemInv, Biased
<1>5. HeapLen > 0
  BY <1>4 DEF MapHeap, MmapFixed, MmapSearch, CanMap
<1>6. load_bias = 0
  BY <1>2, <1>3, <1>5 DEF MemInv, Biased
<1>7. HeapStart = image.hi /\ HeapLen = Reserve
  BY <1>2, <1>3, <1>6
<1>8. Effect(image.hi, Reserve, "heap")
  <2>1. CASE image.type = "exec"
    <3>1. MmapFixed(image.hi, Reserve, "heap")
      BY <2>1, <1>7 DEF MapHeap
    <3> QED
      BY <3>1, <1>1, <1>2, FixedEffect
  <2>2. CASE image.type # "exec"
    <3>1. MmapSearch(image.hi, Reserve, "heap")
      BY <2>2, <1>7 DEF MapHeap
    <3>2. FindVma(image.hi) = image.hi
      BY <1>4, <1>7
    <3> QED
      BY <3>1, <3>2, <1>1, <1>2, SearchEffect
  <2> QED
    BY <2>1, <2>2
<1>9. SegsMapped'
  BY <1>1, <1>2, <1>6, <1>8, SegsKept DEF MemInv
<1>10. HeapMapped'
  <2> SUFFICES ASSUME NEW p \in image.hi .. image.hi + Reserve - 1
               PROVE  owner'[p] = "heap"
    BY <1>1 DEF HeapMapped
  <2>1. p \in Page
    BY <1>1, <1>2, ImageBounds DEF Page
  <2> QED
    BY <2>1, <1>8 DEF Effect
<1>11. TypeOK' /\ FreeAboveNext'
  BY <1>1, <1>2, <1>8, ImageBounds DEF TypeOK, Effect, Stage
<1> QED
  BY <1>1, <1>6, <1>9, <1>10, <1>11 DEF MemInv, Loaded, Biased

\* The half-done request of an ET_DYN image for its address space.
LEMMA ReserveFailsStep ==
  ASSUME MemInv, ReserveFails
  PROVE  MemInv'
<1>1. at = "reserve" /\ Fails /\ TypeOK /\ FreeAboveNext /\ "reserved" \in Use
  BY DEF ReserveFails, MemInv, Use
<1>2. CASE MmapRefused
  BY <1>1, <1>2, RefusedInv
<1>3. CASE ~MmapRefused
  <2>1. MmapSearch(Hint, ReserveLen, "reserved")
    BY <1>3 DEF ReserveFails, MmapHalfDone
  <2>2. ReserveLen \in Int /\ Hint \in Int
        /\ ReserveLen = image.hi + Reserve - image.lo
    BY <1>1, ImageBounds DEF ReserveLen, Hint, NoHint
  <2>3. \/ FindVma(Hint) = mmap_next_start
        \/ FindVma(Hint) + ReserveLen <= mmap_next_start
    <3>1. FindVma(Hint) = mmap_next_start \/ FindVma(Hint) = image.lo
      BY <1>1, ImageBounds DEF Hint, FindVma, NoHint
    <3>2. image.lo + ReserveLen <= mmap_next_start
      BY <1>1, <2>2, ImageBounds
    <3> QED
      BY <3>1, <3>2
  <2>4. Effect(FindVma(Hint), ReserveLen, "reserved")
    BY <1>1, <2>1, <2>2, <2>3, SearchEffect
  <2> QED
    BY <1>1, <2>4, EffectFailedInv
<1> QED
  BY <1>2, <1>3

\* The same for its heap; the arithmetic holds whatever the bias.
LEMMA HeapFailsStep ==
  ASSUME MemInv, HeapFails
  PROVE  MemInv'
<1>1. at = "heap" /\ Fails /\ TypeOK /\ FreeAboveNext /\ "reserved" \in Use
  BY DEF HeapFails, MemInv, Use
<1>2. CASE MmapRefused
  BY <1>1, <1>2, RefusedInv
<1>3. CASE ~MmapRefused
  <2>1. MmapSearch(HeapStart, HeapLen, "reserved")
    BY <1>3 DEF HeapFails, MmapHalfDone
  <2>2. /\ image.hi \in Nat /\ TASK_UNMAPPED_BASE \in Nat
        /\ mmap_next_start \in Nat /\ Reserve \in Nat
        /\ image.hi + Reserve <= TASK_UNMAPPED_BASE
        /\ TASK_UNMAPPED_BASE <= mmap_next_start
        /\ Reserve < TASK_UNMAPPED_BASE /\ image.hi > 0
    BY <1>1, ImageBounds
  <2>3. HeapStart \in Int /\ HeapLen \in Int
        /\ HeapStart = load_bias + image.hi
        /\ HeapLen = image.hi + Reserve - (load_bias + image.hi)
    BY <1>1, <2>2 DEF HeapStart, HeapLen, Brk0, TypeOK
  <2>4. FindVma(HeapStart) = HeapStart
    BY <2>2, <2>3 DEF FindVma, NoHint, MemInv, Biased
  <2>5. FindVma(HeapStart) + HeapLen <= mmap_next_start
    <3>1. PICK b \in Int : b = load_bias
      BY <1>1 DEF TypeOK
    <3>2. HeapStart + HeapLen = (b + image.hi) + (image.hi + Reserve - (b + image.hi))
      BY <2>3, <3>1
    <3>3. HeapStart + HeapLen = image.hi + Reserve
      BY <2>2, <3>1, <3>2
    <3> QED
      BY <2>2, <2>4, <3>3
  <2>6. Effect(FindVma(HeapStart), HeapLen, "reserved")
    BY <1>1, <2>1, <2>3, <2>5, SearchEffect
  <2> QED
    BY <1>1, <2>6, EffectFailedInv
<1> QED
  BY <1>2, <1>3

\* The stack, at the top of the search's area.
LEMMA StackStep ==
  ASSUME MemInv, MapStack
  PROVE  MemInv'
<1>1. /\ at = "stack" /\ at' = "guard" /\ k = Len(image.segs)
      /\ UNCHANGED <<image, k, load_bias, brk>> /\ stack' = mmap_next_start
      /\ "stack" \in Use /\ TypeOK /\ FreeAboveNext
      /\ load_bias = 0 /\ SegsMapped /\ HeapMapped
      /\ MmapSearch(NoHint, StackLen + 1, "stack")
  BY DEF MapStack, MemInv, Use, Loaded
<1>2. /\ image.hi \in Nat /\ TASK_UNMAPPED_BASE \in Nat /\ MemPages \in Nat
      /\ mmap_next_start \in Nat /\ Reserve \in Nat /\ StackLen \in Nat
      /\ image.hi + Reserve <= TASK_UNMAPPED_BASE
      /\ TASK_UNMAPPED_BASE <= mmap_next_start
  BY <1>1, ImageBounds
<1>3. FindVma(NoHint) = mmap_next_start /\ NoHint \in Int
  BY DEF FindVma, NoHint
<1>4. /\ Effect(mmap_next_start, StackLen + 1, "stack")
      /\ mmap_next_start' = mmap_next_start + (StackLen + 1)
  BY <1>1, <1>2, <1>3, SearchEffect
<1>5. SegsMapped' /\ HeapMapped'
  BY <1>1, <1>2, <1>4, SegsKept, HeapKept
<1>6. StackPlaced'
  <2>1. \A p \in mmap_next_start .. mmap_next_start + StackLen :
          owner'[p] = "stack"
    BY <1>2, <1>4 DEF Effect, Page
  <2> QED
    BY <1>1, <1>2, <1>4, <2>1 DEF StackPlaced
<1>7. TypeOK' /\ FreeAboveNext'
  BY <1>1, <1>2, <1>4, ImageBounds DEF TypeOK, Effect, Stage
<1> QED
  BY <1>1, <1>5, <1>6, <1>7 DEF MemInv, Loaded

LEMMA StackFailsStep ==
  ASSUME MemInv, StackFails
  PROVE  MemInv'
<1>1. at = "stack" /\ Fails /\ TypeOK /\ FreeAboveNext /\ "reserved" \in Use
  BY DEF StackFails, MemInv, Use
<1>2. CASE MmapRefused
  BY <1>1, <1>2, RefusedInv
<1>3. CASE ~MmapRefused
  <2>1. MmapSearch(NoHint, StackLen + 1, "reserved")
    BY <1>3 DEF StackFails, MmapHalfDone
  <2>2. FindVma(NoHint) = mmap_next_start /\ NoHint \in Int
        /\ StackLen + 1 \in Int
    BY <1>1, ImageBounds DEF FindVma, NoHint
  <2>3. Effect(FindVma(NoHint), StackLen + 1, "reserved")
    BY <1>1, <2>1, <2>2, SearchEffect
  <2> QED
    BY <1>1, <2>3, EffectFailedInv
<1> QED
  BY <1>2, <1>3

\* The guard takes a page of the stack, above the image and its heap.
LEMMA GuardStep ==
  ASSUME MemInv, ProtectGuard
  PROVE  MemInv'
<1>1. /\ at = "guard" /\ at' = "start" /\ k = Len(image.segs)
      /\ UNCHANGED <<image, k, mmap_next_start, load_bias, stack, brk>>
      /\ TypeOK /\ FreeAboveNext /\ StackPlaced
      /\ load_bias = 0 /\ SegsMapped /\ HeapMapped
  BY DEF ProtectGuard, MemInv, Loaded
<1>2. owner \in [Page -> Use] /\ owner' = [owner EXCEPT ![stack] = "guard"]
  BY <1>1 DEF ProtectGuard, TypeOK
<1>3. /\ image.hi \in Nat /\ TASK_UNMAPPED_BASE \in Nat /\ MemPages \in Nat
      /\ mmap_next_start \in Nat /\ Reserve \in Nat /\ StackLen \in Nat
      /\ image.hi + Reserve <= TASK_UNMAPPED_BASE
      /\ TASK_UNMAPPED_BASE <= mmap_next_start /\ mmap_next_start <= MemPages
  BY <1>1, ImageBounds
<1>4. /\ stack \in Nat /\ stack >= TASK_UNMAPPED_BASE
      /\ stack + StackLen < mmap_next_start
  BY <1>1 DEF TypeOK, StackPlaced
<1>5. /\ stack \in Page
      /\ \A p \in Page : p # stack => owner'[p] = owner[p]
      /\ owner'[stack] = "guard"
  BY <1>2, <1>3, <1>4 DEF Page
<1>6. owner' \in [Page -> Use]
  BY <1>2 DEF Use
<1>7. FreeAboveNext'
  BY <1>1, <1>3, <1>4, <1>5 DEF FreeAboveNext
<1>8. SegsMapped'
  <2> SUFFICES ASSUME NEW j \in 1 .. k,
                      NEW p \in image.segs[j].start .. image.segs[j].end - 1
               PROVE  owner'[p] = "image"
    BY <1>1 DEF SegsMapped
  <2>1. j \in 1 .. Len(image.segs)
    BY <1>1
  <2>2. p \in Page /\ p < TASK_UNMAPPED_BASE /\ p \in Nat
    BY <1>1, <2>1, SegPages
  <2>3. p # stack
    BY <1>3, <1>4, <2>2
  <2> QED
    BY <1>1, <1>5, <2>2, <2>3 DEF SegsMapped
<1>9. HeapMapped'
  <2> SUFFICES ASSUME NEW p \in image.hi .. image.hi + Reserve - 1
               PROVE  owner'[p] = "heap"
    BY <1>1 DEF HeapMapped
  <2>1. p \in Page /\ p # stack
    BY <1>3, <1>4 DEF Page
  <2> QED
    BY <1>1, <1>5, <2>1 DEF HeapMapped
<1>10. StackPlaced'
  <2>1. \A p \in stack + 1 .. stack + StackLen : owner'[p] = "stack"
    <3> TAKE p \in stack + 1 .. stack + StackLen
    <3>1. p \in Page /\ p # stack
      BY <1>3, <1>4 DEF Page
    <3> QED
      BY <1>1, <1>5, <3>1 DEF StackPlaced
  <2> QED
    BY <1>1, <1>4, <1>5, <2>1 DEF StackPlaced
<1>11. TypeOK'
  BY <1>1, <1>6 DEF TypeOK, Stage
<1> QED
  BY <1>1, <1>7, <1>8, <1>9, <1>10, <1>11 DEF MemInv, Loaded

LEMMA SetBrkStep ==
  ASSUME MemInv, TargetSetBrk
  PROVE  MemInv'
<1>1. /\ at = "start" /\ at' = "run" /\ load_bias = 0 /\ brk' = Brk0
      /\ UNCHANGED <<image, k, owner, mmap_next_start, load_bias, stack>>
  BY DEF TargetSetBrk, MemInv, Loaded
<1>2. Brk0 \in Nat
  BY <1>1, ImageBounds DEF MemInv, Brk0
<1>3. TypeOK' /\ FreeAboveNext'
  BY <1>1, <1>2 DEF MemInv, TypeOK, FreeAboveNext, Stage
<1> QED
  BY <1>1, <1>3
     DEF MemInv, Loaded, SegsMapped, HeapMapped, StackPlaced

-----------------------------------------------------------------------------
\* The system calls.
LEMMA BrkStep ==
  ASSUME MemInv, NEW v \in Breaks, DoBrk(v)
  PROVE  MemInv'
<1>1. /\ at = "run" /\ load_bias = 0
      /\ brk' = IF v < Brk0 THEN Brk0 ELSE v
      /\ UNCHANGED <<image, at, k, owner, mmap_next_start, load_bias, stack>>
  BY DEF DoBrk, MemInv, Loaded
<1>2. Brk0 \in Nat /\ v \in Nat
  BY <1>1, ImageBounds, SizesAssumption DEF MemInv, Brk0
<1>3. TypeOK' /\ FreeAboveNext'
  BY <1>1, <1>2 DEF MemInv, TypeOK, FreeAboveNext
<1> QED
  BY <1>1, <1>3
     DEF MemInv, Loaded, SegsMapped, HeapMapped, StackPlaced

\* A mapping the guest may believe free touches no page of the program.
LEMMA GuestEffectInv ==
  ASSUME MemInv, at = "run", NEW a \in Int, NEW n \in Int, NEW use,
         Effect(a, n, use),
         \A p \in a .. a + n - 1 :
           p \in Page => owner[p] \in {"hole", "reserved", "mmap"},
         UNCHANGED <<image, at, k, load_bias, stack, brk>>
  PROVE  MemInv'
<1>1. /\ k = Len(image.segs) /\ TypeOK /\ FreeAboveNext /\ StackPlaced
      /\ load_bias = 0 /\ SegsMapped /\ HeapMapped
  BY DEF MemInv, Loaded
<1>2. /\ image.hi \in Nat /\ TASK_UNMAPPED_BASE \in Nat /\ MemPages \in Nat
      /\ mmap_next_start \in Nat /\ Reserve \in Nat /\ StackLen \in Nat
      /\ image.hi + Reserve <= TASK_UNMAPPED_BASE
      /\ TASK_UNMAPPED_BASE <= mmap_next_start /\ mmap_next_start <= MemPages
  BY <1>1, ImageBounds
<1>3. /\ stack \in Nat /\ stack >= TASK_UNMAPPED_BASE
      /\ stack + StackLen < mmap_next_start
  BY <1>1 DEF TypeOK, StackPlaced
<1>4. \A p \in Page : owner[p] \in {"image", "heap", "stack", "guard"}
        => owner'[p] = owner[p]
  <2> TAKE p \in Page
  <2> HAVE owner[p] \in {"image", "heap", "stack", "guard"}
  <2>1. p \notin a .. a + n - 1
    OBVIOUS
  <2> QED
    BY <2>1 DEF Effect
<1>5. SegsMapped'
  <2> SUFFICES ASSUME NEW j \in 1 .. k,
                      NEW p \in image.segs[j].start .. image.segs[j].end - 1
               PROVE  owner'[p] = "image"
    BY DEF SegsMapped
  <2>1. j \in 1 .. Len(image.segs)
    BY <1>1
  <2>2. p \in Page /\ owner[p] = "image"
    BY <1>1, <2>1, SegPages DEF SegsMapped
  <2> QED
    BY <1>4, <2>2
<1>6. HeapMapped'
  <2> SUFFICES ASSUME NEW p \in image.hi .. image.hi + Reserve - 1
               PROVE  owner'[p] = "heap"
    BY DEF HeapMapped
  <2>1. p \in Page
    BY <1>2 DEF Page
  <2> QED
    BY <1>1, <1>4, <2>1 DEF HeapMapped
<1>7. StackPlaced'
  <2>1. stack \in Page /\ owner'[stack] = "guard"
    BY <1>1, <1>2, <1>3, <1>4 DEF Page, StackPlaced
  <2>2. \A p \in stack + 1 .. stack + StackLen : owner'[p] = "stack"
    <3> TAKE p \in stack + 1 .. stack + StackLen
    <3>1. p \in Page
      BY <1>2, <1>3 DEF Page
    <3>2. owner[p] = "stack"
      BY <1>1 DEF StackPlaced
    <3> QED
      BY <1>4, <3>1, <3>2
  <2>3. mmap_next_start' \in Int /\ mmap_next_start' >= mmap_next_start
    BY <1>2 DEF Effect
  <2> QED
    BY <1>2, <1>3, <2>1, <2>2, <2>3 DEF StackPlaced
<1>8. TypeOK' /\ FreeAboveNext'
  BY <1>1, <1>2 DEF TypeOK, Effect
<1> QED
  BY <1>1, <1>5, <1>6, <1>7, <1>8 DEF MemInv, Loaded

LEMMA SyscallStep ==
  ASSUME MemInv, Tame, Syscall
  PROVE  MemInv'
<1>1. CASE \E v \in Breaks : DoBrk(v)
  BY <1>1, BrkStep
<1>2. ASSUME NEW n \in FixedLengths, NEW addr \in Page,
             MmapCallFixed(addr, n)
      PROVE  MemInv'
  <2>1. /\ at = "run" /\ UNCHANGED <<image, at, k, load_bias, stack, brk>>
        /\ MmapFixed(addr, n, "mmap") /\ MayMap(addr, n, TRUE)
        /\ TypeOK /\ FreeAboveNext /\ "mmap" \in Use
    BY <1>2 DEF MmapCallFixed, MemInv, Use
  <2>2. addr \in Int /\ n \in Int
    BY SizesAssumption DEF Page
  <2>3. /\ \A p \in addr .. addr + n - 1 :
             p \in Page => owner[p] \in {"hole", "reserved", "mmap"}
        /\ addr + n <= mmap_next_start
    BY <2>1, Tame DEF MayMap, Span
  <2>4. Effect(addr, n, "mmap")
    BY <2>1, <2>2, <2>3, FixedEffect
  <2> QED
    BY <2>1, <2>2, <2>3, <2>4, GuestEffectInv
<1>3. ASSUME NEW n \in Lengths, NEW addr \in Page \cup {NoHint},
             NEW use \in Use, at = "run", MayMap(addr, n, FALSE),
             MmapSearch(addr, n, use),
             UNCHANGED <<image, at, k, load_bias, stack, brk>>
      PROVE  MemInv'
  <2>1. /\ addr \in Int /\ n \in Int /\ TypeOK /\ FreeAboveNext
        /\ mmap_next_start \in Int
    BY SizesAssumption DEF Page, NoHint, MemInv, TypeOK
  <2>2. FindVma(addr) \in Int
    BY <2>1 DEF FindVma
  <2>3. /\ \A p \in FindVma(addr) .. FindVma(addr) + n - 1 :
             p \in Page => owner[p] \in {"hole", "reserved", "mmap"}
        /\ \/ FindVma(addr) = mmap_next_start
           \/ FindVma(addr) + n <= mmap_next_start
    BY <1>3, Tame DEF MayMap, Span
  <2>4. Effect(FindVma(addr), n, use)
    BY <1>3, <2>1, <2>3, SearchEffect
  <2> QED
    BY <1>3, <2>1, <2>2, <2>3, <2>4, GuestEffectInv
<1>4. "mmap" \in Use /\ "reserved" \in Use
  BY DEF Use
<1>5. ASSUME NEW n \in Lengths, NEW addr \in Page \cup {NoHint},
             MmapCall(addr, n) \/ MmapCallFails(addr, n)
      PROVE  MemInv'
  BY <1>3, <1>4, <1>5 DEF MmapCall, MmapCallFails, MmapHalfDone
<1> QED
  BY <1>1, <1>2, <1>5 DEF Syscall

LEMMA StutterStep ==
  ASSUME MemInv, UNCHANGED vars
  PROVE  MemInv'
BY DEF MemInv, vars, TypeOK, FreeAboveNext, Biased, SegsMapped, HeapMapped,
       StackPlaced, Loaded

LEMMA InitInv ==
  ASSUME Init
  PROVE  MemInv
<1>1. image \in Images /\ Len(image.segs) \in Nat
  <2>1. image \in Images /\ image \in Image
    BY ImagesAssumption DEF Init
  <2> QED
    BY <2>1 DEF Image
<1>2. TypeOK
  BY <1>1, SizesAssumption DEF Init, TypeOK, Stage, Use
<1> QED
  BY <1>2 DEF Init, MemInv, FreeAboveNext, Loaded, SegsMapped

LEMMA NextInv ==
  ASSUME MemInv, Tame, [Next]_vars
  PROVE  MemInv'
BY ReserveStep, ReserveFailsStep, SegmentStep, SegmentFailsStep,
   SegmentsDoneStep, HeapStep, HeapFailsStep, StackStep, StackFailsStep,
   GuardStep, RefusedInv, SetBrkStep, SyscallStep, StutterStep
   DEF Next, GuardFails, Over

-----------------------------------------------------------------------------
(***************************************************************************)
(* The address-space invariant, for a guest that maps only over what it    *)
(* may believe free: what load_elf_binary and target_mmap hand out stays   *)
(* what it was handed out for, whichever host calls fail.                  *)
(***************************************************************************)
THEOREM MemInvariance ==
  ASSUME Tame PROVE Spec => []MemInv
<1>1. Init => MemInv
  BY InitInv
<1>2. MemInv /\ [Next]_vars => MemInv'
  BY NextInv
<1> QED
  BY <1>1, <1>2, PTL DEF Spec

\* Every variable of the address space keeps its type; in particular no
\* mapping leaves the address space.
THEOREM MemTypeCorrect ==
  ASSUME Tame PROVE Spec => []TypeOK
<1>1. MemInv => TypeOK
  BY DEF MemInv
<1> QED
  BY <1>1, MemInvariance, PTL

\* mmap_find_vma hands out fresh pages only, also after half-done requests.
THEOREM SearchIsFresh ==
  ASSUME Tame PROVE Spec => []FreeAboveNext
<1>1. MemInv => FreeAboveNext
  BY DEF MemInv
<1> QED
  BY <1>1, MemInvariance, PTL

\* load_elf_binary never hands over an image it had to move.
THEOREM NeverBiased ==
  ASSUME Tame PROVE Spec => []NoBiasedImage
<1>1. MemInv => NoBiasedImage
  BY DEF MemInv, NoBiasedImage, Loaded
<1> QED
  BY <1>1, MemInvariance, PTL

\* While the guest runs, segments, heap, stack and guard stay in place.
THEOREM LayoutKept ==
  ASSUME Tame PROVE Spec => []LayoutIntact
<1>1. MemInv => LayoutIntact
  <2> SUFFICES ASSUME MemInv, at = "run" PROVE LayoutIntact
    BY DEF LayoutIntact
  <2>1. /\ k = Len(image.segs) /\ load_bias = 0
        /\ SegsMapped /\ HeapMapped /\ StackPlaced
    BY DEF MemInv, Loaded
  <2>2. Brk0 = image.hi
    BY <2>1, ImageBounds DEF Brk0, MemInv
  <2> QED
    BY <2>1, <2>2 DEF LayoutIntact, SegsMapped, HeapMapped, StackPlaced
<1> QED
  BY <1>1, MemInvariance, PTL

=============================================================================
