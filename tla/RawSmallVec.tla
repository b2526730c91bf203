---------------------------- MODULE RawSmallVec ----------------------------
(***************************************************************************)
(* The storage of a SmallVec<T, N> for a sized T: the tagged length word,  *)
(* the union of an inline array and a heap (pointer, capacity) pair, and   *)
(* the allocator's blocks.  The module has no variables.  Its operators    *)
(* take a storage record                                                   *)
(*   word : tagged length of every handle                                  *)
(*   ptr  : heap pointer of every handle, NullPtr while the union holds    *)
(*          the inline array                                               *)
(*   cap  : heap capacity of every handle, 0 while the union is inline     *)
(*   mem  : the cells of every inline array and every heap block           *)
(*   size : the size each heap block was allocated with, 0 when it is free *)
(* and return the record, or the set of records, the code can produce.     *)
(* Elements move: a cell that is read out, dropped in place or copied from *)
(* holds nothing afterwards, so a later use of it is seen.                 *)
(* A handle is a SmallVec, or the one std Vec the program exchanges        *)
(* buffers with (a handle with no inline array).                           *)
(***************************************************************************)
EXTENDS Integers

CONSTANTS
  Handles,     \* vectors, live or not
  InlineSize,  \* InlineSize[h]: the const parameter N of h's type
  Ptrs,        \* heap block addresses
  NullPtr,     \* "no heap block": the union's active member is the array
  Elems,       \* element identities
  Uninit,      \* the content of a cell that holds no element
  UMax,        \* usize::MAX
  MaxCap       \* most elements of T for which Layout::array succeeds

ASSUME RawAssumption ==
  /\ UMax \in Nat
  /\ MaxCap \in Nat
  /\ 2 * MaxCap + 1 <= UMax
  /\ InlineSize \in [Handles -> 0 .. MaxCap]
  /\ Handles \cap Ptrs = {}
  /\ NullPtr \notin Ptrs
  /\ Uninit \notin Elems

Slots == 0 .. MaxCap - 1
Cell  == Elems \cup {Uninit}
Block == [Slots -> Cell]
Blank == [i \in Slots |-> Uninit]

Memory     == [Handles \cup Ptrs -> Block]
BlockSizes == [Ptrs -> 0 .. MaxCap]

Storage == [ word : [Handles -> 0 .. UMax],
             ptr  : [Handles -> Ptrs \cup {NullPtr}],
             cap  : [Handles -> 0 .. MaxCap],
             mem  : Memory,
             size : BlockSizes ]

----------------------------------------------------------------------------
(* TaggedLen: the length in the high bits, the on-heap flag in bit 0.      *)

TaggedLen(len, onHeap) == (2 * len + (IF onHeap THEN 1 ELSE 0)) % (UMax + 1)

OnHeap(s, h)   == s.word[h] % 2 = 1
LenOf(s, h)    == s.word[h] \div 2
SetLen(s, h, n) == [s EXCEPT !.word[h] = TaggedLen(n, OnHeap(s, h))]
SetOnHeap(s, h) == [s EXCEPT !.word[h] = TaggedLen(LenOf(s, h), TRUE)]

(* The tag, and nothing else, decides which union member is read.          *)
Capacity(s, h) == IF OnHeap(s, h) THEN s.cap[h] ELSE InlineSize[h]
AsPtr(s, h)    == IF OnHeap(s, h) THEN s.ptr[h] ELSE h
Cells(s, h)    == s.mem[AsPtr(s, h)]

----------------------------------------------------------------------------
(* Memory: copies, allocation and release.                                 *)

Copy(src, from, dst, to, n) ==
  [i \in Slots |-> IF i \in to .. to + n - 1 THEN src[i - to + from] ELSE dst[i]]

Wipe(cells, from, n) ==
  [i \in Slots |-> IF i \in from .. from + n - 1 THEN Uninit ELSE cells[i]]

(* ptr::copy within one buffer.                                            *)
Shift(cells, from, to, n) == Copy(cells, from, Wipe(cells, from, n), to, n)

FreePtrs(s) == {p \in Ptrs : s.size[p] = 0}

Dealloc(s, p) == [s EXCEPT !.size[p] = 0, !.mem[p] = Blank]

(* The fields of h are assigned, over the given cells and block sizes.     *)
SetHandle(s, h, w, p, c, mem, size) ==
  [ word |-> [s.word EXCEPT ![h] = w],
    ptr  |-> [s.ptr EXCEPT ![h] = p],
    cap  |-> [s.cap EXCEPT ![h] = c],
    mem  |-> mem,
    size |-> size ]

(* new_heap: block p, of c cells, becomes h's; the inline bytes are gone.  *)
NewHeap(s, h, p, c, cells) ==
  SetHandle(s, h, s.word[h], p, c,
            [s.mem EXCEPT ![h] = Blank, ![p] = cells], [s.size EXCEPT ![p] = c])

(* new_inline: the union becomes an inline array with these cells.         *)
SetInline(s, h, w, cells) ==
  SetHandle(s, h, w, NullPtr, 0, [s.mem EXCEPT ![h] = cells], s.size)

(* A handle over an empty inline array.                                    *)
NewInline(s, h) == SetInline(s, h, TaggedLen(0, FALSE), Blank)

(* Write cells into h's current buffer and set the length.                 *)
Edited(s, h, cells, n) == SetLen([s EXCEPT !.mem[AsPtr(s, h)] = cells], h, n)

----------------------------------------------------------------------------
(* Growth.  A set of outcomes: the allocator picks the block.  The empty   *)
(* set is an Err: nothing was changed.                                     *)

(* Mutant: the layout is not checked.                                      *)
TryGrowRawUnchecked(s, h, c) ==
  {NewHeap(s, h, p, c, Copy(Cells(s, h), 0, Blank, 0, LenOf(s, h))) : p \in FreePtrs(s)}

TryGrowRaw(s, h, c) ==
  LET len   == LenOf(s, h)
      old   == s.ptr[h]
      kept  == IF s.cap[h] < c THEN s.cap[h] ELSE c
  IN  IF c > MaxCap
      THEN {}
      ELSE IF len = 0 \/ ~OnHeap(s, h)
      THEN {NewHeap(s, h, p, c, Copy(Cells(s, h), 0, Blank, 0, len)) :
              p \in FreePtrs(s)}
      ELSE {NewHeap(Dealloc(s, old), h, p, c, Copy(s.mem[old], 0, Blank, 0, kept)) :
              p \in FreePtrs(s) \cup {old}}

(* Mutants: the tag is left on-heap; the block is not released.            *)
UnspillKeepsTag(s, h) ==
  Dealloc(SetInline(s, h, s.word[h], Copy(Cells(s, h), 0, Blank, 0, LenOf(s, h))), s.ptr[h])
UnspillKeepsBlock(s, h) ==
  SetInline(s, h, TaggedLen(LenOf(s, h), FALSE),
             Copy(Cells(s, h), 0, Blank, 0, LenOf(s, h)))

(* A spilled vector returns to its inline array; the block is released.    *)
Unspill(s, h) ==
  Dealloc(SetInline(s, h, TaggedLen(LenOf(s, h), FALSE),
                     Copy(Cells(s, h), 0, Blank, 0, LenOf(s, h))),
          s.ptr[h])

TryGrow(s, h, c) ==
  IF c > InlineSize[h] THEN {SetOnHeap(g, h) : g \in TryGrowRaw(s, h, c)}
  ELSE IF OnHeap(s, h) THEN {Unspill(s, h)}
  ELSE {s}

(* usize::checked_next_power_of_two; empty when it overflows.  A power of  *)
(* two is a number with no odd divisor but 1.                              *)
PowersOfTwo ==
  {n \in 1 .. UMax : \A d \in 2 .. n : n % d = 0 => d % 2 = 0}

NextPowerOfTwo(n) ==
  {p \in PowersOfTwo : n <= p /\ \A q \in PowersOfTwo : n <= q => p <= q}

(* Mutant: the room is computed from what is added, not from the total.    *)
ReserveForAdded(s, h, additional) ==
  IF additional > Capacity(s, h) - LenOf(s, h)
  THEN UNION {TryGrow(s, h, c) : c \in NextPowerOfTwo(additional)}
  ELSE {s}

Reserve(s, h, additional) ==
  IF additional > Capacity(s, h) - LenOf(s, h)
  THEN UNION {TryGrow(s, h, c) : c \in NextPowerOfTwo(LenOf(s, h) + additional)}
  ELSE {s}

ReserveExact(s, h, additional) ==
  IF additional > Capacity(s, h) - LenOf(s, h)
  THEN TryGrow(s, h, LenOf(s, h) + additional)
  ELSE {s}

(* reserve panics: the capacity computation or the layout overflows.       *)
ReserveOverflows(s, h, additional) ==
  /\ additional > Capacity(s, h) - LenOf(s, h)
  /\ \A c \in NextPowerOfTwo(LenOf(s, h) + additional) : c > MaxCap

ShrinkToFit(s, h) ==
  LET len == LenOf(s, h)
  IN  IF ~OnHeap(s, h) THEN {s}
      ELSE IF len <= InlineSize[h] THEN {Unspill(s, h)}
      ELSE IF len < Capacity(s, h) THEN TryGrowRaw(s, h, len)
      ELSE {s}

ShrinkTo(s, h, minCapacity) ==
  LET len    == LenOf(s, h)
      target == IF len < minCapacity THEN minCapacity ELSE len
  IN  IF ~OnHeap(s, h) \/ Capacity(s, h) <= minCapacity THEN {s}
      ELSE IF target <= InlineSize[h] THEN {Unspill(s, h)}
      ELSE IF target < Capacity(s, h) THEN TryGrowRaw(s, h, target)
      ELSE {s}

WithCapacity(s, h, c) ==
  IF c > InlineSize[h] THEN TryGrow(NewInline(s, h), h, c) ELSE {NewInline(s, h)}

(* Drop for SmallVec, after its elements are dropped.                      *)
Released(s, h) ==
  NewInline(IF OnHeap(s, h) THEN Dealloc(s, s.ptr[h]) ELSE s, h)

(* The (pointer, length, capacity) triple of h moves to k, bit for bit.    *)
HandOver(s, h, k) ==
  NewInline(SetHandle(s, k, s.word[h], s.ptr[h], s.cap[h], s.mem, s.size), h)

----------------------------------------------------------------------------
(* What the SAFETY comments claim of a live handle.                        *)

Item(s, h, i) == Cells(s, h)[i]
Owned(s, h)   == {Item(s, h, i) : i \in 0 .. LenOf(s, h) - 1}

(* The tag agrees with the union's active member, the length fits the      *)
(* capacity, and the capacity is the size the block was allocated with.    *)
HandleOK(s, h) ==
  /\ LenOf(s, h) <= Capacity(s, h)
  /\ IF OnHeap(s, h)
     THEN /\ s.ptr[h] \in Ptrs
          /\ s.cap[h] > 0
          /\ s.size[s.ptr[h]] = s.cap[h]
     ELSE s.ptr[h] = NullPtr

(* The cells below the length hold distinct elements.                      *)
ContentsOK(s, h) ==
  /\ \A i \in 0 .. LenOf(s, h) - 1 : Item(s, h, i) \in Elems
  /\ \A i, j \in 0 .. LenOf(s, h) - 1 : Item(s, h, i) = Item(s, h, j) => i = j
=============================================================================
