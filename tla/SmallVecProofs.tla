--------------------------- MODULE SmallVecProofs ---------------------------
(***************************************************************************)
(* Lemmas about the storage operators, and theorems about the SmallVec     *)
(* state machine.  Each lemma says that its operator, given a sound        *)
(* storage, returns sound storages, and what it does to the items of its   *)
(* own handle and to those of every other.  The inductive invariant says   *)
(* that the storage is sound for every handle, dead ones included: a dead  *)
(* handle is always an empty inline one.                                   *)
(***************************************************************************)
EXTENDS SmallVec, TLAPS

(* Every handle, dead ones included, is consistent, its cells below the    *)
(* length hold elements, and no two handles share a block.                 *)
Initialised(s, h) == \A i \in 0 .. LenOf(s, h) - 1 : Item(s, h, i) \in Elems

Sound(s) ==
  /\ s \in Storage
  /\ \A h \in Handles : HandleOK(s, h) /\ Initialised(s, h)
  /\ \A h, k \in Handles :
       h # k /\ OnHeap(s, h) /\ OnHeap(s, k) => s.ptr[h] # s.ptr[k]

(* What h holds in s, k holds in g.                                        *)
SameItems(s, h, g, k) ==
  /\ LenOf(g, k) = LenOf(s, h)
  /\ \A i \in 0 .. LenOf(s, h) - 1 : Item(g, k, i) = Item(s, h, i)

----------------------------------------------------------------------------
(* The tagged length.                                                      *)

(* A tagged length is a word.                                              *)
LEMMA TaggedLenType ==
  ASSUME NEW n \in Nat, NEW b \in BOOLEAN
  PROVE  TaggedLen(n, b) \in 0 .. UMax
  BY RawAssumption DEF TaggedLen

(* A length an allocation can have survives the encoding, with its tag.    *)
LEMMA TaggedLenRoundTrip ==
  ASSUME NEW n \in 0 .. MaxCap, NEW b \in BOOLEAN
  PROVE  /\ TaggedLen(n, b) \in 0 .. UMax
         /\ TaggedLen(n, b) \div 2 = n
         /\ (TaggedLen(n, b) % 2 = 1) <=> b
<1>1. 2 * n + (IF b THEN 1 ELSE 0) \in 0 .. UMax
  BY RawAssumption
<1>2. TaggedLen(n, b) = 2 * n + (IF b THEN 1 ELSE 0)
  BY <1>1, RawAssumption DEF TaggedLen
<1> QED BY <1>1, <1>2

(* What the two accessors of the word return.                              *)
LEMMA LenType ==
  ASSUME NEW s \in Storage, NEW h \in Handles
  PROVE  LenOf(s, h) \in Nat /\ OnHeap(s, h) \in BOOLEAN
  BY RawAssumption DEF Storage, Memory, BlockSizes, LenOf, OnHeap

(* What the accessors return on a sound storage.                           *)
LEMMA SoundLen ==
  ASSUME NEW s, Sound(s), NEW h \in Handles
  PROVE  /\ LenOf(s, h) \in 0 .. MaxCap
         /\ Capacity(s, h) \in 0 .. MaxCap
         /\ LenOf(s, h) <= Capacity(s, h)
         /\ AsPtr(s, h) \in Handles \cup Ptrs
         /\ Cells(s, h) \in Block
<1>1. Capacity(s, h) \in 0 .. MaxCap
  BY RawAssumption DEF Sound, Storage, Memory, BlockSizes, Capacity
<1>2. AsPtr(s, h) \in Handles \cup Ptrs
  BY DEF Sound, HandleOK, AsPtr
<1>3. Cells(s, h) \in Block
  BY <1>2 DEF Sound, Storage, Memory, BlockSizes, Cells
<1> QED BY <1>1, <1>2, <1>3, RawAssumption, LenType DEF Sound, HandleOK

(* A fresh block is a block.                                               *)
LEMMA BlankType == Blank \in Block
  BY DEF Blank, Block, Cell

(* The way a step keeps a storage sound: it changes the parts of h, and    *)
(* among the blocks only h's own and free ones.                            *)
LEMMA FrameSound ==
  ASSUME NEW s, Sound(s), NEW g \in Storage, NEW h \in Handles,
         HandleOK(g, h), Initialised(g, h),
         \A k \in Handles \ {h} :
           g.word[k] = s.word[k] /\ g.ptr[k] = s.ptr[k] /\ g.cap[k] = s.cap[k]
             /\ g.mem[k] = s.mem[k],
         \A p \in Ptrs : s.size[p] # 0 /\ ~(OnHeap(s, h) /\ s.ptr[h] = p)
                           => g.size[p] = s.size[p] /\ g.mem[p] = s.mem[p],
         OnHeap(g, h) => \/ OnHeap(s, h) /\ g.ptr[h] = s.ptr[h]
                         \/ s.size[g.ptr[h]] = 0
  PROVE  /\ Sound(g)
         /\ \A k \in Handles \ {h} : SameItems(s, k, g, k) /\ Capacity(g, k) = Capacity(s, k)
<1>1. ASSUME NEW k \in Handles \ {h}
      PROVE  /\ OnHeap(g, k) = OnHeap(s, k)
             /\ LenOf(g, k) = LenOf(s, k)
             /\ Capacity(g, k) = Capacity(s, k)
             /\ AsPtr(g, k) = AsPtr(s, k)
             /\ Cells(g, k) = Cells(s, k)
             /\ HandleOK(g, k)
             /\ Initialised(g, k)
             /\ SameItems(s, k, g, k)
             /\ OnHeap(s, k) => s.size[s.ptr[k]] # 0
  <2>1. /\ OnHeap(g, k) = OnHeap(s, k)
        /\ LenOf(g, k) = LenOf(s, k)
        /\ Capacity(g, k) = Capacity(s, k)
        /\ AsPtr(g, k) = AsPtr(s, k)
    BY DEF OnHeap, LenOf, Capacity, AsPtr
  <2>2. OnHeap(s, k) => /\ s.ptr[k] \in Ptrs
                        /\ s.size[s.ptr[k]] # 0
                        /\ ~(OnHeap(s, h) /\ s.ptr[h] = s.ptr[k])
    BY DEF Sound, HandleOK
  <2>3. Cells(g, k) = Cells(s, k)
    BY <2>1, <2>2 DEF Cells, AsPtr
  <2>4. HandleOK(g, k)
    BY <2>1, <2>2 DEF Sound, HandleOK
  <2> QED BY <2>1, <2>2, <2>3, <2>4 DEF Sound, Initialised, Item, SameItems
<1>2. \A k, l \in Handles :
         k # l /\ OnHeap(g, k) /\ OnHeap(g, l) => g.ptr[k] # g.ptr[l]
  BY <1>1 DEF Sound
<1> QED BY <1>1, <1>2 DEF Sound

----------------------------------------------------------------------------
(* Copies.                                                                 *)

(* Copy returns a block and moves exactly the n cells.                     *)
LEMMA CopyType ==
  ASSUME NEW src \in Block, NEW dst \in Block, NEW from \in Nat, NEW to \in Nat, NEW n \in Int,
         from + n <= MaxCap
  PROVE  /\ Copy(src, from, dst, to, n) \in Block
         /\ \A i \in Slots : Copy(src, from, dst, to, n)[i] =
              IF i \in to .. to + n - 1 THEN src[i - to + from] ELSE dst[i]
  BY RawAssumption DEF Copy, Block, Slots

(* The first n cells of src, and nothing else.                             *)
LEMMA CopyPrefix ==
  ASSUME NEW src \in Block, NEW n \in Nat, n <= MaxCap
  PROVE  /\ Copy(src, 0, Blank, 0, n) \in Block
         /\ \A i \in 0 .. n - 1 : Copy(src, 0, Blank, 0, n)[i] = src[i]
  BY BlankType, RawAssumption DEF Copy, Block, Slots

(* Wipe returns a block and empties exactly the n cells.                   *)
LEMMA WipeType ==
  ASSUME NEW cells \in Block, NEW from \in Int, NEW n \in Int
  PROVE  /\ Wipe(cells, from, n) \in Block
         /\ \A i \in Slots : Wipe(cells, from, n)[i] =
              IF i \in from .. from + n - 1 THEN Uninit ELSE cells[i]
  BY DEF Wipe, Block, Cell

(* Shift returns a block; an overlap of source and target is right.        *)
LEMMA ShiftType ==
  ASSUME NEW cells \in Block, NEW from \in Nat, NEW to \in Nat, NEW n \in Nat,
         from + n <= MaxCap
  PROVE  /\ Shift(cells, from, to, n) \in Block
         /\ \A i \in Slots : Shift(cells, from, to, n)[i] =
              IF i \in to .. to + n - 1 THEN cells[i - to + from]
              ELSE IF i \in from .. from + n - 1 THEN Uninit ELSE cells[i]
<1>1. Wipe(cells, from, n) \in Block
  BY WipeType
<1>2. /\ Shift(cells, from, to, n) \in Block
      /\ \A i \in Slots : Shift(cells, from, to, n)[i] =
           IF i \in to .. to + n - 1 THEN cells[i - to + from] ELSE Wipe(cells, from, n)[i]
  BY <1>1, RawAssumption DEF Shift, Copy, Block, Slots
<1> QED BY <1>2, WipeType

(* The same, under one name.                                               *)
ShiftedFrom(src, cells, from, to, n) ==
  /\ cells \in Block
  /\ \A i \in Slots :
       cells[i] = IF i \in to .. to + n - 1 THEN src[i - to + from]
                  ELSE IF i \in from .. from + n - 1 THEN Uninit ELSE src[i]

LEMMA ShiftIs ==
  ASSUME NEW src \in Block, NEW from \in Nat, NEW to \in Nat, NEW n \in Nat,
         from + n <= MaxCap
  PROVE  ShiftedFrom(src, Shift(src, from, to, n), from, to, n)
  BY ShiftType DEF ShiftedFrom

----------------------------------------------------------------------------
(* Assigning the fields of a handle.                                       *)

(* SetHandle changes the fields of h and no other handle.                  *)
LEMMA SetHandleType ==
  ASSUME NEW s \in Storage, NEW h \in Handles, NEW w \in 0 .. UMax,
         NEW p \in Ptrs \cup {NullPtr}, NEW c \in 0 .. MaxCap,
         NEW mem \in Memory, NEW size \in BlockSizes
  PROVE  LET g == SetHandle(s, h, w, p, c, mem, size)
         IN  /\ g \in Storage
             /\ g.word[h] = w /\ g.ptr[h] = p /\ g.cap[h] = c
             /\ g.mem = mem /\ g.size = size
             /\ \A k \in Handles \ {h} :
                  g.word[k] = s.word[k] /\ g.ptr[k] = s.ptr[k] /\ g.cap[k] = s.cap[k]
  BY DEF SetHandle, Storage, Memory, BlockSizes

(* Dealloc frees p and leaves every other block and every handle alone.    *)
LEMMA DeallocType ==
  ASSUME NEW s \in Storage, NEW p \in Ptrs
  PROVE  LET g == Dealloc(s, p)
         IN  /\ g \in Storage
             /\ g.word = s.word /\ g.ptr = s.ptr /\ g.cap = s.cap
             /\ g.size[p] = 0
             /\ \A q \in Ptrs \ {p} : g.size[q] = s.size[q]
             /\ \A a \in (Handles \cup Ptrs) \ {p} : g.mem[a] = s.mem[a]
<1> DEFINE g == Dealloc(s, p)
<1>a. s = [word |-> s.word, ptr |-> s.ptr, cap |-> s.cap, mem |-> s.mem, size |-> s.size]
  BY DEF Storage
<1>b. g = [s EXCEPT !.size = [s.size EXCEPT ![p] = 0], !.mem = [s.mem EXCEPT ![p] = Blank]]
  BY DEF Dealloc, Storage
<1>1. g = [word |-> s.word, ptr |-> s.ptr, cap |-> s.cap,
           mem |-> [s.mem EXCEPT ![p] = Blank], size |-> [s.size EXCEPT ![p] = 0]]
  BY <1>a, <1>b DEF Storage
<1>2. g \in Storage
  BY <1>1, BlankType, RawAssumption DEF Storage, Memory, BlockSizes
<1> HIDE DEF g
<1>3. /\ g.size[p] = 0
      /\ \A q \in Ptrs \ {p} : g.size[q] = s.size[q]
      /\ \A a \in (Handles \cup Ptrs) \ {p} : g.mem[a] = s.mem[a]
  BY <1>1 DEF Storage, Memory, BlockSizes
<1>4. g.word = s.word /\ g.ptr = s.ptr /\ g.cap = s.cap
  BY <1>1
<1> QED BY <1>2, <1>3, <1>4 DEF g

(* SetLen keeps the tag.                                                   *)
LEMMA SetLenType ==
  ASSUME NEW s \in Storage, NEW h \in Handles, NEW n \in 0 .. MaxCap
  PROVE  LET g == SetLen(s, h, n)
         IN  /\ g \in Storage
             /\ g.ptr = s.ptr /\ g.cap = s.cap /\ g.mem = s.mem /\ g.size = s.size
             /\ \A k \in Handles \ {h} : g.word[k] = s.word[k]
             /\ LenOf(g, h) = n /\ OnHeap(g, h) = OnHeap(s, h)
<1>1. OnHeap(s, h) \in BOOLEAN
  BY LenType
<1> QED BY <1>1, TaggedLenRoundTrip DEF SetLen, Storage, LenOf, OnHeap

(* SetOnHeap keeps the length.                                             *)
LEMMA SetOnHeapType ==
  ASSUME NEW s \in Storage, NEW h \in Handles, LenOf(s, h) <= MaxCap
  PROVE  LET g == SetOnHeap(s, h)
         IN  /\ g \in Storage
             /\ g.ptr = s.ptr /\ g.cap = s.cap /\ g.mem = s.mem /\ g.size = s.size
             /\ \A k \in Handles \ {h} : g.word[k] = s.word[k]
             /\ LenOf(g, h) = LenOf(s, h) /\ OnHeap(g, h)
<1>1. LenOf(s, h) \in 0 .. MaxCap
  BY LenType, RawAssumption
<1> DEFINE w == TaggedLen(LenOf(s, h), TRUE)
<1>2. w \in 0 .. UMax /\ w \div 2 = LenOf(s, h) /\ w % 2 = 1
  BY <1>1, TaggedLenRoundTrip
<1>3. SetOnHeap(s, h) = [s EXCEPT !.word[h] = w]
  BY DEF SetOnHeap
<1> HIDE DEF w
<1>4. LET g == SetOnHeap(s, h)
      IN  /\ g \in Storage
          /\ g.ptr = s.ptr /\ g.cap = s.cap /\ g.mem = s.mem /\ g.size = s.size
          /\ \A k \in Handles \ {h} : g.word[k] = s.word[k]
          /\ g.word[h] = w
  BY <1>2, <1>3 DEF Storage, Memory, BlockSizes
<1> QED BY <1>2, <1>4 DEF LenOf, OnHeap

----------------------------------------------------------------------------
(* Back to an inline array: new vectors, and vectors that are shrunk.      *)

(* A vector with an inline array of n elements is sound.                   *)
LEMMA SetInlineSound ==
  ASSUME NEW s, Sound(s), NEW h \in Handles, NEW n \in 0 .. InlineSize[h], NEW cells \in Block,
         NEW w \in 0 .. UMax, w \div 2 = n, w % 2 # 1,
         \A i \in 0 .. n - 1 : cells[i] \in Elems
  PROVE  LET g == SetInline(s, h, w, cells)
         IN  /\ Sound(g)
             /\ LenOf(g, h) = n /\ ~OnHeap(g, h) /\ Capacity(g, h) = InlineSize[h]
             /\ Cells(g, h) = cells
             /\ g.size = s.size
             /\ \A a \in (Handles \cup Ptrs) \ {h} : g.mem[a] = s.mem[a]
             /\ \A k \in Handles \ {h} :
                  g.word[k] = s.word[k] /\ g.ptr[k] = s.ptr[k] /\ g.cap[k] = s.cap[k]
             /\ \A k \in Handles \ {h} : SameItems(s, k, g, k) /\ Capacity(g, k) = Capacity(s, k)
<1> DEFINE mem == [s.mem EXCEPT ![h] = cells]
           g == SetInline(s, h, w, cells)
<1>1. n \in 0 .. MaxCap
  BY RawAssumption
<1>3. mem \in Memory /\ s \in Storage /\ s.size \in BlockSizes
  BY DEF Sound, Storage, Memory, BlockSizes
<1>4. /\ g \in Storage
      /\ g.word[h] = w /\ g.ptr[h] = NullPtr /\ g.cap[h] = 0
      /\ g.mem = mem /\ g.size = s.size
      /\ \A k \in Handles \ {h} :
           g.word[k] = s.word[k] /\ g.ptr[k] = s.ptr[k] /\ g.cap[k] = s.cap[k]
  <2>1. g = SetHandle(s, h, w, NullPtr, 0, mem, s.size)
    BY DEF SetInline
  <2> HIDE DEF g, mem
  <2> QED BY <1>3, <2>1, RawAssumption DEF SetHandle, Storage
<1>5. \A a \in (Handles \cup Ptrs) \ {h} : mem[a] = s.mem[a]
  BY DEF Sound, Storage, Memory, BlockSizes
<1>6. mem[h] = cells
  BY DEF Sound, Storage, Memory, BlockSizes
<1> HIDE DEF g, mem
<1>7. LenOf(g, h) = n /\ ~OnHeap(g, h) /\ Capacity(g, h) = InlineSize[h] /\ Cells(g, h) = cells
  BY <1>4, <1>6 DEF LenOf, OnHeap, Capacity, Cells, AsPtr
<1>8. HandleOK(g, h) /\ Initialised(g, h)
  BY <1>4, <1>7, RawAssumption DEF HandleOK, Initialised, Item
<1>9. Sound(g) /\ \A k \in Handles \ {h} : SameItems(s, k, g, k) /\ Capacity(g, k) = Capacity(s, k)
  BY <1>4, <1>5, <1>7, <1>8, FrameSound, RawAssumption
<1> QED BY <1>4, <1>5, <1>7, <1>9 DEF g

(* A new, empty vector is sound.                                           *)
LEMMA NewInlineSound ==
  ASSUME NEW s, Sound(s), NEW h \in Handles
  PROVE  LET g == NewInline(s, h)
         IN  /\ Sound(g)
             /\ LenOf(g, h) = 0 /\ ~OnHeap(g, h) /\ Capacity(g, h) = InlineSize[h]
             /\ g.size = s.size
             /\ \A k \in Handles \ {h} : SameItems(s, k, g, k) /\ Capacity(g, k) = Capacity(s, k)
<1> DEFINE w == TaggedLen(0, FALSE)
<1>1. w \in 0 .. UMax /\ w \div 2 = 0 /\ w % 2 # 1
  <2>1. w = 0
    BY RawAssumption DEF TaggedLen
  <2> HIDE DEF w
  <2> QED BY <2>1, RawAssumption
<1>2. NewInline(s, h) = SetInline(s, h, w, Blank)
  BY DEF NewInline
<1>3. 0 \in 0 .. InlineSize[h] /\ \A i \in 0 .. 0 - 1 : Blank[i] \in Elems
  BY RawAssumption
<1> HIDE DEF w
<1> QED BY <1>1, <1>2, <1>3, BlankType, SetInlineSound

(* The return to the inline array keeps every item of every vector.        *)
LEMMA UnspillSound ==
  ASSUME NEW s, Sound(s), NEW h \in Handles, OnHeap(s, h), LenOf(s, h) <= InlineSize[h]
  PROVE  LET g == Unspill(s, h)
         IN  /\ Sound(g)
             /\ ~OnHeap(g, h) /\ Capacity(g, h) = InlineSize[h]
             /\ \A k \in Handles : SameItems(s, k, g, k)
             /\ \A k \in Handles \ {h} : Capacity(g, k) = Capacity(s, k)
<1> DEFINE n     == LenOf(s, h)
           w     == TaggedLen(n, FALSE)
           cells == Copy(Cells(s, h), 0, Blank, 0, n)
           m     == SetInline(s, h, w, cells)
           p     == s.ptr[h]
           g     == Dealloc(m, p)
<1>1. g = Unspill(s, h)
  BY DEF Unspill
<1>2. n \in 0 .. InlineSize[h] /\ n \in 0 .. MaxCap /\ Cells(s, h) \in Block
  BY SoundLen
<1>3. w \in 0 .. UMax /\ w \div 2 = n /\ w % 2 # 1
  BY <1>2, TaggedLenRoundTrip
<1>4. cells \in Block /\ \A i \in 0 .. n - 1 : cells[i] = Item(s, h, i)
  <2>1. n \in Nat /\ n <= MaxCap
    BY <1>2, RawAssumption
  <2> QED BY <1>2, <2>1, CopyPrefix DEF Item
<1>5. \A i \in 0 .. n - 1 : cells[i] \in Elems
  BY <1>4 DEF Sound, Initialised
<1>6. p \in Ptrs /\ h \notin Ptrs
  BY RawAssumption DEF Sound, HandleOK
<1> HIDE DEF w, cells, m
<1>7. /\ Sound(m)
      /\ LenOf(m, h) = n /\ ~OnHeap(m, h) /\ Capacity(m, h) = InlineSize[h]
      /\ Cells(m, h) = cells
      /\ m.size = s.size
      /\ \A a \in (Handles \cup Ptrs) \ {h} : m.mem[a] = s.mem[a]
      /\ \A k \in Handles \ {h} :
           m.word[k] = s.word[k] /\ m.ptr[k] = s.ptr[k] /\ m.cap[k] = s.cap[k]
  <2>1. m = SetInline(s, h, w, cells)
    BY DEF m
  <2> QED BY <1>2, <1>3, <1>4, <1>5, <2>1, SetInlineSound
<1> HIDE DEF n, p
<1>8. /\ g \in Storage
      /\ g.word = m.word /\ g.ptr = m.ptr /\ g.cap = m.cap
      /\ g.size[p] = 0
      /\ \A q \in Ptrs \ {p} : g.size[q] = m.size[q]
      /\ \A a \in (Handles \cup Ptrs) \ {p} : g.mem[a] = m.mem[a]
  BY <1>6, <1>7, DeallocType DEF Sound
<1> HIDE DEF g
<1>9. /\ LenOf(g, h) = n /\ ~OnHeap(g, h) /\ Capacity(g, h) = InlineSize[h]
      /\ Cells(g, h) = cells
  BY <1>6, <1>7, <1>8 DEF LenOf, OnHeap, Capacity, Cells, AsPtr
<1>10. HandleOK(g, h) /\ Initialised(g, h)
  BY <1>2, <1>5, <1>7, <1>8, <1>9 DEF Sound, HandleOK, Initialised, Item
<1>11. SameItems(s, h, g, h)
  BY <1>4, <1>9 DEF SameItems, Item, n
<1>12. \A k \in Handles \ {h} :
           g.word[k] = s.word[k] /\ g.ptr[k] = s.ptr[k] /\ g.cap[k] = s.cap[k]
             /\ g.mem[k] = s.mem[k]
  BY <1>6, <1>7, <1>8, RawAssumption
<1>13. \A q \in Ptrs : s.size[q] # 0 /\ ~(OnHeap(s, h) /\ s.ptr[h] = q)
                           => g.size[q] = s.size[q] /\ g.mem[q] = s.mem[q]
  BY <1>6, <1>7, <1>8 DEF p
<1>14. Sound(g) /\ \A k \in Handles \ {h} : SameItems(s, k, g, k) /\ Capacity(g, k) = Capacity(s, k)
  BY <1>8, <1>9, <1>10, <1>12, <1>13, FrameSound
<1> QED BY <1>1, <1>9, <1>11, <1>14

(* A new block for h: fresh, or the place of the one h had.  b is s with   *)
(* h's own block released or not.                                          *)
LEMMA NewHeapSound ==
  ASSUME NEW s, Sound(s), NEW h \in Handles, NEW b \in Storage,
         b.word = s.word, b.ptr = s.ptr, b.cap = s.cap,
         \A a \in Handles : b.mem[a] = s.mem[a],
         \A q \in Ptrs : ~(OnHeap(s, h) /\ s.ptr[h] = q)
                           => b.size[q] = s.size[q] /\ b.mem[q] = s.mem[q],
         NEW p \in Ptrs, s.size[p] = 0 \/ (OnHeap(s, h) /\ s.ptr[h] = p),
         NEW c \in 1 .. MaxCap, LenOf(s, h) <= c,
         NEW cells \in Block, \A i \in 0 .. LenOf(s, h) - 1 : cells[i] = Item(s, h, i)
  PROVE  LET g == SetOnHeap(NewHeap(b, h, p, c, cells), h)
         IN  /\ Sound(g)
             /\ OnHeap(g, h) /\ Capacity(g, h) = c /\ Cells(g, h) = cells
             /\ \A k \in Handles : SameItems(s, k, g, k)
             /\ \A k \in Handles \ {h} : Capacity(g, k) = Capacity(s, k)
<1> DEFINE mem  == [b.mem EXCEPT ![h] = Blank, ![p] = cells]
           size == [b.size EXCEPT ![p] = c]
           w    == b.word[h]
           x    == NewHeap(b, h, p, c, cells)
           g    == SetOnHeap(x, h)
<1>1. mem \in Memory /\ size \in BlockSizes /\ w \in 0 .. UMax
  BY BlankType, RawAssumption DEF Storage, Memory, BlockSizes
<1>2. p # h /\ p \in Ptrs /\ c \in 0 .. MaxCap /\ 0 < c
  BY RawAssumption
<1>3. /\ mem[p] = cells
      /\ \A a \in (Handles \cup Ptrs) \ {h, p} : mem[a] = b.mem[a]
  BY <1>2 DEF Storage, Memory
<1>4. size[p] = c /\ \A q \in Ptrs \ {p} : size[q] = b.size[q]
  BY DEF Storage, BlockSizes
<1>5. x = SetHandle(b, h, w, p, c, mem, size)
  BY DEF NewHeap
<1> HIDE DEF mem, size, x
<1>6. /\ x \in Storage
      /\ x.word = b.word /\ x.ptr[h] = p /\ x.cap[h] = c
      /\ x.mem = mem /\ x.size = size
      /\ \A k \in Handles \ {h} : x.ptr[k] = b.ptr[k] /\ x.cap[k] = b.cap[k]
  BY <1>1, <1>2, <1>5 DEF SetHandle, Storage
<1> HIDE DEF w
<1>7. LenOf(x, h) = LenOf(s, h) /\ LenOf(s, h) \in 0 .. MaxCap
  BY <1>6, SoundLen DEF LenOf
<1>8. /\ g \in Storage
      /\ g.ptr = x.ptr /\ g.cap = x.cap /\ g.mem = x.mem /\ g.size = x.size
      /\ \A k \in Handles \ {h} : g.word[k] = x.word[k]
      /\ LenOf(g, h) = LenOf(x, h) /\ OnHeap(g, h)
  BY <1>6, <1>7, SetOnHeapType
<1> HIDE DEF g
<1>9. Capacity(g, h) = c /\ Cells(g, h) = cells /\ g.ptr[h] = p
  BY <1>3, <1>6, <1>8 DEF Capacity, Cells, AsPtr
<1>10. SameItems(s, h, g, h)
  BY <1>7, <1>8, <1>9 DEF SameItems, Item
<1>11. Initialised(g, h)
  BY <1>7, <1>8, <1>10 DEF SameItems, Initialised, Sound
<1>12. HandleOK(g, h)
  BY <1>2, <1>4, <1>6, <1>7, <1>8, <1>9 DEF HandleOK
<1>13. ASSUME NEW k \in Handles \ {h}
       PROVE  g.word[k] = s.word[k] /\ g.ptr[k] = s.ptr[k] /\ g.cap[k] = s.cap[k]
                /\ g.mem[k] = s.mem[k]
  <2>1. k # p
    BY RawAssumption
  <2> QED BY <1>3, <1>6, <1>8, <2>1
<1>14. \A q \in Ptrs : s.size[q] # 0 /\ ~(OnHeap(s, h) /\ s.ptr[h] = q)
                           => g.size[q] = s.size[q] /\ g.mem[q] = s.mem[q]
  BY <1>2, <1>3, <1>4, <1>6, <1>8, RawAssumption
<1>15. Sound(g) /\ \A k \in Handles \ {h} : SameItems(s, k, g, k) /\ Capacity(g, k) = Capacity(s, k)
  BY <1>8, <1>9, <1>11, <1>12, <1>13, <1>14, FrameSound
<1> QED BY <1>8, <1>9, <1>10, <1>15 DEF g, x

(* try_grow_raw and the caller's set_on_heap keep every item.              *)
LEMMA TryGrowRawSound ==
  ASSUME NEW s, Sound(s), NEW h \in Handles, NEW c \in Nat, 0 < c, LenOf(s, h) <= c,
         NEW x \in TryGrowRaw(s, h, c)
  PROVE  LET g == SetOnHeap(x, h)
         IN  /\ Sound(g)
             /\ OnHeap(g, h) /\ Capacity(g, h) = c
             /\ \A k \in Handles : SameItems(s, k, g, k)
             /\ \A k \in Handles \ {h} : Capacity(g, k) = Capacity(s, k)
<1> DEFINE len  == LenOf(s, h)
           old  == s.ptr[h]
           src  == Cells(s, h)
           kept == IF s.cap[h] < c THEN s.cap[h] ELSE c
<1>1. c \in 1 .. MaxCap
  BY RawAssumption DEF TryGrowRaw
<1>2. s \in Storage /\ src \in Block /\ len \in 0 .. MaxCap
  BY SoundLen DEF Sound
<1>3. CASE len = 0 \/ ~OnHeap(s, h)
  <2> DEFINE cells == Copy(src, 0, Blank, 0, len)
  <2>1. PICK p \in FreePtrs(s) : x = NewHeap(s, h, p, c, cells)
    BY <1>1, <1>3, RawAssumption DEF TryGrowRaw
  <2>2. cells \in Block /\ \A i \in 0 .. len - 1 : cells[i] = Item(s, h, i)
    <3>1. len \in Nat /\ len <= MaxCap
      BY <1>2, RawAssumption
    <3> HIDE DEF len, src
    <3>2. cells \in Block /\ \A i \in 0 .. len - 1 : cells[i] = src[i]
      BY <1>2, <3>1, CopyPrefix
    <3> QED BY <3>2 DEF Item, src
  <2>3. p \in Ptrs /\ s.size[p] = 0
    BY <2>1 DEF FreePtrs
  <2> HIDE DEF cells
  <2> QED BY <1>1, <1>2, <2>1, <2>2, <2>3, NewHeapSound
<1>4. CASE ~(len = 0 \/ ~OnHeap(s, h))
  <2> DEFINE b     == Dealloc(s, old)
             cells == Copy(s.mem[old], 0, Blank, 0, kept)
  <2>1. PICK p \in FreePtrs(s) \cup {old} : x = NewHeap(b, h, p, c, cells)
    BY <1>1, <1>4, RawAssumption DEF TryGrowRaw
  <2>2. /\ OnHeap(s, h) /\ old \in Ptrs /\ s.mem[old] = src
        /\ kept \in 0 .. MaxCap /\ len <= kept
    BY <1>1, <1>4, RawAssumption DEF Sound, Storage, HandleOK, Cells, AsPtr, Capacity
  <2>3. cells \in Block /\ \A i \in 0 .. len - 1 : cells[i] = Item(s, h, i)
    <3>1. kept \in Nat /\ kept <= MaxCap
      BY <2>2, RawAssumption
    <3> HIDE DEF kept, src
    <3>2. cells \in Block /\ \A i \in 0 .. kept - 1 : cells[i] = src[i]
      BY <1>2, <2>2, <3>1, CopyPrefix
    <3>3. \A i \in 0 .. len - 1 : i \in 0 .. kept - 1
      BY <1>2, <2>2, <3>1
    <3> QED BY <3>2, <3>3 DEF Item, src
  <2>4. p \in Ptrs /\ (s.size[p] = 0 \/ (OnHeap(s, h) /\ old = p))
    BY <2>1, <2>2 DEF FreePtrs
  <2>5. /\ b \in Storage
        /\ b.word = s.word /\ b.ptr = s.ptr /\ b.cap = s.cap
        /\ \A q \in Ptrs \ {old} : b.size[q] = s.size[q]
        /\ \A a \in (Handles \cup Ptrs) \ {old} : b.mem[a] = s.mem[a]
    BY <1>2, <2>2, DeallocType
  <2> HIDE DEF b, cells
  <2>6. \A a \in Handles : b.mem[a] = s.mem[a]
    BY <2>2, <2>5, RawAssumption
  <2>7. \A q \in Ptrs : ~(OnHeap(s, h) /\ s.ptr[h] = q)
                           => b.size[q] = s.size[q] /\ b.mem[q] = s.mem[q]
    BY <2>2, <2>5
  <2> QED BY <1>1, <2>1, <2>3, <2>4, <2>5, <2>6, <2>7, NewHeapSound
<1> QED BY <1>3, <1>4

----------------------------------------------------------------------------
(* Capacity changes: every handle keeps its items, the others keep their   *)
(* capacity too.                                                           *)

Resized(s, g, h) ==
  /\ Sound(g)
  /\ \A k \in Handles : SameItems(s, k, g, k)
  /\ \A k \in Handles \ {h} : Capacity(g, k) = Capacity(s, k)

(* Doing nothing is a resize.                                              *)
LEMMA NotResized ==
  ASSUME NEW s, Sound(s), NEW h \in Handles
  PROVE  Resized(s, s, h)
  BY DEF Resized, SameItems

(* A resize changes no length.                                             *)
LEMMA ResizedLen ==
  ASSUME NEW s, NEW g, NEW h \in Handles, Resized(s, g, h), NEW k \in Handles
  PROVE  LenOf(g, k) = LenOf(s, k)
  BY DEF Resized, SameItems

(* grow and try_grow: a resize to at least c.                              *)
LEMMA TryGrowSound ==
  ASSUME NEW s, Sound(s), NEW h \in Handles, NEW c \in Nat, LenOf(s, h) <= c,
         NEW g \in TryGrow(s, h, c)
  PROVE  Resized(s, g, h) /\ Capacity(g, h) >= c
<1>1. InlineSize[h] \in Nat
  BY RawAssumption
<1>2. CASE c > InlineSize[h]
  <2>1. PICK x \in TryGrowRaw(s, h, c) : g = SetOnHeap(x, h)
    BY <1>2 DEF TryGrow
  <2>2. 0 < c
    BY <1>1, <1>2
  <2>3. Sound(g) /\ Capacity(g, h) = c
        /\ (\A k \in Handles : SameItems(s, k, g, k))
        /\ \A k \in Handles \ {h} : Capacity(g, k) = Capacity(s, k)
    BY <2>1, <2>2, TryGrowRawSound
  <2> QED BY <2>3 DEF Resized
<1>3. CASE ~(c > InlineSize[h]) /\ OnHeap(s, h)
  <2>1. g = Unspill(s, h) /\ LenOf(s, h) <= InlineSize[h]
    BY <1>1, <1>3, LenType DEF TryGrow, Sound
  <2> QED BY <1>1, <1>3, <2>1, UnspillSound DEF Resized
<1>4. CASE ~(c > InlineSize[h]) /\ ~OnHeap(s, h)
  <2>1. g = s /\ Capacity(g, h) >= c
    BY <1>1, <1>4 DEF TryGrow, Capacity
  <2> QED BY <2>1, NotResized
<1> QED BY <1>2, <1>3, <1>4

(* reserve: a resize that makes the room, un-spilling included.            *)
LEMMA ReserveSound ==
  ASSUME NEW s, Sound(s), NEW h \in Handles, NEW additional \in Nat,
         NEW g \in Reserve(s, h, additional)
  PROVE  /\ Resized(s, g, h)
         /\ Capacity(g, h) >= LenOf(g, h) + additional
         /\ Capacity(g, h) >= Capacity(s, h)
<1> DEFINE n == LenOf(s, h) + additional
<1>1. LenOf(s, h) \in Nat /\ Capacity(s, h) \in Nat /\ n \in Nat
  BY SoundLen, RawAssumption
<1>2. CASE additional > Capacity(s, h) - LenOf(s, h)
  <2>1. PICK c \in NextPowerOfTwo(n) : g \in TryGrow(s, h, c)
    BY <1>2 DEF Reserve
  <2>2. c \in Nat /\ n <= c
    BY RawAssumption DEF NextPowerOfTwo, PowersOfTwo
  <2>3. Resized(s, g, h) /\ Capacity(g, h) >= c
    BY <1>1, <2>1, <2>2, TryGrowSound
  <2>4. Capacity(g, h) \in Nat /\ LenOf(g, h) = LenOf(s, h)
    BY <2>3, SoundLen, ResizedLen, RawAssumption DEF Resized
  <2> QED BY <1>1, <1>2, <2>2, <2>3, <2>4
<1>3. CASE ~(additional > Capacity(s, h) - LenOf(s, h))
  <2>1. g = s
    BY <1>3 DEF Reserve
  <2> QED BY <1>1, <1>3, <2>1, NotResized
<1> QED BY <1>2, <1>3

(* reserve_exact: the same promise.                                        *)
LEMMA ReserveExactSound ==
  ASSUME NEW s, Sound(s), NEW h \in Handles, NEW additional \in Nat,
         NEW g \in ReserveExact(s, h, additional)
  PROVE  /\ Resized(s, g, h)
         /\ Capacity(g, h) >= LenOf(g, h) + additional
         /\ Capacity(g, h) >= Capacity(s, h)
<1> DEFINE n == LenOf(s, h) + additional
<1>1. LenOf(s, h) \in Nat /\ Capacity(s, h) \in Nat /\ n \in Nat /\ LenOf(s, h) <= n
  BY SoundLen, RawAssumption
<1>2. CASE additional > Capacity(s, h) - LenOf(s, h)
  <2>1. g \in TryGrow(s, h, n)
    BY <1>2 DEF ReserveExact
  <2> HIDE DEF n
  <2>2. Resized(s, g, h) /\ Capacity(g, h) >= n
    BY <1>1, <2>1, TryGrowSound
  <2>3. LenOf(g, h) = LenOf(s, h) /\ Capacity(g, h) \in Nat
    BY <2>2, ResizedLen, SoundLen, RawAssumption DEF Resized
  <2> QED BY <1>1, <1>2, <2>2, <2>3 DEF n
<1>3. CASE ~(additional > Capacity(s, h) - LenOf(s, h))
  <2>1. g = s
    BY <1>3 DEF ReserveExact
  <2> QED BY <1>1, <1>3, <2>1, NotResized
<1> QED BY <1>2, <1>3

(* A spilled vector that is moved to a smaller block is already tagged.    *)
LEMMA AlreadyTagged ==
  ASSUME NEW s, Sound(s), NEW h \in Handles, NEW c \in Nat,
         OnHeap(s, h), NEW g \in TryGrowRaw(s, h, c)
  PROVE  SetOnHeap(g, h) = g
<1>1. PICK b, p, k, cells :
         /\ b \in Storage /\ p \in Ptrs /\ k \in 0 .. MaxCap
         /\ b.word = s.word /\ g = NewHeap(b, h, p, k, cells)
  <2>1. s \in Storage /\ s.ptr[h] \in Ptrs /\ c \in 0 .. MaxCap
    BY RawAssumption DEF Sound, HandleOK, TryGrowRaw
  <2>2. Dealloc(s, s.ptr[h]) \in Storage /\ Dealloc(s, s.ptr[h]).word = s.word
    BY <2>1, DeallocType
  <2> QED BY <2>1, <2>2 DEF TryGrowRaw, FreePtrs
<1> DEFINE w == TaggedLen(LenOf(g, h), TRUE)
<1>2. /\ g = [word |-> g.word, ptr |-> g.ptr, cap |-> g.cap, mem |-> g.mem, size |-> g.size]
      /\ g.word = s.word /\ g.word \in [Handles -> 0 .. UMax]
  BY <1>1 DEF NewHeap, SetHandle, Storage
<1>3. w = g.word[h]
  <2>1. g.word[h] \in 0 .. UMax /\ g.word[h] % 2 = 1
    BY <1>2 DEF OnHeap
  <2>2. 2 * (g.word[h] \div 2) + 1 = g.word[h]
    BY <2>1, RawAssumption
  <2>3. w = (2 * (g.word[h] \div 2) + 1) % (UMax + 1)
    BY DEF TaggedLen, LenOf
  <2>4. g.word[h] % (UMax + 1) = g.word[h]
    BY <2>1, RawAssumption
  <2> QED BY <2>2, <2>3, <2>4
<1>4. SetOnHeap(g, h) = [g EXCEPT !.word[h] = w]
  BY DEF SetOnHeap
<1> HIDE DEF w
<1>5. [g.word EXCEPT ![h] = w] = g.word
  BY <1>2, <1>3
<1> QED BY <1>2, <1>4, <1>5

(* So try_grow_raw on its own resizes it.                                  *)
LEMMA ShrinkRawSound ==
  ASSUME NEW s, Sound(s), NEW h \in Handles, NEW c \in Nat, 0 < c, LenOf(s, h) <= c,
         OnHeap(s, h), NEW g \in TryGrowRaw(s, h, c)
  PROVE  Resized(s, g, h)
  BY AlreadyTagged, TryGrowRawSound DEF Resized

(* shrink_to_fit is a resize.                                              *)
LEMMA ShrinkToFitSound ==
  ASSUME NEW s, Sound(s), NEW h \in Handles, NEW g \in ShrinkToFit(s, h)
  PROVE  Resized(s, g, h)
<1>1. LenOf(s, h) \in Nat /\ InlineSize[h] \in Nat
  BY SoundLen, RawAssumption
<1>2. CASE g = s
  BY <1>2, NotResized
<1>3. CASE OnHeap(s, h) /\ LenOf(s, h) <= InlineSize[h]
  <2>1. g = Unspill(s, h)
    BY <1>3 DEF ShrinkToFit
  <2> QED BY <1>3, <2>1, UnspillSound DEF Resized
<1>4. CASE OnHeap(s, h) /\ ~(LenOf(s, h) <= InlineSize[h]) /\ g # s
  <2>1. g \in TryGrowRaw(s, h, LenOf(s, h)) /\ 0 < LenOf(s, h)
    BY <1>1, <1>4 DEF ShrinkToFit
  <2> QED BY <1>1, <1>4, <2>1, ShrinkRawSound
<1> QED BY <1>2, <1>3, <1>4 DEF ShrinkToFit

(* shrink_to is a resize.                                                  *)
LEMMA ShrinkToSound ==
  ASSUME NEW s, Sound(s), NEW h \in Handles, NEW minCapacity \in Nat,
         NEW g \in ShrinkTo(s, h, minCapacity)
  PROVE  Resized(s, g, h)
<1> DEFINE target == IF LenOf(s, h) < minCapacity THEN minCapacity ELSE LenOf(s, h)
<1>1. LenOf(s, h) \in Nat /\ InlineSize[h] \in Nat /\ target \in Nat /\ LenOf(s, h) <= target
  BY SoundLen, RawAssumption
<1>2. CASE g = s
  BY <1>2, NotResized
<1>3. CASE OnHeap(s, h) /\ target <= InlineSize[h] /\ g # s
  <2>1. g = Unspill(s, h) /\ LenOf(s, h) <= InlineSize[h]
    BY <1>1, <1>3 DEF ShrinkTo
  <2> QED BY <1>3, <2>1, UnspillSound DEF Resized
<1>4. CASE OnHeap(s, h) /\ ~(target <= InlineSize[h]) /\ g # s
  <2>1. g \in TryGrowRaw(s, h, target) /\ 0 < target
    BY <1>1, <1>4 DEF ShrinkTo
  <2> HIDE DEF target
  <2> QED BY <1>1, <1>4, <2>1, ShrinkRawSound
<1> QED BY <1>2, <1>3, <1>4 DEF ShrinkTo

(* with_capacity: an empty vector with the capacity asked for.             *)
LEMMA WithCapacitySound ==
  ASSUME NEW s, Sound(s), NEW h \in Handles, NEW c \in Nat, NEW g \in WithCapacity(s, h, c)
  PROVE  /\ Sound(g)
         /\ LenOf(g, h) = 0 /\ Capacity(g, h) >= c
         /\ \A k \in Handles \ {h} : SameItems(s, k, g, k) /\ Capacity(g, k) = Capacity(s, k)
<1> DEFINE m == NewInline(s, h)
<1>1. /\ Sound(m)
      /\ LenOf(m, h) = 0 /\ ~OnHeap(m, h) /\ Capacity(m, h) = InlineSize[h]
      /\ \A k \in Handles \ {h} : SameItems(s, k, m, k) /\ Capacity(m, k) = Capacity(s, k)
  BY NewInlineSound
<1>2. IF c > InlineSize[h] THEN g \in TryGrow(m, h, c) ELSE g = m
  BY DEF WithCapacity
<1> HIDE DEF m
<1>3. InlineSize[h] \in Nat /\ LenOf(m, h) <= c
  BY <1>1, RawAssumption
<1>4. CASE c > InlineSize[h]
  <2>1. Resized(m, g, h) /\ Capacity(g, h) >= c
    BY <1>1, <1>2, <1>3, <1>4, TryGrowSound
  <2>2. LenOf(g, h) = 0
    BY <1>1, <2>1, ResizedLen
  <2>3. \A k \in Handles \ {h} : SameItems(s, k, g, k) /\ Capacity(g, k) = Capacity(s, k)
    <3> SUFFICES ASSUME NEW k \in Handles \ {h}
                 PROVE  SameItems(s, k, g, k) /\ Capacity(g, k) = Capacity(s, k)
      OBVIOUS
    <3>1. SameItems(s, k, m, k) /\ SameItems(m, k, g, k)
      BY <1>1, <2>1 DEF Resized
    <3>2. SameItems(s, k, g, k)
      BY <3>1 DEF SameItems
    <3> QED BY <1>1, <2>1, <3>2 DEF Resized
  <2> QED BY <2>1, <2>2, <2>3 DEF Resized
<1>5. CASE ~(c > InlineSize[h])
  BY <1>1, <1>2, <1>3, <1>5
<1> QED BY <1>4, <1>5

----------------------------------------------------------------------------
(* Writing into a vector's buffer, and giving a buffer away.               *)

(* set_len: what its safety comment asks of the caller is enough.          *)
LEMMA SetLenSound ==
  ASSUME NEW s, Sound(s), NEW h \in Handles,
         NEW n \in Nat, n <= Capacity(s, h), \A i \in 0 .. n - 1 : Item(s, h, i) \in Elems
  PROVE  LET g == SetLen(s, h, n)
         IN  /\ Sound(g)
             /\ LenOf(g, h) = n /\ OnHeap(g, h) = OnHeap(s, h) /\ Cells(g, h) = Cells(s, h)
             /\ \A k \in Handles : Capacity(g, k) = Capacity(s, k)
             /\ \A k \in Handles \ {h} : SameItems(s, k, g, k)
<1> DEFINE g == SetLen(s, h, n)
<1>1. n \in 0 .. MaxCap /\ s \in Storage
  <2>1. Capacity(s, h) \in 0 .. MaxCap
    BY SoundLen
  <2> QED BY <2>1, RawAssumption DEF Sound
<1>2. /\ g \in Storage
      /\ g.ptr = s.ptr /\ g.cap = s.cap /\ g.mem = s.mem /\ g.size = s.size
      /\ \A k \in Handles \ {h} : g.word[k] = s.word[k]
      /\ LenOf(g, h) = n /\ OnHeap(g, h) = OnHeap(s, h)
  BY <1>1, SetLenType
<1> HIDE DEF g
<1>3. Capacity(g, h) = Capacity(s, h) /\ Cells(g, h) = Cells(s, h)
  BY <1>2 DEF Capacity, AsPtr, Cells
<1>4. HandleOK(g, h) /\ Initialised(g, h)
  BY <1>2, <1>3 DEF Sound, HandleOK, Initialised, Item
<1>5. Sound(g) /\ \A k \in Handles \ {h} : SameItems(s, k, g, k) /\ Capacity(g, k) = Capacity(s, k)
  BY <1>2, <1>3, <1>4, FrameSound
<1> QED BY <1>2, <1>3, <1>5 DEF g

(* A write into the current buffer followed by set_len.                    *)
LEMMA EditedSound ==
  ASSUME NEW s, Sound(s), NEW h \in Handles, NEW cells \in Block,
         NEW n \in Nat, n <= Capacity(s, h), \A i \in 0 .. n - 1 : cells[i] \in Elems
  PROVE  LET g == Edited(s, h, cells, n)
         IN  /\ Sound(g)
             /\ LenOf(g, h) = n /\ Cells(g, h) = cells
             /\ OnHeap(g, h) = OnHeap(s, h)
             /\ \A k \in Handles : Capacity(g, k) = Capacity(s, k)
             /\ \A k \in Handles \ {h} : SameItems(s, k, g, k)
<1> DEFINE a   == AsPtr(s, h)
           mem == [s.mem EXCEPT ![a] = cells]
           m   == [word |-> s.word, ptr |-> s.ptr, cap |-> s.cap, mem |-> mem, size |-> s.size]
           g   == SetLen(m, h, n)
<1>1. a \in Handles \cup Ptrs /\ n \in 0 .. MaxCap /\ s \in Storage
  <2>1. a \in Handles \cup Ptrs /\ s \in Storage
    BY SoundLen DEF Sound
  <2>2. Capacity(s, h) \in 0 .. MaxCap
    BY SoundLen
  <2> QED BY <2>1, <2>2, RawAssumption
<1>2. mem \in Memory /\ mem[a] = cells
      /\ \A b \in (Handles \cup Ptrs) \ {a} : mem[b] = s.mem[b]
  BY <1>1 DEF Storage, Memory
<1>3. g = Edited(s, h, cells, n)
  <2>1. s = [word |-> s.word, ptr |-> s.ptr, cap |-> s.cap, mem |-> s.mem, size |-> s.size]
    BY <1>1 DEF Storage
  <2>2. [s EXCEPT !.mem[AsPtr(s, h)] = cells] = m
    BY <2>1
  <2> QED BY <2>2 DEF Edited
<1> HIDE DEF mem
<1>4. m \in Storage
  BY <1>1, <1>2 DEF Storage
<1>5. m.word = s.word /\ m.ptr = s.ptr /\ m.cap = s.cap /\ m.mem = mem /\ m.size = s.size
  OBVIOUS
<1> HIDE DEF m
<1>6. /\ g \in Storage
      /\ g.ptr = m.ptr /\ g.cap = m.cap /\ g.mem = m.mem /\ g.size = m.size
      /\ \A k \in Handles \ {h} : g.word[k] = m.word[k]
      /\ LenOf(g, h) = n /\ OnHeap(g, h) = OnHeap(m, h)
  BY <1>1, <1>4, SetLenType
<1> HIDE DEF g
<1>7. /\ OnHeap(g, h) = OnHeap(s, h) /\ g.ptr[h] = s.ptr[h] /\ g.cap[h] = s.cap[h]
      /\ Capacity(g, h) = Capacity(s, h) /\ AsPtr(g, h) = a
  BY <1>5, <1>6 DEF OnHeap, Capacity, AsPtr
<1>8. Cells(g, h) = cells
  BY <1>2, <1>5, <1>6, <1>7 DEF Cells
<1> HIDE DEF a
<1>9. HandleOK(g, h) /\ Initialised(g, h)
  BY <1>5, <1>6, <1>7, <1>8 DEF Sound, HandleOK, Initialised, Item
<1>10. ASSUME NEW k \in Handles \ {h}
       PROVE  g.word[k] = s.word[k] /\ g.ptr[k] = s.ptr[k] /\ g.cap[k] = s.cap[k]
                /\ g.mem[k] = s.mem[k]
  <2>1. k # a
    BY RawAssumption DEF a, AsPtr, Sound, HandleOK
  <2> QED BY <1>2, <1>5, <1>6, <2>1
<1>11. \A q \in Ptrs : s.size[q] # 0 /\ ~(OnHeap(s, h) /\ s.ptr[h] = q)
                           => g.size[q] = s.size[q] /\ g.mem[q] = s.mem[q]
  <2>1. \A q \in Ptrs : ~(OnHeap(s, h) /\ s.ptr[h] = q) => q # a
    BY RawAssumption DEF a, AsPtr
  <2> QED BY <1>2, <1>5, <1>6, <2>1
<1>12. Sound(g) /\ \A k \in Handles \ {h} : SameItems(s, k, g, k) /\ Capacity(g, k) = Capacity(s, k)
  BY <1>6, <1>7, <1>9, <1>10, <1>11, FrameSound
<1> QED BY <1>3, <1>6, <1>7, <1>8, <1>12

(* Drop releases the block, and the handle is inert afterwards.            *)
LEMMA ReleasedSound ==
  ASSUME NEW s, Sound(s), NEW h \in Handles
  PROVE  LET g == Released(s, h)
         IN  /\ Sound(g)
             /\ LenOf(g, h) = 0 /\ ~OnHeap(g, h)
             /\ \A k \in Handles \ {h} : SameItems(s, k, g, k) /\ Capacity(g, k) = Capacity(s, k)
<1> DEFINE p == s.ptr[h]
           g == Released(s, h)
<1>1. CASE ~OnHeap(s, h)
  <2>1. g = NewInline(s, h)
    BY <1>1 DEF Released
  <2> QED BY <2>1, NewInlineSound
<1>2. CASE OnHeap(s, h)
  <2> DEFINE b == Dealloc(s, p)
             w == TaggedLen(0, FALSE)
             m == [b.mem EXCEPT ![h] = Blank]
  <2>1. s \in Storage /\ p \in Ptrs /\ h \notin Ptrs
    BY <1>2, RawAssumption DEF Sound, HandleOK
  <2>2. /\ b \in Storage
        /\ b.word = s.word /\ b.ptr = s.ptr /\ b.cap = s.cap
        /\ \A q \in Ptrs \ {p} : b.size[q] = s.size[q]
        /\ \A a \in (Handles \cup Ptrs) \ {p} : b.mem[a] = s.mem[a]
    BY <2>1, DeallocType
  <2>3. g = SetHandle(b, h, w, NullPtr, 0, m, b.size)
    BY <1>2 DEF Released, NewInline, SetInline
  <2>4. w = 0
    BY RawAssumption DEF TaggedLen
  <2> HIDE DEF b, w
  <2>5. m \in Memory /\ \A a \in (Handles \cup Ptrs) \ {h} : m[a] = b.mem[a]
    BY <2>2, BlankType DEF Storage, Memory
  <2> HIDE DEF m, g
  <2>6. /\ g \in Storage
        /\ g.word[h] = 0 /\ g.ptr[h] = NullPtr /\ g.cap[h] = 0
        /\ g.mem = m /\ g.size = b.size
        /\ \A k \in Handles \ {h} :
             g.word[k] = b.word[k] /\ g.ptr[k] = b.ptr[k] /\ g.cap[k] = b.cap[k]
    BY <2>2, <2>3, <2>4, <2>5, RawAssumption DEF SetHandle, Storage
  <2>7. LenOf(g, h) = 0 /\ ~OnHeap(g, h) /\ Capacity(g, h) = InlineSize[h]
    BY <2>6 DEF LenOf, OnHeap, Capacity
  <2>8. HandleOK(g, h) /\ Initialised(g, h)
    BY <2>6, <2>7, RawAssumption DEF HandleOK, Initialised
  <2>9. \A k \in Handles \ {h} :
             g.word[k] = s.word[k] /\ g.ptr[k] = s.ptr[k] /\ g.cap[k] = s.cap[k]
               /\ g.mem[k] = s.mem[k]
    BY <2>1, <2>2, <2>5, <2>6, RawAssumption
  <2>10. \A q \in Ptrs : s.size[q] # 0 /\ ~(OnHeap(s, h) /\ s.ptr[h] = q)
                           => g.size[q] = s.size[q] /\ g.mem[q] = s.mem[q]
    BY <1>2, <2>1, <2>2, <2>5, <2>6
  <2>11. Sound(g) /\ \A k \in Handles \ {h} : SameItems(s, k, g, k) /\ Capacity(g, k) = Capacity(s, k)
    BY <2>6, <2>7, <2>8, <2>9, <2>10, FrameSound
  <2> QED BY <2>7, <2>11 DEF g
<1> QED BY <1>1, <1>2

(* from_vec and into_vec: the allocation changes its owner.                *)
LEMMA HandOverSound ==
  ASSUME NEW s, Sound(s), NEW h \in Handles, OnHeap(s, h), NEW k \in Handles \ {h}
  PROVE  LET g == HandOver(s, h, k)
         IN  /\ Sound(g)
             /\ LenOf(g, h) = 0 /\ ~OnHeap(g, h)
             /\ SameItems(s, h, g, k) /\ OnHeap(g, k) /\ Capacity(g, k) = Capacity(s, h)
             /\ \A l \in Handles \ {h, k} : SameItems(s, l, g, l) /\ Capacity(g, l) = Capacity(s, l)
<1> DEFINE b == SetHandle(s, k, s.word[h], s.ptr[h], s.cap[h], s.mem, s.size)
           w == TaggedLen(0, FALSE)
           m == [b.mem EXCEPT ![h] = Blank]
           g == SetHandle(b, h, w, NullPtr, 0, m, b.size)
<1>1. g = HandOver(s, h, k)
  BY DEF HandOver, NewInline, SetInline
<1>2. w = 0
  BY RawAssumption DEF TaggedLen
<1> HIDE DEF w
<1>3. s \in Storage /\ s.ptr[h] \in Ptrs /\ h \notin Ptrs
  BY RawAssumption DEF Sound, HandleOK
<1>4. /\ b \in Storage
      /\ b.word[k] = s.word[h] /\ b.ptr[k] = s.ptr[h] /\ b.cap[k] = s.cap[h]
      /\ b.mem = s.mem /\ b.size = s.size
      /\ \A l \in Handles \ {k} :
           b.word[l] = s.word[l] /\ b.ptr[l] = s.ptr[l] /\ b.cap[l] = s.cap[l]
  BY <1>3 DEF SetHandle, Storage, Memory, BlockSizes
<1> HIDE DEF b
<1>5. m \in Memory /\ \A a \in (Handles \cup Ptrs) \ {h} : m[a] = b.mem[a]
  BY <1>4, BlankType DEF Storage, Memory
<1> HIDE DEF m
<1>6. /\ g \in Storage
      /\ g.word[h] = 0 /\ g.ptr[h] = NullPtr /\ g.cap[h] = 0
      /\ g.mem = m /\ g.size = b.size
      /\ \A l \in Handles \ {h} :
           g.word[l] = b.word[l] /\ g.ptr[l] = b.ptr[l] /\ g.cap[l] = b.cap[l]
  BY <1>2, <1>4, <1>5, RawAssumption DEF SetHandle, Storage
<1> HIDE DEF g
<1>7. LenOf(g, h) = 0 /\ ~OnHeap(g, h) /\ Capacity(g, h) = InlineSize[h]
  BY <1>6 DEF LenOf, OnHeap, Capacity
<1>8. HandleOK(g, h) /\ Initialised(g, h)
  BY <1>6, <1>7, RawAssumption DEF HandleOK, Initialised
<1>9. LenOf(g, k) = LenOf(s, h) /\ OnHeap(g, k) /\ Capacity(g, k) = Capacity(s, h)
      /\ Cells(g, k) = Cells(s, h)
  BY <1>3, <1>4, <1>5, <1>6 DEF LenOf, OnHeap, Capacity, Cells, AsPtr
<1>10. HandleOK(g, k) /\ Initialised(g, k) /\ SameItems(s, h, g, k)
  BY <1>3, <1>4, <1>6, <1>9 DEF Sound, HandleOK, Initialised, Item, SameItems
<1>11. ASSUME NEW l \in Handles \ {h, k}
       PROVE  /\ OnHeap(g, l) = OnHeap(s, l)
              /\ LenOf(g, l) = LenOf(s, l)
              /\ Capacity(g, l) = Capacity(s, l)
              /\ g.ptr[l] = s.ptr[l]
              /\ HandleOK(g, l) /\ Initialised(g, l) /\ SameItems(s, l, g, l)
  <2>1. /\ OnHeap(g, l) = OnHeap(s, l)
        /\ LenOf(g, l) = LenOf(s, l)
        /\ Capacity(g, l) = Capacity(s, l)
        /\ AsPtr(g, l) = AsPtr(s, l)
        /\ g.ptr[l] = s.ptr[l] /\ g.cap[l] = s.cap[l] /\ g.size = s.size
    BY <1>4, <1>6 DEF OnHeap, LenOf, Capacity, AsPtr
  <2>2. AsPtr(s, l) \in (Handles \cup Ptrs) \ {h}
    BY <1>3 DEF Sound, HandleOK, AsPtr
  <2>3. Cells(g, l) = Cells(s, l)
    BY <1>4, <1>5, <1>6, <2>1, <2>2 DEF Cells
  <2> QED BY <2>1, <2>3 DEF Sound, HandleOK, Initialised, Item, SameItems
<1>12. \A a, l \in Handles :
          a # l /\ OnHeap(g, a) /\ OnHeap(g, l) => g.ptr[a] # g.ptr[l]
  <2>1. g.ptr[k] = s.ptr[h]
    BY <1>4, <1>6
  <2> QED BY <1>7, <1>11, <2>1 DEF Sound
<1>13. Sound(g)
  BY <1>6, <1>8, <1>10, <1>11, <1>12 DEF Sound
<1> QED BY <1>1, <1>7, <1>9, <1>10, <1>11, <1>13

----------------------------------------------------------------------------
(* The state machine.                                                      *)

IInv ==
  /\ Sound(store)
  /\ live \subseteq Handles
  /\ caller \subseteq Elems
  /\ dropped \subseteq Elems

----------------------------------------------------------------------------
(* Arguments.                                                              *)

(* Arguments are elements the program holds.                               *)
LEMMA ArrayFacts ==
  ASSUME caller \subseteq Elems, NEW m \in Nat, NEW f \in Arrays(m)
  PROVE  /\ \A i \in 0 .. m - 1 : f[i] \in caller
         /\ Taken(f, m) \subseteq caller
  BY DEF Arrays, Taken

(* An array argument, laid out in cells.                                   *)
LEMMA FilledType ==
  ASSUME caller \subseteq Elems, NEW m \in Nat, NEW f \in Arrays(m),
         NEW n \in Nat, n <= m, n <= MaxCap
  PROVE  /\ Filled(f, n) \in Block
         /\ \A i \in 0 .. n - 1 : Filled(f, n)[i] = f[i] /\ Filled(f, n)[i] \in Elems
<1>1. \A i \in 0 .. m - 1 : f[i] \in Elems
  BY ArrayFacts
<1> QED BY <1>1, RawAssumption DEF Filled, Block, Slots, Cell

(* The elements of a handle.                                               *)
LEMMA OwnedType ==
  ASSUME NEW s, Sound(s), NEW h \in Handles
  PROVE  Owned(s, h) \subseteq Elems
  BY DEF Sound, Initialised, Owned

----------------------------------------------------------------------------
(* No vector is live: every handle is inert.                               *)
LEMMA InitInv == Init => IInv
<1> SUFFICES ASSUME Init PROVE IInv
  OBVIOUS
<1>1. store \in Storage
  BY BlankType, RawAssumption DEF Init, Storage, Memory, BlockSizes
<1>2. ASSUME NEW h \in Handles
      PROVE  LenOf(store, h) = 0 /\ ~OnHeap(store, h) /\ store.ptr[h] = NullPtr
  BY DEF Init, LenOf, OnHeap
<1>3. ASSUME NEW h \in Handles
      PROVE  HandleOK(store, h) /\ Initialised(store, h)
  <2>1. Capacity(store, h) \in Nat
    BY <1>2, RawAssumption DEF Capacity
  <2>2. HandleOK(store, h)
    BY <1>2, <2>1 DEF HandleOK
  <2>3. Initialised(store, h)
    BY <1>2 DEF Initialised
  <2> QED BY <2>2, <2>3
<1> QED BY <1>1, <1>2, <1>3 DEF Init, IInv, Sound

----------------------------------------------------------------------------
(* Construction and conversion.                                            *)

(* Constructors that take nothing from another vector.                     *)
LEMMA ConstructInv ==
  ASSUME IInv, NEW h \in Handles, NEW n \in Nat,
         \/ New(h) \/ NewWithCapacity(h, n) \/ FromBuf(h, n) \/ FromBufAndLen(h, n)
         \/ FromBufAndLenPanics(h, n) \/ FromArray(h, n)
  PROVE  IInv'
<1>1. InlineSize[h] \in 0 .. MaxCap /\ InlineSize[h] \in Nat
  BY RawAssumption
<1>2. /\ Sound(NewInline(store, h))
      /\ LenOf(NewInline(store, h), h) = 0
      /\ Capacity(NewInline(store, h), h) = InlineSize[h]
      /\ NewInline(store, h).size = store.size
  BY NewInlineSound DEF IInv
<1>3. CASE New(h)
  BY <1>2, <1>3 DEF New, Construct, SmallVecs, IInv
<1>4. CASE NewWithCapacity(h, n)
  BY <1>4, WithCapacitySound DEF NewWithCapacity, Construct, SmallVecs, IInv
<1>5. CASE FromBuf(h, n)
  <2>1. PICK f \in Arrays(n) : store' = Edited(NewInline(store, h), h, Filled(f, n), n)
                               /\ caller' = caller \ Taken(f, n)
    BY <1>5 DEF FromBuf
  <2>2. n <= InlineSize[h] /\ n <= MaxCap
    BY <1>1, <1>5, RawAssumption DEF FromBuf
  <2>3. Filled(f, n) \in Block /\ \A i \in 0 .. n - 1 : Filled(f, n)[i] \in Elems
    BY <2>2, FilledType DEF IInv
  <2>4. Sound(store')
    BY <1>2, <2>1, <2>2, <2>3, EditedSound
  <2> QED BY <1>5, <2>1, <2>4 DEF FromBuf, Construct, SmallVecs, IInv
<1>6. CASE FromBufAndLen(h, n)
  <2>1. PICK f \in Arrays(InlineSize[h]) :
           /\ store' = Edited(NewInline(store, h), h, Filled(f, n), n)
           /\ caller' = caller \ Taken(f, InlineSize[h])
           /\ dropped' = dropped \cup {f[i] : i \in n .. InlineSize[h] - 1}
    BY <1>6 DEF FromBufAndLen
  <2>2. n <= InlineSize[h] /\ n <= MaxCap
    BY <1>1, <1>6, RawAssumption DEF FromBufAndLen
  <2>3. Filled(f, n) \in Block /\ \A i \in 0 .. n - 1 : Filled(f, n)[i] \in Elems
    BY <1>1, <2>2, FilledType DEF IInv
  <2>4. Sound(store')
    BY <1>2, <2>1, <2>2, <2>3, EditedSound
  <2>5. \A i \in n .. InlineSize[h] - 1 : f[i] \in Elems
    BY <1>1, ArrayFacts DEF IInv
  <2> QED BY <1>6, <2>1, <2>4, <2>5 DEF FromBufAndLen, Construct, SmallVecs, IInv
<1>7. CASE FromBufAndLenPanics(h, n)
  <2>1. PICK f \in Arrays(InlineSize[h]) :
           /\ caller' = caller \ Taken(f, InlineSize[h])
           /\ dropped' = dropped \cup Taken(f, InlineSize[h])
    BY <1>7 DEF FromBufAndLenPanics
  <2>2. Taken(f, InlineSize[h]) \subseteq Elems
    BY <1>1, ArrayFacts DEF IInv
  <2> QED BY <1>7, <2>1, <2>2 DEF FromBufAndLenPanics, IInv
<1>8. CASE FromArray(h, n)
  <2> DEFINE m == NewInline(store, h)
  <2>1. PICK f \in Arrays(n), p \in FreePtrs(store) :
           /\ store' = SetLen(SetOnHeap(NewHeap(m, h, p, n, Filled(f, n)), h), h, n)
           /\ caller' = caller \ Taken(f, n)
    BY <1>8 DEF FromArray
  <2>2. n \in 1 .. MaxCap
    BY <1>1, <1>8, RawAssumption DEF FromArray
  <2>3. Filled(f, n) \in Block /\ \A i \in 0 .. n - 1 : Filled(f, n)[i] \in Elems
    BY <2>2, FilledType, RawAssumption DEF IInv
  <2>4. p \in Ptrs /\ m.size[p] = 0
    BY <1>2 DEF FreePtrs
  <2>5. m \in Storage /\ LenOf(m, h) = 0
    BY <1>2 DEF Sound
  <2> DEFINE cells == Filled(f, n)
             x == SetOnHeap(NewHeap(m, h, p, n, cells), h)
  <2> HIDE DEF m, cells
  <2>6. Sound(x) /\ Capacity(x, h) = n /\ Cells(x, h) = cells
    <3>1. Sound(m)
      BY <1>2 DEF m
    <3>2. \A i \in 0 .. LenOf(m, h) - 1 : cells[i] = Item(m, h, i)
      BY <2>5
    <3>3. LenOf(m, h) <= n /\ cells \in Block
      BY <2>2, <2>3, <2>5 DEF cells
    <3> QED BY <2>2, <2>4, <2>5, <3>1, <3>2, <3>3, NewHeapSound
  <2> HIDE DEF x
  <2>7. \A i \in 0 .. n - 1 : Item(x, h, i) \in Elems
    BY <2>3, <2>6 DEF Item, cells
  <2>8. n <= Capacity(x, h) /\ n \in Nat
    BY <2>2, <2>6
  <2>9. store' = SetLen(x, h, n)
    BY <2>1 DEF x, cells
  <2>10. Sound(store')
    BY <2>6, <2>7, <2>8, <2>9, SetLenSound
  <2> QED BY <1>8, <2>1, <2>10 DEF FromArray, Construct, SmallVecs, IInv
<1> QED BY <1>3, <1>4, <1>5, <1>6, <1>7, <1>8

(* Exchanges between a SmallVec and the program's Vec.                     *)
LEMMA ExchangeInv ==
  ASSUME IInv, NEW h \in Handles, NEW c \in Nat, NEW n \in Nat,
         VecNew(c, n) \/ FromVec(h) \/ FromRawParts(h) \/ IntoVec(h) \/ Leak(h)
  PROVE  IInv'
<1>1. Std \in Handles /\ (Capacity(store, Std) # 0 => OnHeap(store, Std)) /\ Sound(store)
  BY StdAssumption DEF Capacity, IInv
<1>2. CASE VecNew(c, n)
  <2>1. PICK f \in Arrays(n), s \in WithCapacity(store, Std, c) :
           store' = Edited(s, Std, Filled(f, n), n) /\ caller' = caller \ Taken(f, n)
    BY <1>2 DEF VecNew
  <2>2. Sound(s) /\ c <= Capacity(s, Std)
    BY <1>1, <2>1, WithCapacitySound
  <2>3. n <= Capacity(s, Std) /\ n <= MaxCap
    <3>1. n <= c
      BY <1>2 DEF VecNew
    <3>2. Capacity(s, Std) \in 0 .. MaxCap
      BY <1>1, <2>2, SoundLen
    <3> QED BY <2>2, <3>1, <3>2, RawAssumption
  <2>4. Filled(f, n) \in Block /\ \A i \in 0 .. n - 1 : Filled(f, n)[i] \in Elems
    BY <2>3, FilledType DEF IInv
  <2>5. Sound(store')
    BY <1>1, <2>1, <2>2, <2>3, <2>4, EditedSound
  <2> QED BY <1>1, <1>2, <2>1, <2>5 DEF VecNew, IInv
<1>3. CASE FromVec(h)
  <2>1. h \in Handles \ {Std}
    BY <1>3 DEF FromVec, SmallVecs
  <2>2. Sound(store')
    <3>1. CASE Capacity(store, Std) = 0
      BY <1>1, <1>3, <3>1, NewInlineSound DEF FromVec
    <3>2. CASE Capacity(store, Std) # 0
      BY <1>1, <1>3, <2>1, <3>2, HandOverSound DEF FromVec
    <3> QED BY <3>1, <3>2
  <2> QED BY <1>3, <2>1, <2>2 DEF FromVec, IInv
<1>4. CASE FromRawParts(h)
  <2>1. h \in Handles \ {Raw} /\ Raw \in Handles /\ OnHeap(store, Raw)
    BY <1>4, StdAssumption DEF FromRawParts, SmallVecs
  <2>2. Sound(store')
    BY <1>1, <1>4, <2>1, HandOverSound DEF FromRawParts
  <2> QED BY <1>4, <2>1, <2>2 DEF FromRawParts, IInv
<1>5. CASE Leak(h)
  <2>1. Raw \in Handles \ {h}
    BY <1>5, StdAssumption DEF Leak, SmallVecs
  <2>2. Sound(store')
    BY <1>1, <1>5, <2>1, HandOverSound DEF Leak
  <2> QED BY <1>1, <1>5, <2>1, <2>2 DEF Leak, IInv
<1>6. CASE IntoVec(h)
  <2>1. Std \in Handles \ {h}
    BY <1>1, <1>6 DEF IntoVec, SmallVecs
  <2>2. CASE OnHeap(store, h)
    <3>1. Sound(store')
      BY <1>1, <1>6, <2>1, <2>2, HandOverSound DEF IntoVec
    <3> QED BY <1>1, <1>6, <3>1 DEF IntoVec, IInv
  <2>3. CASE ~OnHeap(store, h)
    <3> DEFINE len == LenOf(store, h)
    <3>1. PICK s \in WithCapacity(store, Std, len) :
             store' = NewInline(
                        Edited(s, Std, Copy(Cells(s, h), 0, Cells(s, Std), 0, LenOf(s, h)),
                               LenOf(s, h)), h)
      BY <1>6, <2>3 DEF IntoVec
    <3>2. len \in 0 .. MaxCap /\ len \in Nat
      BY <1>1, SoundLen, RawAssumption
    <3>3. Sound(s) /\ len <= Capacity(s, Std) /\ SameItems(store, h, s, h)
      BY <1>1, <2>1, <3>2, WithCapacitySound
    <3> DEFINE src == Cells(s, h)
               dst == Cells(s, Std)
               cells == Copy(src, 0, dst, 0, len)
    <3>4. src \in Block /\ dst \in Block /\ LenOf(s, h) = len
          /\ \A i \in 0 .. len - 1 : src[i] \in Elems
      BY <1>1, <3>3, SoundLen DEF SameItems, Sound, Initialised, Item
    <3>5. store' = NewInline(Edited(s, Std, cells, len), h)
      BY <3>1, <3>4
    <3> HIDE DEF src, dst, len
    <3>6. cells \in Block /\ \A i \in 0 .. len - 1 : cells[i] \in Elems
      BY <3>2, <3>4, RawAssumption DEF Copy, Block, Slots
    <3> HIDE DEF cells
    <3>7. Sound(Edited(s, Std, cells, len))
      BY <1>1, <3>2, <3>3, <3>6, EditedSound
    <3>8. Sound(store')
      BY <3>5, <3>7, NewInlineSound
    <3> QED BY <1>1, <1>6, <3>8 DEF IntoVec, IInv
  <2> QED BY <2>2, <2>3
<1> QED BY <1>2, <1>3, <1>4, <1>5, <1>6

(* Ends of life: drop, leak, into_inner.                                   *)
LEMMA ReleaseInv ==
  ASSUME IInv, NEW h \in Handles, LeakPanics(h) \/ IntoInner(h) \/ DropVec(h)
  PROVE  IInv'
<1>1. Sound(store) /\ Owned(store, h) \subseteq Elems
  BY OwnedType DEF IInv
<1>2. CASE Discard(h)
  <2>1. Sound(store')
    BY <1>1, <1>2, ReleasedSound DEF Discard
  <2> QED BY <1>1, <1>2, <2>1 DEF Discard, IInv
<1>3. CASE IntoInner(h)
  <2>1. 0 <= Capacity(store, h) /\ 0 \in Nat /\ \A i \in 0 .. 0 - 1 : Item(store, h, i) \in Elems
    BY <1>1, SoundLen, RawAssumption
  <2>2. Sound(SetLen(store, h, 0))
    BY <1>1, <2>1, SetLenSound
  <2>3. Sound(store')
    BY <1>3, <2>2, ReleasedSound DEF IntoInner
  <2> QED BY <1>1, <1>3, <2>3 DEF IntoInner, IInv
<1> QED BY <1>2, <1>3 DEF LeakPanics, DropVec

----------------------------------------------------------------------------
(* Elements in and out.                                                    *)

(* Taking element i out: the cells below i stay, those above close the gap.*)
LEMMA TakeOutInv ==
  ASSUME IInv, NEW h \in Handles, NEW i \in Nat, NEW from \in Nat, NEW n \in Nat,
         i < LenOf(store, h), TakeOut(h, i, from, n),
         from + n <= LenOf(store, h),
         \/ n = 0 /\ i = LenOf(store, h) - 1
         \/ n = 1 /\ from = LenOf(store, h) - 1
         \/ from = i + 1 /\ n = LenOf(store, h) - 1 - i
  PROVE  IInv'
<1> DEFINE len   == LenOf(store, h)
           src   == Cells(store, h)
           wiped == Wipe(src, i, 1)
           cells == Shift(wiped, from, i, n)
<1>1. /\ len \in 0 .. MaxCap /\ len <= Capacity(store, h) /\ Capacity(store, h) \in 0 .. MaxCap
      /\ src \in Block /\ \A j \in 0 .. len - 1 : src[j] \in Elems
  BY SoundLen DEF IInv, Sound, Initialised, Item
<1>2. /\ i < len /\ from + n <= len
      /\ \/ n = 0 /\ i = len - 1
         \/ n = 1 /\ from = len - 1
         \/ from = i + 1 /\ n = len - 1 - i
      /\ store' = Edited(store, h, cells, len - 1)
      /\ live' = live /\ dropped' = dropped /\ caller' = caller \cup {Item(store, h, i)}
      /\ src[i] = Item(store, h, i)
  BY DEF TakeOut, Item
<1> HIDE DEF len, src
<1>3. wiped \in Block /\ \A j \in Slots : wiped[j] = IF j = i THEN Uninit ELSE src[j]
  BY <1>1 DEF Wipe, Block, Cell
<1> HIDE DEF wiped
<1>4. from + n <= MaxCap
  BY <1>1, <1>2, RawAssumption
<1>5. cells \in Block /\ \A j \in Slots :
         cells[j] = IF j \in i .. i + n - 1 THEN wiped[j - i + from]
                    ELSE IF j \in from .. from + n - 1 THEN Uninit ELSE wiped[j]
  BY <1>3, <1>4, ShiftType
<1> HIDE DEF cells
<1>6. \A j \in 0 .. len - 2 : cells[j] \in Elems
  <2> SUFFICES ASSUME NEW j \in 0 .. len - 2 PROVE cells[j] \in Elems
    OBVIOUS
  <2>1. j \in Slots /\ \A l \in 0 .. len - 1 : l \in Slots
    BY <1>1, RawAssumption DEF Slots
  <2>2. \A l \in 0 .. len - 1 : l # i => wiped[l] \in Elems
    BY <1>1, <1>3, <2>1
  <2>3. CASE j \in i .. i + n - 1
    <3>1. j - i + from \in 0 .. len - 1 /\ j - i + from # i
      BY <1>1, <1>2, <2>3
    <3> QED BY <1>5, <2>1, <2>2, <2>3, <3>1
  <2>4. CASE j \notin i .. i + n - 1
    <3>1. j \notin from .. from + n - 1 /\ j # i /\ j \in 0 .. len - 1
      BY <1>1, <1>2, <2>4
    <3>2. cells[j] = wiped[j]
      BY <1>5, <2>1, <2>4, <3>1
    <3> QED BY <2>2, <3>1, <3>2
  <2> QED BY <2>3, <2>4
<1>7. Sound(store')
  <2> DEFINE m == len - 1
  <2>1. m \in Nat /\ m <= Capacity(store, h) /\ \A j \in 0 .. m - 1 : cells[j] \in Elems
    BY <1>1, <1>2, <1>6
  <2>2. store' = Edited(store, h, cells, m)
    BY <1>2
  <2> HIDE DEF m
  <2> QED BY <1>5, <2>1, <2>2, EditedSound DEF IInv
<1> QED BY <1>1, <1>2, <1>7 DEF IInv

(* push, whether it grows or panics.                                       *)
LEMMA PushInv ==
  ASSUME IInv, NEW h \in Handles, Push(h) \/ PushPanics(h)
  PROVE  IInv'
<1>1. CASE PushPanics(h)
  BY <1>1 DEF PushPanics, DropArgument, IInv
<1>2. CASE Push(h)
  <2> DEFINE len   == LenOf(store, h)
             grown == IF len = Capacity(store, h) THEN Reserve(store, h, 1) ELSE {store}
  <2>1. PICK e \in caller, s \in grown :
           /\ store' = Edited(s, h, [Cells(s, h) EXCEPT ![len] = e], len + 1)
           /\ caller' = caller \ {e}
    BY <1>2 DEF Push
  <2>2. len \in Nat /\ len <= Capacity(store, h) /\ Capacity(store, h) \in Nat
    BY SoundLen, RawAssumption DEF IInv
  <2>3. Sound(s) /\ LenOf(s, h) = len /\ len + 1 <= Capacity(s, h)
    <3>1. CASE len = Capacity(store, h)
      <4>1. s \in Reserve(store, h, 1)
        BY <2>1, <3>1
      <4>2. 1 \in Nat
        OBVIOUS
      <4>3. Resized(store, s, h) /\ Capacity(s, h) >= LenOf(s, h) + 1
        BY <4>1, <4>2, ReserveSound DEF IInv
      <4>4. Capacity(s, h) \in Nat
        BY <4>3, SoundLen, RawAssumption DEF Resized
      <4> QED BY <2>2, <4>3, <4>4, ResizedLen DEF Resized
    <3>2. CASE len # Capacity(store, h)
      BY <2>1, <2>2, <3>2 DEF IInv
    <3> QED BY <3>1, <3>2
  <2> DEFINE src == Cells(s, h)
             cells == [src EXCEPT ![len] = e]
             m == len + 1
  <2>4. src \in Block /\ (\A i \in 0 .. len - 1 : src[i] \in Elems) /\ Capacity(s, h) \in 0 .. MaxCap
    BY <2>3, SoundLen DEF Sound, Initialised, Item
  <2>5. store' = Edited(s, h, cells, m)
    BY <2>1
  <2>6. e \in Elems
    BY <2>1 DEF IInv
  <2> HIDE DEF src, len
  <2>7. cells \in Block /\ \A i \in 0 .. m - 1 : cells[i] \in Elems
    BY <2>2, <2>3, <2>4, <2>6, RawAssumption DEF Block, Slots, Cell
  <2>8. m \in Nat /\ m <= Capacity(s, h)
    BY <2>2, <2>3
  <2> HIDE DEF cells, m
  <2>9. Sound(store')
    BY <2>3, <2>5, <2>7, <2>8, EditedSound
  <2> QED BY <1>2, <2>1, <2>9 DEF Push, IInv
<1> QED BY <1>1, <1>2

(* insert, whether it grows or panics.                                     *)
LEMMA InsertInv ==
  ASSUME IInv, NEW h \in Handles, NEW i \in Nat, Insert(h, i) \/ InsertPanics(h, i)
  PROVE  IInv'
<1>1. CASE InsertPanics(h, i)
  BY <1>1 DEF InsertPanics, DropArgument, IInv
<1>2. CASE Insert(h, i)
  <2>1. PICK e \in caller, s \in Reserve(store, h, 1) :
           /\ store' = Edited(s, h, [Shift(Cells(s, h), i, i + 1, LenOf(s, h) - i) EXCEPT ![i] = e],
                              LenOf(s, h) + 1)
           /\ caller' = caller \ {e}
    BY <1>2 DEF Insert
  <2>2. 1 \in Nat
    OBVIOUS
  <2>3. Resized(store, s, h) /\ Capacity(s, h) >= LenOf(s, h) + 1
    BY <2>1, <2>2, ReserveSound DEF IInv
  <2> DEFINE len   == LenOf(s, h)
             src   == Cells(s, h)
             n     == len - i
             up    == i + 1
             moved == Shift(src, i, up, n)
             cells == [moved EXCEPT ![i] = e]
             m     == len + 1
  <2>4. /\ Sound(s) /\ len = LenOf(store, h) /\ len \in Nat
        /\ src \in Block /\ (\A j \in 0 .. len - 1 : src[j] \in Elems)
        /\ Capacity(s, h) \in 0 .. MaxCap /\ m <= Capacity(s, h)
    BY <2>3, ResizedLen, SoundLen, RawAssumption DEF Resized, Sound, Initialised, Item
  <2>5. store' = Edited(s, h, cells, m) /\ e \in Elems
    BY <2>1 DEF IInv
  <2>6. i <= len
    BY <1>2, <2>4 DEF Insert
  <2> HIDE DEF len, src
  <2>7. n \in Nat /\ i + n = len /\ len < MaxCap /\ up \in Nat /\ m \in Nat /\ m <= Capacity(s, h)
    BY <2>4, <2>6, RawAssumption
  <2>8. moved \in Block /\ \A j \in Slots : moved[j] =
           IF j \in up .. up + n - 1 THEN src[j - up + i]
           ELSE IF j \in i .. i + n - 1 THEN Uninit ELSE src[j]
    <3>1. i + n <= MaxCap
      BY <2>4, <2>7, RawAssumption
    <3> HIDE DEF n, up, m
    <3>2. ShiftedFrom(src, moved, i, up, n)
      BY <2>4, <2>7, <3>1, ShiftIs
    <3> QED BY <3>2 DEF ShiftedFrom
  <2> HIDE DEF moved
  <2>9. cells \in Block /\ cells[i] = e /\ \A j \in Slots \ {i} : cells[j] = moved[j]
    BY <2>5, <2>6, <2>7, <2>8, RawAssumption DEF Block, Slots, Cell
  <2> HIDE DEF cells
  <2>10. ASSUME NEW j \in 0 .. m - 1
         PROVE  cells[j] \in Elems
    <3>1. j \in Slots /\ j \in Int
      BY <2>4, <2>7, RawAssumption DEF Slots
    <3>2. CASE j = i
      BY <2>5, <2>9, <3>2
    <3>3. CASE j < i
      <4>1. cells[j] = src[j] /\ j \in 0 .. len - 1
        BY <2>6, <2>7, <2>8, <2>9, <3>1, <3>3
      <4> QED BY <2>4, <4>1
    <3>4. CASE j > i
      <4>1. cells[j] = src[j - 1] /\ j - 1 \in 0 .. len - 1
        BY <2>6, <2>7, <2>8, <2>9, <3>1, <3>4
      <4> QED BY <2>4, <4>1
    <3> QED BY <3>1, <3>2, <3>3, <3>4
  <2> HIDE DEF m
  <2>11. Sound(store')
    BY <2>4, <2>5, <2>7, <2>9, <2>10, EditedSound
  <2> QED BY <1>2, <2>1, <2>11 DEF Insert, IInv
<1> QED BY <1>1, <1>2

(* pop, remove and swap_remove.                                            *)
LEMMA RemoveInv ==
  ASSUME IInv, NEW h \in Handles, NEW i \in Nat, Pop(h) \/ Remove(h, i) \/ SwapRemove(h, i)
  PROVE  IInv'
<1> DEFINE len == LenOf(store, h)
<1>1. len \in Nat
  BY SoundLen, RawAssumption DEF IInv
<1>2. CASE Pop(h)
  <2>1. TakeOut(h, len - 1, len, 0) /\ len > 0
    BY <1>2 DEF Pop
  <2> DEFINE at == len - 1
             none == 0
  <2>2. /\ at \in Nat /\ none \in Nat /\ at < len /\ none = 0 /\ at = len - 1
        /\ len + none <= len /\ TakeOut(h, at, len, none)
    BY <1>1, <2>1
  <2> HIDE DEF at, none
  <2> QED BY <1>1, <2>2, TakeOutInv
<1>3. CASE Remove(h, i)
  <2> DEFINE from == i + 1
             n == len - 1 - i
  <2>1. TakeOut(h, i, from, n) /\ i < len
    BY <1>3 DEF Remove
  <2>2. from \in Nat /\ n \in Nat /\ from + n <= len /\ from = i + 1 /\ n = len - 1 - i
    BY <1>1, <2>1
  <2> HIDE DEF from, n
  <2> QED BY <1>1, <2>1, <2>2, TakeOutInv
<1>4. CASE SwapRemove(h, i)
  <2> DEFINE from == len - 1
             one == 1
  <2>1. TakeOut(h, i, from, one) /\ i < len
    BY <1>4 DEF SwapRemove
  <2>2. from \in Nat /\ one \in Nat /\ from + one <= len /\ from = len - 1 /\ one = 1
    BY <1>1, <2>1
  <2> HIDE DEF from, one
  <2> QED BY <1>1, <2>1, <2>2, TakeOutInv
<1> QED BY <1>2, <1>3, <1>4

(* Cutting h to n elements, whichever buffer the others hold.              *)
LEMMA CutSound ==
  ASSUME NEW s, Sound(s), NEW h \in Handles, NEW n \in Nat, n <= LenOf(s, h)
  PROVE  LET g == Edited(s, h, Wipe(Cells(s, h), n, LenOf(s, h) - n), n)
         IN  /\ Sound(g)
             /\ LenOf(g, h) = n /\ OnHeap(g, h) = OnHeap(s, h)
             /\ \A k \in Handles : Capacity(g, k) = Capacity(s, k)
             /\ \A k \in Handles \ {h} : SameItems(s, k, g, k)
             /\ \A i \in 0 .. n - 1 : Item(g, h, i) = Item(s, h, i)
<1> DEFINE len   == LenOf(s, h)
           src   == Cells(s, h)
           rest  == len - n
           cells == Wipe(src, n, rest)
           g     == Edited(s, h, cells, n)
<1>1. /\ len \in 0 .. MaxCap /\ len <= Capacity(s, h) /\ Capacity(s, h) \in 0 .. MaxCap
      /\ src \in Block /\ \A j \in 0 .. len - 1 : src[j] \in Elems
  BY SoundLen DEF Sound, Initialised, Item
<1>2. n <= len
  OBVIOUS
<1> HIDE DEF len, src
<1>3. cells \in Block /\ \A j \in 0 .. n - 1 : cells[j] = src[j] /\ cells[j] \in Elems
  <2>1. rest \in Int
    BY <1>1
  <2> HIDE DEF rest
  <2>2. cells \in Block /\ \A j \in Slots : cells[j] =
           IF j \in n .. n + rest - 1 THEN Uninit ELSE src[j]
    BY <1>1, <2>1, WipeType
  <2>3. \A j \in 0 .. n - 1 : j \in Slots /\ j \in 0 .. len - 1 /\ j \notin n .. n + rest - 1
    BY <1>1, <1>2, <2>1, RawAssumption DEF Slots
  <2> QED BY <1>1, <2>2, <2>3
<1>4. n <= Capacity(s, h)
  BY <1>1, <1>2
<1> HIDE DEF cells
<1>5. /\ Sound(g)
      /\ LenOf(g, h) = n /\ Cells(g, h) = cells
      /\ OnHeap(g, h) = OnHeap(s, h)
      /\ \A k \in Handles : Capacity(g, k) = Capacity(s, k)
      /\ \A k \in Handles \ {h} : SameItems(s, k, g, k)
  BY <1>3, <1>4, EditedSound
<1> HIDE DEF g
<1>6. \A i \in 0 .. n - 1 : Item(g, h, i) = Item(s, h, i)
  BY <1>3, <1>5 DEF Item, src
<1> QED BY <1>5, <1>6 DEF g, cells, rest, len, src

(* truncate and clear.                                                     *)
LEMMA CutInv ==
  ASSUME IInv, NEW h \in Handles, NEW n \in Nat, Truncate(h, n) \/ Clear(h)
  PROVE  IInv'
<1>1. LenOf(store, h) \in Nat /\ \A i \in 0 .. LenOf(store, h) - 1 : Item(store, h, i) \in Elems
  BY SoundLen, RawAssumption DEF IInv, Sound, Initialised
<1>2. PICK m \in Nat : m <= LenOf(store, h) /\ CutTo(h, m)
  BY <1>1 DEF Truncate, Clear
<1>3. Sound(store')
  BY <1>2, CutSound DEF CutTo, IInv
<1>4. {Item(store, h, i) : i \in m .. LenOf(store, h) - 1} \subseteq Elems
  BY <1>1, <1>2
<1> QED BY <1>2, <1>3, <1>4 DEF CutTo, IInv

----------------------------------------------------------------------------
(* Two vectors.                                                            *)

(* n items of k, from i, land behind the items of h.                       *)
LEMMA AppendedType ==
  ASSUME NEW src \in Block, NEW i \in Nat, NEW dst \in Block, NEW at \in Nat, NEW n \in Nat,
         i + n <= MaxCap, at + n <= MaxCap,
         \A j \in i .. i + n - 1 : src[j] \in Elems,
         \A j \in 0 .. at - 1 : dst[j] \in Elems
  PROVE  /\ Copy(src, i, dst, at, n) \in Block
         /\ \A j \in 0 .. at + n - 1 :
              /\ Copy(src, i, dst, at, n)[j] = IF j < at THEN dst[j] ELSE src[j - at + i]
              /\ Copy(src, i, dst, at, n)[j] \in Elems
<1> DEFINE cells == Copy(src, i, dst, at, n)
<1>1. cells \in Block /\ \A j \in Slots :
         cells[j] = IF j \in at .. at + n - 1 THEN src[j - at + i] ELSE dst[j]
  BY CopyType
<1> HIDE DEF cells
<1>2. ASSUME NEW j \in 0 .. at + n - 1
      PROVE  /\ cells[j] = IF j < at THEN dst[j] ELSE src[j - at + i]
             /\ cells[j] \in Elems
  <2>1. j \in Slots /\ j \in Int
    BY RawAssumption DEF Slots
  <2>2. CASE j < at
    <3>1. cells[j] = dst[j] /\ j \in 0 .. at - 1
      BY <1>1, <2>1, <2>2
    <3> QED BY <2>2, <3>1
  <2>3. CASE j >= at
    <3>1. cells[j] = src[j - at + i] /\ j - at + i \in i .. i + n - 1
      BY <1>1, <2>1, <2>3
    <3> QED BY <2>1, <2>3, <3>1
  <2> QED BY <2>1, <2>2, <2>3
<1> QED BY <1>1, <1>2 DEF cells

(* append: one vector grows, the other is emptied.                         *)
LEMMA AppendInv ==
  ASSUME IInv, NEW h \in Handles, NEW k \in Handles, AppendCall(h, k)
  PROVE  IInv'
<1> DEFINE len   == LenOf(store, h)
           other == LenOf(store, k)
           grown == IF len + other > Capacity(store, h) THEN Reserve(store, h, other)
                    ELSE {store}
<1>1. PICK s \in grown :
         store' = Edited(Edited(s, k, Wipe(Cells(s, k), 0, other), 0), h,
                         Copy(Cells(s, k), 0, Cells(s, h), len, other), len + other)
  BY DEF AppendCall
<1>2. h # k
  BY DEF AppendCall
<1>3. len \in Nat /\ other \in Nat /\ Capacity(store, h) \in Nat
  BY SoundLen, RawAssumption DEF IInv
<1>4. Sound(s) /\ LenOf(s, h) = len /\ LenOf(s, k) = other /\ len + other <= Capacity(s, h)
  <2>1. CASE len + other > Capacity(store, h)
    <3>1. Resized(store, s, h) /\ Capacity(s, h) >= LenOf(s, h) + other
      BY <1>1, <1>3, <2>1, ReserveSound DEF IInv
    <3>2. LenOf(s, h) = len /\ LenOf(s, k) = other /\ Sound(s)
      BY <3>1, ResizedLen DEF Resized
    <3>3. Capacity(s, h) \in Nat
      BY <3>2, SoundLen, RawAssumption
    <3> QED BY <1>3, <3>1, <3>2, <3>3
  <2>2. CASE ~(len + other > Capacity(store, h))
    BY <1>1, <1>3, <2>2 DEF IInv
  <2> QED BY <2>1, <2>2
<1> HIDE DEF len, other, grown
<1> DEFINE src   == Cells(s, k)
           dst   == Cells(s, h)
           zero  == 0
           cut   == Edited(s, k, Wipe(src, zero, other), zero)
           cells == Copy(src, zero, dst, len, other)
           total == len + other
<1>5. store' = Edited(cut, h, cells, total) /\ total \in Nat /\ zero = 0 /\ zero \in Nat
  BY <1>1, <1>3
<1>6. /\ src \in Block /\ dst \in Block /\ Capacity(s, h) \in 0 .. MaxCap /\ other <= MaxCap
      /\ (\A j \in zero .. zero + other - 1 : src[j] \in Elems)
      /\ \A j \in 0 .. len - 1 : dst[j] \in Elems
  BY <1>3, <1>4, SoundLen, RawAssumption DEF Sound, Initialised, Item
<1> HIDE DEF zero, src, dst
<1>7. Sound(cut) /\ Capacity(cut, h) = Capacity(s, h)
  <2> DEFINE rest == other - zero
  <2>1. cut = Edited(s, k, Wipe(Cells(s, k), zero, rest), zero) /\ rest = LenOf(s, k) - zero
    <3>1. rest = other
      BY <1>3, <1>5
    <3> QED BY <1>4, <3>1 DEF src
  <2>2. zero <= LenOf(s, k)
    BY <1>3, <1>4, <1>5
  <2> HIDE DEF cut, rest
  <2> QED BY <1>4, <1>5, <2>1, <2>2, CutSound
<1>8. cells \in Block /\ \A j \in 0 .. total - 1 : cells[j] \in Elems
  <2>1. zero + other <= MaxCap /\ len + other <= MaxCap
    BY <1>3, <1>4, <1>5, <1>6, RawAssumption
  <2>2. len \in Nat /\ other \in Nat /\ zero \in Nat
    BY <1>3, <1>5
  <2> HIDE DEF cut, total
  <2>3. /\ cells \in Block
        /\ \A j \in 0 .. len + other - 1 :
             cells[j] = (IF j < len THEN dst[j] ELSE src[j - len + zero]) /\ cells[j] \in Elems
    BY <1>6, <2>1, <2>2, AppendedType
  <2> HIDE DEF cells
  <2>4. \A j \in 0 .. total - 1 : cells[j] \in Elems
    BY <2>2, <2>3 DEF total
  <2> QED BY <2>3, <2>4
<1> HIDE DEF cut, cells, total
<1>9. total <= Capacity(cut, h)
  BY <1>4, <1>7 DEF total
<1>10. Sound(store')
  BY <1>5, <1>7, <1>8, <1>9, EditedSound
<1> QED BY <1>10 DEF AppendCall, IInv

(* split_off: the tail moves to a new vector.                              *)
LEMMA SplitOffInv ==
  ASSUME IInv, NEW h \in Handles, NEW k \in Handles, NEW at \in Nat, SplitOff(h, k, at)
  PROVE  IInv'
<1> DEFINE len  == LenOf(store, h)
           tail == len - at
<1>1. PICK s \in WithCapacity(store, k, tail) :
         store' = Edited(Edited(s, h, Wipe(Cells(s, h), at, tail), at), k,
                         Copy(Cells(s, h), at, Cells(s, k), 0, tail), tail)
  BY DEF SplitOff
<1>2. h # k /\ at <= len
  BY DEF SplitOff, Construct, SmallVecs
<1>3. len \in Nat /\ tail \in Nat /\ at + tail = len
  <2>1. len \in Nat
    BY SoundLen, RawAssumption DEF IInv
  <2> QED BY <1>2, <2>1
<1> HIDE DEF tail
<1>4. Sound(s) /\ tail <= Capacity(s, k) /\ LenOf(s, h) = len
  <2>1. Sound(s) /\ Capacity(s, k) >= tail /\ SameItems(store, h, s, h)
    BY <1>1, <1>2, <1>3, WithCapacitySound DEF IInv
  <2>2. Capacity(s, k) \in Nat
    BY <2>1, SoundLen, RawAssumption
  <2> QED BY <1>3, <2>1, <2>2 DEF SameItems
<1> HIDE DEF len
<1> DEFINE src   == Cells(s, h)
           dst   == Cells(s, k)
           zero  == 0
           cut   == Edited(s, h, Wipe(src, at, tail), at)
           cells == Copy(src, at, dst, zero, tail)
<1>5. store' = Edited(cut, k, cells, tail) /\ zero = 0 /\ zero \in Nat
  BY <1>1
<1>6. /\ src \in Block /\ dst \in Block /\ len <= MaxCap
      /\ \A j \in 0 .. len - 1 : src[j] \in Elems
  BY <1>3, <1>4, SoundLen, RawAssumption DEF Sound, Initialised, Item
<1>7. Sound(cut) /\ Capacity(cut, k) = Capacity(s, k)
  <2> DEFINE rest == len - at
  <2>1. cut = Edited(s, h, Wipe(Cells(s, h), at, rest), at) /\ rest = LenOf(s, h) - at
    <3>1. rest = tail
      BY <1>3
    <3> QED BY <1>4, <3>1
  <2>2. at <= LenOf(s, h)
    BY <1>3, <1>4
  <2> HIDE DEF cut, rest
  <2> QED BY <1>4, <2>1, <2>2, CutSound
<1> HIDE DEF zero, src, dst
<1>8. cells \in Block /\ \A j \in 0 .. tail - 1 : cells[j] \in Elems
  <2>1. at + tail <= MaxCap /\ zero + tail <= MaxCap
    BY <1>3, <1>5, <1>6, RawAssumption
  <2>2. \A j \in at .. at + tail - 1 : src[j] \in Elems
    BY <1>3, <1>6
  <2>3. \A j \in 0 .. zero - 1 : dst[j] \in Elems
    BY <1>5
  <2> HIDE DEF cut
  <2>4. /\ cells \in Block
        /\ \A j \in 0 .. zero + tail - 1 :
             cells[j] = (IF j < zero THEN dst[j] ELSE src[j - zero + at]) /\ cells[j] \in Elems
    BY <1>3, <1>5, <1>6, <2>1, <2>2, <2>3, AppendedType
  <2> HIDE DEF cells
  <2> QED BY <1>3, <1>5, <2>4
<1> HIDE DEF cut, cells
<1>9. tail <= Capacity(cut, k)
  BY <1>4, <1>7
<1>10. Sound(store')
  BY <1>3, <1>5, <1>7, <1>8, <1>9, EditedSound
<1> QED BY <1>10 DEF SplitOff, Construct, SmallVecs, IInv

(* The capacity calls.                                                     *)
LEMMA CapacityInv ==
  ASSUME IInv, NEW h \in Handles, NEW n \in Nat,
         \/ ReserveCall(h, n) \/ ReserveExactCall(h, n) \/ GrowCall(h, n)
         \/ ShrinkToFitCall(h) \/ ShrinkToCall(h, n)
  PROVE  IInv'
<1>1. CASE ReserveCall(h, n)
  BY <1>1, ReserveSound DEF ReserveCall, Resize, Resized, IInv
<1>2. CASE ReserveExactCall(h, n)
  BY <1>2, ReserveExactSound DEF ReserveExactCall, Resize, Resized, IInv
<1>3. CASE GrowCall(h, n)
  <2>1. LenOf(store, h) <= n
    BY <1>3, LenType DEF GrowCall, IInv, Sound
  <2> QED BY <1>3, <2>1, TryGrowSound DEF GrowCall, Resize, Resized, IInv
<1>4. CASE ShrinkToFitCall(h)
  BY <1>4, ShrinkToFitSound DEF ShrinkToFitCall, Resize, Resized, IInv
<1>5. CASE ShrinkToCall(h, n)
  BY <1>5, ShrinkToSound DEF ShrinkToCall, Resize, Resized, IInv
<1> QED BY <1>1, <1>2, <1>3, <1>4, <1>5

----------------------------------------------------------------------------
(* Every step, and stuttering.                                             *)
LEMMA StepInv ==
  ASSUME IInv, [Next]_vars
  PROVE  IInv'
<1>1. CASE UNCHANGED vars
  BY <1>1 DEF vars, IInv
<1>2. ASSUME NEW h \in Handles,
             \/ New(h) \/ FromVec(h) \/ FromRawParts(h) \/ IntoVec(h) \/ Leak(h)
             \/ LeakPanics(h) \/ IntoInner(h) \/ DropVec(h)
             \/ Push(h) \/ PushPanics(h) \/ Pop(h) \/ Clear(h) \/ ShrinkToFitCall(h)
      PROVE  IInv'
  <2>1. 0 \in Nat
    OBVIOUS
  <2> QED BY <1>2, <2>1, ConstructInv, ExchangeInv, ReleaseInv, PushInv, RemoveInv, CutInv,
             CapacityInv
<1>3. ASSUME NEW h \in Handles, NEW k \in Handles, NEW at \in Slots \cup {MaxCap},
             AppendCall(h, k) \/ SplitOff(h, k, at)
      PROVE  IInv'
  <2>1. at \in Nat
    BY RawAssumption DEF Slots
  <2> QED BY <1>3, <2>1, AppendInv, SplitOffInv
<1>4. ASSUME NEW h \in Handles, NEW n \in Sizes,
             \/ NewWithCapacity(h, n) \/ FromBuf(h, n) \/ FromBufAndLen(h, n)
             \/ FromBufAndLenPanics(h, n) \/ FromArray(h, n)
             \/ Insert(h, n) \/ InsertPanics(h, n) \/ Remove(h, n) \/ SwapRemove(h, n)
             \/ Truncate(h, n)
             \/ ReserveCall(h, n) \/ ReserveExactCall(h, n) \/ GrowCall(h, n)
             \/ ShrinkToCall(h, n)
      PROVE  IInv'
  <2>1. n \in Nat
    BY RawAssumption DEF Sizes
  <2> QED BY <1>4, <2>1, ConstructInv, InsertInv, RemoveInv, CutInv, CapacityInv
<1>5. ASSUME NEW h \in Handles, NEW n \in Sizes, NEW m \in Sizes, VecNew(n, m)
      PROVE  IInv'
  <2>1. n \in Nat /\ m \in Nat
    BY RawAssumption DEF Sizes
  <2> QED BY <1>5, <2>1, ExchangeInv
<1> QED BY <1>1, <1>2, <1>3, <1>4, <1>5, RawAssumption DEF Next
(* The storage stays sound: whatever sequence of calls the program makes,  *)
(* on any number of vectors of any inline sizes.                           *)
THEOREM Invariant == Spec => []IInv
<1>1. IInv /\ [Next]_vars => IInv'
  BY StepInv
<1> QED BY <1>1, InitInv, PTL DEF Spec

(* Type correctness.  That the program only ever holds elements rests on   *)
(* the cells below every length being initialised.                         *)
THEOREM TypeCorrect == Spec => []TypeOK
<1>1. IInv => TypeOK
  BY DEF IInv, Sound, TypeOK
<1> QED BY <1>1, Invariant, PTL

(* The tag of every live vector agrees with the active union member, its   *)
(* length fits its capacity, and its capacity is the size its block was    *)
(* allocated with (the layout Drop and realloc pass to the allocator).     *)
THEOREM TagAgrees == Spec => []TagMatchesUnion
<1>1. IInv => TagMatchesUnion
  BY DEF IInv, Sound, TagMatchesUnion
<1> QED BY <1>1, Invariant, PTL

(* No two vectors own one block: Drop never frees a block twice.           *)
THEOREM BlocksDisjoint == Spec => []BlocksNotShared
<1>1. IInv => BlocksNotShared
  BY DEF IInv, Sound, BlocksNotShared
<1> QED BY <1>1, Invariant, PTL

(* reserve and reserve_exact make the room they promise and never shrink.  *)
THEOREM RoomIsMade == Spec => ReserveMakesRoom
<1> DEFINE Room == \A h \in live \cap SmallVecs, n \in Sizes :
       ReserveCall(h, n) \/ ReserveExactCall(h, n) =>
         /\ Capacity(store', h) - LenOf(store', h) >= n
         /\ Capacity(store', h) >= Capacity(store, h)
<1>1. ASSUME IInv, NEW h \in live \cap SmallVecs, NEW n \in Sizes,
             ReserveCall(h, n) \/ ReserveExactCall(h, n)
      PROVE  /\ Capacity(store', h) - LenOf(store', h) >= n
             /\ Capacity(store', h) >= Capacity(store, h)
  <2>1. n \in Nat /\ h \in Handles
    BY <1>1, RawAssumption DEF Sizes, SmallVecs
  <2>2. store' \in Reserve(store, h, n) \/ store' \in ReserveExact(store, h, n)
    BY <1>1 DEF ReserveCall, ReserveExactCall, Resize
  <2>3. /\ Sound(store')
        /\ Capacity(store', h) >= LenOf(store', h) + n
        /\ Capacity(store', h) >= Capacity(store, h)
    BY <1>1, <2>1, <2>2, ReserveSound, ReserveExactSound DEF IInv, Resized
  <2>4. Capacity(store', h) \in Nat /\ LenOf(store', h) \in Nat
    BY <2>1, <2>3, SoundLen, RawAssumption
  <2> QED BY <2>1, <2>3, <2>4
<1>2. IInv => Room
  BY <1>1
<1>3. Room => [Room]_vars
  OBVIOUS
<1> QED BY <1>2, <1>3, Invariant, PTL DEF ReserveMakesRoom
=============================================================================
