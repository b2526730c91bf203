---------------------------- MODULE BufferProofs ----------------------------
(***************************************************************************)
(* Where a vector's buffer is, who owns the blocks, and what is written    *)
(* where.                                                                  *)
(* No call that takes elements out of a vector moves the vector's buffer.  *)
(* The proof rests on a frame: every storage operator assigns the fields   *)
(* of its own handle and of no other, and Edited assigns a length and      *)
(* cells but neither the tag, the pointer nor the capacity.                *)
(* No call loses a heap block, but for the one that moves an empty spilled *)
(* vector to a new block.  Wherever a block's owner goes in a step, it     *)
(* takes the block along, gives it back to the allocator or hands it over. *)
(***************************************************************************)
EXTENDS SmallVecProofs

(* A storage has its five fields, and the first three cover every handle.  *)
Shaped(s) ==
  /\ s = [word |-> s.word, ptr |-> s.ptr, cap |-> s.cap, mem |-> s.mem, size |-> s.size]
  /\ DOMAIN s.word = Handles /\ DOMAIN s.ptr = Handles /\ DOMAIN s.cap = Handles
  /\ s.word = [h \in Handles |-> s.word[h]]

(* g differs from s in the word, pointer and capacity of handles of H only.*)
OnlyTouches(s, g, H) ==
  /\ Shaped(g)
  /\ \A k \in Handles \ H :
       g.word[k] = s.word[k] /\ g.ptr[k] = s.ptr[k] /\ g.cap[k] = s.cap[k]

SamePlace(s, g, k) ==
  AsPtr(g, k) = AsPtr(s, k) /\ Capacity(g, k) = Capacity(s, k)

(* A vector that shrinks from s to g stays where it is.                    *)
KeepsBuffer(s, g, k) == LenOf(g, k) < LenOf(s, k) => SamePlace(s, g, k)

----------------------------------------------------------------------------
(* Frames.                                                                 *)

(* A sound storage has all its fields.                                     *)
LEMMA SoundShaped ==
  ASSUME NEW s, Sound(s)
  PROVE  Shaped(s)
  BY DEF Sound, Storage, Shaped

(* Frames compose.                                                         *)
LEMMA FramesCompose ==
  ASSUME NEW s, NEW m, NEW g, NEW H, NEW K, OnlyTouches(s, m, H), OnlyTouches(m, g, K)
  PROVE  OnlyTouches(s, g, H \cup K)
  BY DEF OnlyTouches

(* An untouched vector keeps its length and stays where it is.             *)
LEMMA UntouchedStays ==
  ASSUME NEW s, NEW g, NEW H, OnlyTouches(s, g, H), NEW k \in Handles \ H
  PROVE  LenOf(g, k) = LenOf(s, k) /\ SamePlace(s, g, k)
  BY DEF OnlyTouches, LenOf, SamePlace, AsPtr, Capacity, OnHeap

(* The two record constructors assign one handle.                          *)
LEMMA SetHandleFrame ==
  ASSUME NEW s, Shaped(s), NEW h \in Handles, NEW w, NEW p, NEW c, NEW mem, NEW size
  PROVE  OnlyTouches(s, SetHandle(s, h, w, p, c, mem, size), {h})
  BY DEF Shaped, OnlyTouches, SetHandle

LEMMA WordFrame ==
  ASSUME NEW s, Shaped(s), NEW h \in Handles, NEW w
  PROVE  OnlyTouches(s, [s EXCEPT !.word[h] = w], {h})
<1> DEFINE g == [s EXCEPT !.word[h] = w]
           f == [s.word EXCEPT ![h] = w]
<1>1. g = [word |-> f, ptr |-> s.ptr, cap |-> s.cap, mem |-> s.mem, size |-> s.size]
  <2>1. s = [word |-> s.word, ptr |-> s.ptr, cap |-> s.cap, mem |-> s.mem, size |-> s.size]
    BY DEF Shaped
  <2> QED BY <2>1
<1>2. /\ f = [k \in Handles |-> f[k]] /\ DOMAIN f = Handles
      /\ \A k \in Handles \ {h} : f[k] = s.word[k]
  BY DEF Shaped
<1> HIDE DEF f, g
<1>3. OnlyTouches(s, g, {h})
  BY <1>1, <1>2 DEF Shaped, OnlyTouches
<1> QED BY <1>3 DEF g

(* Writes to memory and to the block sizes assign no handle.               *)
LEMMA MemoryFrame ==
  ASSUME NEW s, Shaped(s), NEW p, NEW cells
  PROVE  /\ OnlyTouches(s, Dealloc(s, p), {})
         /\ OnlyTouches(s, [s EXCEPT !.mem[p] = cells], {})
<1>1. Dealloc(s, p) =
        [word |-> s.word, ptr |-> s.ptr, cap |-> s.cap,
         mem |-> [s.mem EXCEPT ![p] = Blank], size |-> [s.size EXCEPT ![p] = 0]]
  <2>1. s = [word |-> s.word, ptr |-> s.ptr, cap |-> s.cap, mem |-> s.mem, size |-> s.size]
    BY DEF Shaped
  <2>2. Dealloc(s, p) =
          [s EXCEPT !.size = [s.size EXCEPT ![p] = 0], !.mem = [s.mem EXCEPT ![p] = Blank]]
    BY <2>1 DEF Dealloc
  <2> QED BY <2>1, <2>2
<1>2. [s EXCEPT !.mem[p] = cells] =
        [word |-> s.word, ptr |-> s.ptr, cap |-> s.cap,
         mem |-> [s.mem EXCEPT ![p] = cells], size |-> s.size]
  BY DEF Shaped
<1> QED BY <1>1, <1>2 DEF Shaped, OnlyTouches

(* new_inline and new_heap.                                                *)
LEMMA NewFrame ==
  ASSUME NEW s, Shaped(s), NEW h \in Handles, NEW p, NEW c, NEW cells, NEW w
  PROVE  /\ OnlyTouches(s, NewHeap(s, h, p, c, cells), {h})
         /\ OnlyTouches(s, SetInline(s, h, w, cells), {h})
         /\ OnlyTouches(s, NewInline(s, h), {h})
  BY SetHandleFrame DEF NewHeap, SetInline, NewInline

(* set_len, set_on_heap and a write followed by set_len.                   *)
LEMMA SetFrame ==
  ASSUME NEW s, Shaped(s), NEW h \in Handles, NEW n, NEW cells
  PROVE  /\ OnlyTouches(s, SetLen(s, h, n), {h})
         /\ OnlyTouches(s, SetOnHeap(s, h), {h})
         /\ OnlyTouches(s, Edited(s, h, cells, n), {h})
<1>1. \A x : Shaped(x) => OnlyTouches(x, SetLen(x, h, n), {h}) /\ OnlyTouches(x, SetOnHeap(x, h), {h})
  BY WordFrame DEF SetLen, SetOnHeap
<1> DEFINE m == [s EXCEPT !.mem[AsPtr(s, h)] = cells]
<1>2. OnlyTouches(s, m, {}) /\ Edited(s, h, cells, n) = SetLen(m, h, n)
  BY MemoryFrame DEF Edited
<1> HIDE DEF m
<1>3. OnlyTouches(s, Edited(s, h, cells, n), {} \cup {h})
  BY <1>1, <1>2, FramesCompose DEF OnlyTouches
<1> QED BY <1>1, <1>3

(* A release assigns no handle, and doing nothing does not.                *)
LEMMA FreedFrame ==
  ASSUME NEW s, Shaped(s), NEW p, NEW b, b = s \/ b = Dealloc(s, p)
  PROVE  OnlyTouches(s, b, {}) /\ Shaped(b)
<1>1. OnlyTouches(s, b, {})
  <2>1. CASE b = s
    BY <2>1 DEF OnlyTouches
  <2>2. CASE b = Dealloc(s, p)
    BY <2>2, MemoryFrame
  <2> QED BY <2>1, <2>2
<1> QED BY <1>1 DEF OnlyTouches

(* try_grow_raw, and the return to the inline array.                       *)
LEMMA TryGrowRawFrame ==
  ASSUME NEW s, Shaped(s), NEW h \in Handles, NEW c, NEW g \in TryGrowRaw(s, h, c)
  PROVE  OnlyTouches(s, g, {h})
<1>1. PICK b, p, k, cells :
         (b = s \/ b = Dealloc(s, s.ptr[h])) /\ g = NewHeap(b, h, p, k, cells)
  <2>1. CASE LenOf(s, h) = 0 \/ ~OnHeap(s, h)
    BY <2>1 DEF TryGrowRaw
  <2>2. CASE ~(LenOf(s, h) = 0 \/ ~OnHeap(s, h))
    BY <2>2 DEF TryGrowRaw
  <2> QED BY <2>1, <2>2
<1>2. OnlyTouches(s, b, {}) /\ Shaped(b)
  BY <1>1, FreedFrame
<1>3. OnlyTouches(s, g, {} \cup {h})
  BY <1>1, <1>2, NewFrame, FramesCompose
<1> QED BY <1>3

LEMMA UnspillFrame ==
  ASSUME NEW s, Shaped(s), NEW h \in Handles
  PROVE  OnlyTouches(s, Unspill(s, h), {h})
<1>1. PICK w, cells : Unspill(s, h) = Dealloc(SetInline(s, h, w, cells), s.ptr[h])
  BY DEF Unspill
<1> DEFINE m == SetInline(s, h, w, cells)
<1>2. OnlyTouches(s, m, {h}) /\ Shaped(m)
  BY NewFrame DEF OnlyTouches
<1> HIDE DEF m
<1>3. OnlyTouches(s, Dealloc(m, s.ptr[h]), {h} \cup {})
  BY <1>2, MemoryFrame, FramesCompose
<1> QED BY <1>1, <1>3 DEF m

(* Every growth assigns the handle that grows.                             *)
LEMMA TryGrowFrame ==
  ASSUME NEW s, Shaped(s), NEW h \in Handles, NEW c, NEW g \in TryGrow(s, h, c)
  PROVE  OnlyTouches(s, g, {h})
<1>1. CASE g = s
  BY <1>1 DEF OnlyTouches
<1>2. CASE g = Unspill(s, h)
  BY <1>2, UnspillFrame
<1>3. ASSUME NEW x \in TryGrowRaw(s, h, c), g = SetOnHeap(x, h)
      PROVE  OnlyTouches(s, g, {h})
  <2>1. OnlyTouches(s, x, {h}) /\ Shaped(x)
    BY TryGrowRawFrame DEF OnlyTouches
  <2>2. OnlyTouches(s, g, {h} \cup {h})
    BY <1>3, <2>1, SetFrame, FramesCompose
  <2> QED BY <2>2
<1> QED BY <1>1, <1>2, <1>3 DEF TryGrow

LEMMA CapacityFrame ==
  ASSUME NEW s, Shaped(s), NEW h \in Handles, NEW n, NEW g,
         \/ g \in Reserve(s, h, n) \/ g \in ReserveExact(s, h, n) \/ g \in WithCapacity(s, h, n)
  PROVE  OnlyTouches(s, g, {h})
<1>0. g = s \/ (\E c : g \in TryGrow(s, h, c)) \/ g \in WithCapacity(s, h, n)
  <2>1. g \in Reserve(s, h, n) => g = s \/ \E c : g \in TryGrow(s, h, c)
    BY DEF Reserve
  <2>2. g \in ReserveExact(s, h, n) => g = s \/ \E c : g \in TryGrow(s, h, c)
    BY DEF ReserveExact
  <2> QED BY <2>1, <2>2
<1>1. CASE g = s
  BY <1>1 DEF OnlyTouches
<1>2. CASE \E c : g \in TryGrow(s, h, c)
  BY <1>2, TryGrowFrame
<1>3. CASE g \in WithCapacity(s, h, n)
  <2> DEFINE m == NewInline(s, h)
  <2>1. OnlyTouches(s, m, {h}) /\ Shaped(m)
    BY NewFrame DEF OnlyTouches
  <2>2. g = m \/ \E c : g \in TryGrow(m, h, c)
    BY <1>3 DEF WithCapacity
  <2> HIDE DEF m
  <2>3. g = m \/ OnlyTouches(m, g, {h})
    BY <2>1, <2>2, TryGrowFrame
  <2>4. g = m \/ OnlyTouches(s, g, {h} \cup {h})
    BY <2>1, <2>3, FramesCompose
  <2> QED BY <2>1, <2>4
<1> QED BY <1>0, <1>1, <1>2, <1>3

(* Drop releases a block and assigns its handle.                           *)
LEMMA ReleasedFrame ==
  ASSUME NEW s, Shaped(s), NEW h \in Handles
  PROVE  OnlyTouches(s, Released(s, h), {h})
<1>1. PICK b : (b = s \/ b = Dealloc(s, s.ptr[h])) /\ Released(s, h) = NewInline(b, h)
  BY DEF Released
<1>3. OnlyTouches(s, b, {}) /\ Shaped(b)
  BY <1>1, FreedFrame
<1>4. OnlyTouches(b, NewInline(b, h), {h})
  BY <1>3, NewFrame
<1>5. OnlyTouches(s, Released(s, h), {} \cup {h})
  BY <1>1, <1>3, <1>4, FramesCompose
<1> QED BY <1>5

(* A hand-over assigns the two handles.                                    *)
LEMMA HandOverFrame ==
  ASSUME NEW s, Shaped(s), NEW h \in Handles, NEW k \in Handles
  PROVE  OnlyTouches(s, HandOver(s, h, k), {h, k})
<1> DEFINE m == SetHandle(s, k, s.word[h], s.ptr[h], s.cap[h], s.mem, s.size)
<1>1. OnlyTouches(s, m, {k}) /\ HandOver(s, h, k) = NewInline(m, h)
  BY SetHandleFrame DEF HandOver
<1> HIDE DEF m
<1>2. OnlyTouches(m, NewInline(m, h), {h})
  BY <1>1, NewFrame DEF OnlyTouches
<1>3. OnlyTouches(s, HandOver(s, h, k), {k} \cup {h})
  BY <1>1, <1>2, FramesCompose
<1>4. {k} \cup {h} = {h, k}
  OBVIOUS
<1> QED BY <1>3, <1>4

(* Writing into h's buffer and setting its length moves no vector.         *)
LEMMA EditedStays ==
  ASSUME NEW s, Shaped(s), NEW h \in Handles, OnHeap(s, h) \in BOOLEAN,
         NEW n \in 0 .. MaxCap, NEW cells
  PROVE  LET g == Edited(s, h, cells, n)
         IN  /\ Shaped(g)
             /\ LenOf(g, h) = n
             /\ \A k \in Handles : SamePlace(s, g, k)
<1> DEFINE m == [s EXCEPT !.mem[AsPtr(s, h)] = cells]
           w == TaggedLen(n, OnHeap(m, h))
           g == [m EXCEPT !.word[h] = w]
<1>1. g = Edited(s, h, cells, n)
  BY DEF Edited, SetLen
<1>2. /\ m = [word |-> m.word, ptr |-> m.ptr, cap |-> m.cap, mem |-> m.mem, size |-> m.size]
      /\ m.word = s.word /\ m.ptr = s.ptr /\ m.cap = s.cap
      /\ DOMAIN s.word = Handles
  BY DEF Shaped
<1>3. OnHeap(m, h) = OnHeap(s, h)
  BY <1>2 DEF OnHeap
<1>4. w \div 2 = n /\ ((w % 2 = 1) <=> OnHeap(s, h))
  BY <1>3, TaggedLenRoundTrip
<1> HIDE DEF m, w
<1>5. /\ g.word = [s.word EXCEPT ![h] = w] /\ g.ptr = s.ptr /\ g.cap = s.cap
      /\ g.word[h] = w
  BY <1>2
<1>6. OnlyTouches(s, Edited(s, h, cells, n), {h})
  BY SetFrame
<1> HIDE DEF g
<1>7. LenOf(g, h) = n /\ SamePlace(s, g, h)
  <2>1. OnHeap(g, h) <=> OnHeap(s, h)
    BY <1>4, <1>5 DEF OnHeap
  <2> QED BY <1>4, <1>5, <2>1 DEF LenOf, SamePlace, AsPtr, Capacity
<1>8. \A k \in Handles \ {h} : SamePlace(s, g, k)
  BY <1>1, <1>6, UntouchedStays
<1>9. Shaped(g)
  BY <1>1, <1>6 DEF OnlyTouches
<1> QED BY <1>1, <1>7, <1>8, <1>9

(* Writing into a buffer allocates and releases nothing.                   *)
LEMMA EditedSize ==
  ASSUME NEW s, Shaped(s), NEW h, NEW cells, NEW n
  PROVE  Edited(s, h, cells, n).size = s.size
<1>1. s = [word |-> s.word, ptr |-> s.ptr, cap |-> s.cap, mem |-> s.mem, size |-> s.size]
  BY DEF Shaped
<1> QED BY <1>1 DEF Edited, SetLen

----------------------------------------------------------------------------
(* The steps.                                                              *)

(* What the property asks of one step.                                     *)
BufferKept == \A h \in live \cap live' : KeepsBuffer(store, store', h)

(* A step keeps the buffers if the handles it assigns are not alive on     *)
(* both sides of it, do not shrink, or stay where they are.                *)
LEMMA StepKeeps ==
  ASSUME live \subseteq Handles, NEW H, OnlyTouches(store, store', H),
         \A h \in H \cap live \cap live' : KeepsBuffer(store, store', h)
  PROVE  BufferKept
<1> SUFFICES ASSUME NEW k \in live \cap live' PROVE KeepsBuffer(store, store', k)
  BY DEF BufferKept
<1>1. CASE k \in H
  BY <1>1
<1>2. CASE k \notin H
  BY <1>2, UntouchedStays DEF KeepsBuffer
<1> QED BY <1>1, <1>2

(* The handle k alone is assigned, and it is constructed or ended.         *)
Opens(k) == k \notin live /\ live \subseteq live' /\ OnlyTouches(store, store', {k})
Ends(k)   == live' = live \ {k} /\ OnlyTouches(store, store', {k})

(* The constructors, and the calls that end a vector.                      *)
LEMMA ConstructFrame ==
  ASSUME IInv, NEW h \in Handles, NEW n \in Nat, NEW m \in Nat,
         \/ New(h) \/ NewWithCapacity(h, n) \/ FromBuf(h, n) \/ FromBufAndLen(h, n)
         \/ FromBufAndLenPanics(h, n) \/ FromArray(h, n) \/ VecNew(n, m)
         \/ LeakPanics(h) \/ IntoInner(h) \/ DropVec(h)
  PROVE  \E k \in Handles : Opens(k) \/ Ends(k)
<1>1. Shaped(store) /\ live \subseteq Handles /\ Std \in Handles
  BY SoundShaped, StdAssumption DEF IInv
<1>2. OnlyTouches(store, NewInline(store, h), {h}) /\ Shaped(NewInline(store, h))
  BY <1>1, NewFrame DEF OnlyTouches
<1>3. ASSUME NEW g, OnlyTouches(NewInline(store, h), g, {h})
      PROVE  OnlyTouches(store, g, {h})
  <2>1. OnlyTouches(store, g, {h} \cup {h})
    BY <1>2, <1>3, FramesCompose
  <2> QED BY <2>1
<1>4. CASE New(h)
  BY <1>2, <1>4 DEF New, Construct, Opens
<1>5. CASE NewWithCapacity(h, n)
  <2>1. store' \in WithCapacity(store, h, n) /\ h \notin live /\ live \subseteq live'
    BY <1>5 DEF NewWithCapacity, Construct
  <2>2. OnlyTouches(store, store', {h})
    BY <1>1, <2>1, CapacityFrame
  <2> QED BY <2>1, <2>2 DEF Opens
<1>6. CASE FromBuf(h, n) \/ FromBufAndLen(h, n)
  <2>1. PICK f : store' = Edited(NewInline(store, h), h, Filled(f, n), n)
    BY <1>6 DEF FromBuf, FromBufAndLen
  <2>2. OnlyTouches(store, store', {h})
    BY <1>2, <1>3, <2>1, SetFrame
  <2> QED BY <1>6, <2>2 DEF FromBuf, FromBufAndLen, Construct, Opens
<1>7. CASE FromBufAndLenPanics(h, n)
  BY <1>1, <1>7 DEF FromBufAndLenPanics, OnlyTouches, Opens
<1>8. CASE FromArray(h, n)
  <2>1. PICK p, cells :
           store' = SetLen(SetOnHeap(NewHeap(NewInline(store, h), h, p, n, cells), h), h, n)
    BY <1>8 DEF FromArray
  <2> DEFINE x == NewHeap(NewInline(store, h), h, p, n, cells)
             y == SetOnHeap(x, h)
  <2>2. OnlyTouches(NewInline(store, h), x, {h})
    BY <1>2, NewFrame
  <2>3. OnlyTouches(store, x, {h}) /\ Shaped(x)
    BY <1>3, <2>2 DEF OnlyTouches
  <2>4. store' = SetLen(y, h, n) /\ OnlyTouches(x, y, {h}) /\ Shaped(y)
    BY <2>1, <2>3, SetFrame DEF OnlyTouches
  <2> HIDE DEF x, y
  <2>5. OnlyTouches(y, store', {h})
    BY <2>4, SetFrame
  <2>6. OnlyTouches(store, store', {h} \cup {h} \cup {h})
    BY <2>3, <2>4, <2>5, FramesCompose
  <2>7. {h} \cup {h} \cup {h} = {h}
    OBVIOUS
  <2> QED BY <1>8, <2>6, <2>7 DEF FromArray, Construct, Opens
<1>9. CASE VecNew(n, m)
  <2>1. PICK s, cells : s \in WithCapacity(store, Std, n) /\ store' = Edited(s, Std, cells, m)
    BY <1>9 DEF VecNew
  <2>2. OnlyTouches(store, s, {Std}) /\ Shaped(s)
    BY <1>1, <2>1, CapacityFrame DEF OnlyTouches
  <2>3. OnlyTouches(store, store', {Std} \cup {Std})
    BY <1>1, <2>1, <2>2, SetFrame, FramesCompose
  <2>4. {Std} \cup {Std} = {Std}
    OBVIOUS
  <2> QED BY <1>1, <1>9, <2>3, <2>4 DEF VecNew, Opens
<1>10. CASE LeakPanics(h) \/ DropVec(h)
  BY <1>1, <1>10, ReleasedFrame DEF LeakPanics, DropVec, Discard, Ends
<1>11. CASE IntoInner(h)
  <2> DEFINE m0 == SetLen(store, h, 0)
  <2>1. OnlyTouches(store, m0, {h}) /\ Shaped(m0)
    BY <1>1, SetFrame DEF OnlyTouches
  <2>2. store' = Released(m0, h) /\ live' = live \ {h}
    BY <1>11 DEF IntoInner
  <2> HIDE DEF m0
  <2>3. OnlyTouches(store, store', {h} \cup {h})
    BY <2>1, <2>2, ReleasedFrame, FramesCompose
  <2>4. {h} \cup {h} = {h}
    OBVIOUS
  <2> QED BY <2>2, <2>3, <2>4 DEF Ends
<1> QED BY <1>4, <1>5, <1>6, <1>7, <1>8, <1>9, <1>10, <1>11

(* A handle that is not alive on both sides shrinks nowhere.               *)
LEMMA ConstructKeeps ==
  ASSUME IInv, NEW h \in Handles, NEW n \in Nat, NEW m \in Nat,
         \/ New(h) \/ NewWithCapacity(h, n) \/ FromBuf(h, n) \/ FromBufAndLen(h, n)
         \/ FromBufAndLenPanics(h, n) \/ FromArray(h, n) \/ VecNew(n, m)
         \/ LeakPanics(h) \/ IntoInner(h) \/ DropVec(h)
  PROVE  BufferKept
<1>1. PICK k \in Handles : Opens(k) \/ Ends(k)
  BY ConstructFrame
<1>2. OnlyTouches(store, store', {k}) /\ {k} \cap live \cap live' = {}
  BY <1>1 DEF Opens, Ends
<1> QED BY <1>2, StepKeeps DEF IInv

(* leak and from_raw_parts: a spilled vector a ends as the live vector b.  *)
Hands(a, b) ==
  /\ a \in live /\ b \notin live /\ a # b /\ OnHeap(store, a)
  /\ live' = (live \ {a}) \cup {b}
  /\ store' = HandOver(store, a, b)
  /\ caller' = caller /\ dropped' = dropped

LEMMA RawPartsHand ==
  ASSUME NEW h \in Handles
  PROVE  /\ Raw \in Handles
         /\ FromRawParts(h) => Hands(Raw, h)
         /\ Leak(h) => Hands(h, Raw)
  BY StdAssumption DEF FromRawParts, Leak, Hands, SmallVecs

LEMMA HandsFrame ==
  ASSUME IInv, NEW a \in Handles, NEW b \in Handles, Hands(a, b)
  PROVE  OnlyTouches(store, store', {a, b}) /\ {a, b} \cap live \cap live' = {}
<1>1. Shaped(store)
  BY SoundShaped DEF IInv
<1> QED BY <1>1, HandOverFrame DEF Hands

(* In an exchange with the program's Vec one owner ends, the other begins. *)
LEMMA ExchangeFrame ==
  ASSUME IInv, NEW h \in Handles, FromVec(h) \/ IntoVec(h)
  PROVE  /\ OnlyTouches(store, store', {h, Std})
         /\ h \notin live \cap live' /\ Std \notin live \cap live'
<1>1. Shaped(store) /\ live \subseteq Handles /\ Std \in Handles
  BY SoundShaped, StdAssumption DEF IInv
<1>2. OnlyTouches(store, store', {h, Std})
  <2>1. CASE store' = NewInline(store, h)
    BY <1>1, <2>1, NewFrame DEF OnlyTouches
  <2>2. CASE store' = HandOver(store, Std, h) \/ store' = HandOver(store, h, Std)
    <3>1. {h, Std} = {Std, h}
      OBVIOUS
    <3> QED BY <1>1, <2>2, <3>1, HandOverFrame
  <2>3. CASE IntoVec(h) /\ ~OnHeap(store, h)
    <3>1. PICK s, cells, n :
             /\ s \in WithCapacity(store, Std, LenOf(store, h))
             /\ store' = NewInline(Edited(s, Std, cells, n), h)
      BY <2>3 DEF IntoVec
    <3> DEFINE m == Edited(s, Std, cells, n)
    <3>2. OnlyTouches(store, s, {Std}) /\ Shaped(s)
      BY <1>1, <3>1, CapacityFrame DEF OnlyTouches
    <3>3. OnlyTouches(s, m, {Std}) /\ Shaped(m)
      BY <1>1, <3>2, SetFrame DEF OnlyTouches
    <3> HIDE DEF m
    <3>4. OnlyTouches(m, store', {h})
      BY <3>1, <3>3, NewFrame DEF m
    <3>5. OnlyTouches(store, store', {Std} \cup {Std} \cup {h})
      BY <3>2, <3>3, <3>4, FramesCompose
    <3>6. {Std} \cup {Std} \cup {h} = {h, Std}
      OBVIOUS
    <3> QED BY <3>5, <3>6
  <2> QED BY <2>1, <2>2, <2>3 DEF FromVec, IntoVec
<1>3. h \notin live \cap live' /\ Std \notin live \cap live'
  BY DEF FromVec, IntoVec, SmallVecs
<1> QED BY <1>2, <1>3

LEMMA ExchangeKeeps ==
  ASSUME IInv, NEW h \in Handles,
         FromVec(h) \/ FromRawParts(h) \/ IntoVec(h) \/ Leak(h)
  PROVE  BufferKept
<1>1. CASE FromVec(h) \/ IntoVec(h)
  <2>1. OnlyTouches(store, store', {h, Std}) /\ {h, Std} \cap live \cap live' = {}
    BY <1>1, ExchangeFrame
  <2> QED BY <2>1, StepKeeps DEF IInv
<1>2. CASE FromRawParts(h) \/ Leak(h)
  <2>1. PICK a \in Handles, b \in Handles : Hands(a, b)
    BY <1>2, RawPartsHand
  <2>2. OnlyTouches(store, store', {a, b}) /\ {a, b} \cap live \cap live' = {}
    BY <2>1, HandsFrame
  <2> QED BY <2>2, StepKeeps DEF IInv
<1> QED BY <1>1, <1>2

(* push and insert write one element more into the buffer reserve left.    *)
GrowsBy1(s, h, n) ==
  /\ s = store \/ s \in Reserve(store, h, 1)
  /\ Sound(s) /\ OnlyTouches(store, s, {h})
  /\ n \in 0 .. MaxCap /\ n = LenOf(store, h) + 1
  /\ \E cells : store' = Edited(s, h, cells, n)

LEMMA GrowthFrame ==
  ASSUME IInv, NEW h \in Handles, NEW i \in Nat, Push(h) \/ Insert(h, i)
  PROVE  \E s, n : GrowsBy1(s, h, n)
<1> DEFINE len == LenOf(store, h)
<1>1. /\ Shaped(store) /\ Sound(store) /\ 1 \in Nat
      /\ len \in Nat /\ len <= Capacity(store, h) /\ Capacity(store, h) \in Nat
  BY SoundShaped, SoundLen, RawAssumption DEF IInv
<1>2. PICK s, cells :
         /\ (s = store /\ len # Capacity(store, h)) \/ s \in Reserve(store, h, 1)
         /\ store' = Edited(s, h, cells, LenOf(s, h) + 1)
  <2>1. CASE Push(h)
    <3> DEFINE grown == IF len = Capacity(store, h) THEN Reserve(store, h, 1) ELSE {store}
    <3>1. PICK e \in caller, s \in grown :
             store' = Edited(s, h, [Cells(s, h) EXCEPT ![len] = e], len + 1)
      BY <2>1 DEF Push
    <3>2. LenOf(s, h) = len
      <4>1. s = store \/ Resized(store, s, h)
        BY <1>1, <3>1, ReserveSound
      <4> QED BY <4>1, ResizedLen
    <3>3. (s = store /\ len # Capacity(store, h)) \/ s \in Reserve(store, h, 1)
      BY <3>1
    <3>4. store' = Edited(s, h, [Cells(s, h) EXCEPT ![len] = e], LenOf(s, h) + 1)
      BY <3>1, <3>2
    <3> QED BY <3>3, <3>4
  <2>2. CASE Insert(h, i)
    BY <2>2 DEF Insert
  <2> QED BY <2>1, <2>2
<1>3. Sound(s) /\ LenOf(s, h) = len /\ len + 1 <= Capacity(s, h)
  <2>1. CASE s = store /\ len # Capacity(store, h)
    BY <1>1, <2>1
  <2>2. CASE s \in Reserve(store, h, 1)
    <3>1. Resized(store, s, h) /\ Capacity(s, h) >= LenOf(s, h) + 1
      BY <1>1, <2>2, ReserveSound
    <3>2. Sound(s) /\ LenOf(s, h) = len
      BY <3>1, ResizedLen DEF Resized
    <3> QED BY <1>1, <3>1, <3>2, SoundLen, RawAssumption
  <2> QED BY <1>2, <2>1, <2>2
<1>4. OnlyTouches(store, s, {h})
  <2>1. CASE s = store
    BY <1>1, <2>1 DEF OnlyTouches
  <2>2. CASE s \in Reserve(store, h, 1)
    BY <1>1, <2>2, CapacityFrame
  <2> QED BY <1>2, <2>1, <2>2
<1>5. Capacity(s, h) \in 0 .. MaxCap
  BY <1>3, SoundLen
<1>6. len + 1 \in 0 .. MaxCap /\ store' = Edited(s, h, cells, len + 1)
  BY <1>1, <1>2, <1>3, <1>5, RawAssumption
<1> HIDE DEF len
<1>7. GrowsBy1(s, h, len + 1)
  BY <1>2, <1>3, <1>4, <1>6 DEF GrowsBy1, len
<1> QED BY <1>7

(* The vector that may move gets longer.                                   *)
LEMMA GrowthKeeps ==
  ASSUME IInv, NEW h \in Handles, NEW i \in Nat,
         Push(h) \/ PushPanics(h) \/ Insert(h, i) \/ InsertPanics(h, i)
  PROVE  BufferKept
<1>1. CASE PushPanics(h) \/ InsertPanics(h, i)
  BY <1>1 DEF PushPanics, InsertPanics, DropArgument, BufferKept, KeepsBuffer, SamePlace
<1>2. CASE Push(h) \/ Insert(h, i)
  <2>1. PICK s, n : GrowsBy1(s, h, n)
    BY <1>2, GrowthFrame
  <2>2. PICK cells : store' = Edited(s, h, cells, n)
    BY <2>1 DEF GrowsBy1
  <2>3. Shaped(s) /\ OnHeap(s, h) \in BOOLEAN /\ n \in 0 .. MaxCap
    BY <2>1, SoundShaped, LenType DEF GrowsBy1, Sound
  <2>4. LenOf(store', h) = n
    BY <2>2, <2>3, EditedStays
  <2>5. LenOf(store, h) \in Nat /\ n = LenOf(store, h) + 1
    BY <2>1, SoundLen, RawAssumption DEF GrowsBy1, IInv
  <2>6. KeepsBuffer(store, store', h)
    BY <2>4, <2>5 DEF KeepsBuffer
  <2>7. OnlyTouches(store, s, {h}) /\ OnlyTouches(s, store', {h})
    BY <2>1, <2>2, <2>3, SetFrame DEF GrowsBy1
  <2>8. OnlyTouches(store, store', {h} \cup {h})
    BY <2>7, FramesCompose
  <2> QED BY <2>6, <2>8, StepKeeps DEF IInv
<1> QED BY <1>1, <1>2

(* The calls that take elements out write into the vector they shorten.    *)
LEMMA RemovalPlaces ==
  ASSUME IInv, NEW h \in Handles, NEW i \in Nat,
         \/ Pop(h) \/ Remove(h, i) \/ SwapRemove(h, i) \/ Truncate(h, i) \/ Clear(h)
  PROVE  \A k \in Handles : SamePlace(store, store', k)
<1>1. /\ Shaped(store) /\ OnHeap(store, h) \in BOOLEAN
      /\ LenOf(store, h) \in 0 .. MaxCap /\ live \subseteq Handles
  BY SoundShaped, SoundLen, LenType DEF IInv, Sound
<1>2. PICK n, cells : n \in 0 .. MaxCap /\ store' = Edited(store, h, cells, n)
  <2>1. CASE Pop(h) \/ Remove(h, i) \/ SwapRemove(h, i)
    <3>1. /\ LenOf(store, h) - 1 \in 0 .. MaxCap
          /\ \E cells : store' = Edited(store, h, cells, LenOf(store, h) - 1)
      BY <1>1, <2>1, RawAssumption DEF Pop, Remove, SwapRemove, TakeOut
    <3> QED BY <3>1
  <2>2. CASE Truncate(h, i)
    BY <1>1, <2>2, RawAssumption DEF Truncate, CutTo
  <2>3. CASE Clear(h)
    BY <1>1, <2>3, RawAssumption DEF Clear, CutTo
  <2> QED BY <2>1, <2>2, <2>3
<1> QED BY <1>1, <1>2, EditedStays

LEMMA RemovalKeeps ==
  ASSUME IInv, NEW h \in Handles, NEW i \in Nat,
         \/ Pop(h) \/ Remove(h, i) \/ SwapRemove(h, i) \/ Truncate(h, i) \/ Clear(h)
  PROVE  BufferKept
  BY RemovalPlaces DEF IInv, BufferKept, KeepsBuffer

(* append writes into h what reserve left of it, and empties k in place.   *)
AppendsFrom(s, h, k) ==
  /\ s = store \/ s \in Reserve(store, h, LenOf(store, k))
  /\ Sound(s) /\ OnlyTouches(store, s, {h})
  /\ \A l \in Handles : SamePlace(s, store', l)
  /\ store'.size = s.size
  /\ LenOf(store', h) \in Nat /\ LenOf(store', h) >= LenOf(store, h)

LEMMA AppendFrame ==
  ASSUME IInv, NEW h \in Handles, NEW k \in Handles, AppendCall(h, k)
  PROVE  \E s : AppendsFrom(s, h, k)
<1> DEFINE len   == LenOf(store, h)
           other == LenOf(store, k)
           grown == IF len + other > Capacity(store, h) THEN Reserve(store, h, other)
                    ELSE {store}
<1>1. /\ Shaped(store) /\ Sound(store) /\ h # k
      /\ len \in Nat /\ other \in Nat /\ Capacity(store, h) \in Nat
  BY SoundShaped, SoundLen, RawAssumption DEF IInv, AppendCall
<1>2. PICK s \in grown :
         store' = Edited(Edited(s, k, Wipe(Cells(s, k), 0, other), 0), h,
                         Copy(Cells(s, k), 0, Cells(s, h), len, other), len + other)
  BY DEF AppendCall
<1>3. /\ s = store \/ s \in Reserve(store, h, other)
      /\ OnlyTouches(store, s, {h}) /\ Sound(s) /\ len + other <= Capacity(s, h)
  <2>1. CASE len + other > Capacity(store, h)
    <3>1. s \in Reserve(store, h, other)
      BY <1>2, <2>1
    <3>2. /\ Resized(store, s, h) /\ Capacity(s, h) >= LenOf(s, h) + other
          /\ OnlyTouches(store, s, {h})
      BY <1>1, <3>1, ReserveSound, CapacityFrame
    <3>3. LenOf(s, h) = len /\ Capacity(s, h) \in Nat
      BY <3>2, ResizedLen, SoundLen, RawAssumption DEF Resized
    <3> QED BY <1>1, <3>1, <3>2, <3>3 DEF Resized
  <2>2. CASE ~(len + other > Capacity(store, h))
    BY <1>1, <1>2, <2>2 DEF OnlyTouches
  <2> QED BY <2>1, <2>2
<1>4. /\ Capacity(s, h) \in 0 .. MaxCap /\ Shaped(s)
      /\ OnHeap(s, k) \in BOOLEAN /\ OnHeap(s, h) \in BOOLEAN
  BY <1>3, SoundLen, SoundShaped, LenType DEF Sound
<1> DEFINE total == len + other
           zero  == 0
           cut   == Edited(s, k, Wipe(Cells(s, k), zero, other), zero)
           cells == Copy(Cells(s, k), 0, Cells(s, h), len, other)
<1>5. /\ total \in 0 .. MaxCap /\ total >= len /\ zero \in 0 .. MaxCap
      /\ store' = Edited(cut, h, cells, total)
  BY <1>1, <1>2, <1>3, <1>4, RawAssumption
<1> HIDE DEF total, zero, cells
<1>6. /\ Shaped(cut) /\ cut.size = s.size /\ OnlyTouches(s, cut, {k})
      /\ \A l \in Handles : SamePlace(s, cut, l)
  <2>1. Shaped(cut) /\ \A l \in Handles : SamePlace(s, cut, l)
    BY <1>4, <1>5, EditedStays
  <2>2. cut.size = s.size
    BY <1>4, EditedSize
  <2>3. OnlyTouches(s, cut, {k})
    BY <1>4, SetFrame
  <2> QED BY <2>1, <2>2, <2>3
<1> HIDE DEF cut
<1>7. OnHeap(cut, h) \in BOOLEAN
  BY <1>1, <1>4, <1>6 DEF OnlyTouches, OnHeap
<1>8. LenOf(store', h) = total /\ \A l \in Handles : SamePlace(cut, store', l)
  BY <1>5, <1>6, <1>7, EditedStays
<1>9. store'.size = s.size
  BY <1>5, <1>6, EditedSize
<1>10. \A l \in Handles : SamePlace(s, store', l)
  BY <1>6, <1>8 DEF SamePlace
<1>11. LenOf(store', h) \in Nat /\ LenOf(store', h) >= len
  BY <1>5, <1>8, RawAssumption
<1> QED BY <1>3, <1>9, <1>10, <1>11 DEF AppendsFrom

(* split_off cuts h in place; only the new vector k is allocated.          *)
LEMMA SplitFrame ==
  ASSUME IInv, NEW h \in Handles, NEW k \in Handles, NEW at \in Nat, SplitOff(h, k, at)
  PROVE  /\ h # k /\ k \notin live /\ live \subseteq live'
         /\ \A l \in Handles \ {k} : SamePlace(store, store', l)
<1>1. Shaped(store) /\ Sound(store)
  BY SoundShaped DEF IInv
<1>2. PICK s, cells, m, n :
         /\ s \in WithCapacity(store, k, LenOf(store, h) - at)
         /\ store' = Edited(Edited(s, h, cells, at), k, m, n)
  BY DEF SplitOff
<1>3. h # k /\ k \notin live /\ live \subseteq live' /\ at \in 0 .. MaxCap
  <2>1. at <= LenOf(store, h) /\ LenOf(store, h) \in 0 .. MaxCap
    BY <1>1, SoundLen DEF SplitOff
  <2> QED BY <2>1, RawAssumption DEF SplitOff, Construct, SmallVecs
<1>4. OnlyTouches(store, s, {k}) /\ Shaped(s)
  BY <1>1, <1>2, CapacityFrame DEF OnlyTouches
<1>5. OnHeap(s, h) \in BOOLEAN
  BY <1>1, <1>3, <1>4 DEF OnlyTouches, OnHeap
<1> DEFINE cut == Edited(s, h, cells, at)
<1>6. Shaped(cut) /\ \A l \in Handles : SamePlace(s, cut, l)
  BY <1>3, <1>4, <1>5, EditedStays
<1>7. store' = Edited(cut, k, m, n)
  BY <1>2
<1> HIDE DEF cut
<1>8. OnlyTouches(cut, store', {k})
  BY <1>6, <1>7, SetFrame
<1>9. \A l \in Handles \ {k} : SamePlace(store, store', l)
  BY <1>4, <1>6, <1>8, UntouchedStays DEF SamePlace
<1> QED BY <1>3, <1>9

(* Neither shortens a vector that it moves.                                *)
LEMMA MoveKeeps ==
  ASSUME IInv, NEW h \in Handles, NEW k \in Handles, NEW at \in Nat,
         AppendCall(h, k) \/ SplitOff(h, k, at)
  PROVE  BufferKept
<1>1. live \subseteq Handles /\ \A l \in Handles : LenOf(store, l) \in Nat
  BY SoundLen, RawAssumption DEF IInv
<1>2. CASE AppendCall(h, k)
  <2>1. PICK s : AppendsFrom(s, h, k)
    BY <1>2, AppendFrame
  <2>2. \A l \in Handles \ {h} : SamePlace(store, store', l)
    BY <2>1, UntouchedStays DEF AppendsFrom, SamePlace
  <2>3. KeepsBuffer(store, store', h)
    BY <1>1, <2>1 DEF AppendsFrom, KeepsBuffer
  <2> QED BY <1>1, <2>2, <2>3 DEF BufferKept, KeepsBuffer
<1>3. CASE SplitOff(h, k, at)
  BY <1>1, <1>3, SplitFrame DEF BufferKept, KeepsBuffer
<1> QED BY <1>2, <1>3

(* The capacity calls may move a vector, but change no length.             *)
LEMMA CapacityKeeps ==
  ASSUME IInv, NEW h \in Handles, NEW n \in Nat,
         \/ ReserveCall(h, n) \/ ReserveExactCall(h, n) \/ GrowCall(h, n)
         \/ ShrinkToFitCall(h) \/ ShrinkToCall(h, n)
  PROVE  BufferKept
<1>1. Sound(store) /\ live \subseteq Handles
  BY DEF IInv
<1>2. Resized(store, store', h)
  <2>1. CASE ReserveCall(h, n)
    BY <1>1, <2>1, ReserveSound DEF ReserveCall, Resize
  <2>2. CASE ReserveExactCall(h, n)
    BY <1>1, <2>2, ReserveExactSound DEF ReserveExactCall, Resize
  <2>3. CASE GrowCall(h, n)
    <3>1. LenOf(store, h) <= n
      BY <2>3, LenType DEF GrowCall, IInv, Sound
    <3> QED BY <1>1, <2>3, <3>1, TryGrowSound DEF GrowCall, Resize
  <2>4. CASE ShrinkToFitCall(h)
    BY <1>1, <2>4, ShrinkToFitSound DEF ShrinkToFitCall, Resize
  <2>5. CASE ShrinkToCall(h, n)
    BY <1>1, <2>5, ShrinkToSound DEF ShrinkToCall, Resize
  <2> QED BY <2>1, <2>2, <2>3, <2>4, <2>5
<1>3. \A k \in Handles : LenOf(store', k) = LenOf(store, k) /\ LenOf(store, k) \in Int
  BY <1>1, <1>2, ResizedLen, SoundLen, RawAssumption
<1> QED BY <1>1, <1>3 DEF BufferKept, KeepsBuffer

(* Every step, and stuttering.                                             *)
LEMMA NextKeeps ==
  ASSUME IInv, [Next]_vars
  PROVE  BufferKept
<1>1. CASE UNCHANGED vars
  BY <1>1 DEF vars, BufferKept, KeepsBuffer, SamePlace
<1>2. ASSUME NEW h \in Handles,
             \/ New(h) \/ FromVec(h) \/ FromRawParts(h) \/ IntoVec(h) \/ Leak(h)
             \/ LeakPanics(h) \/ IntoInner(h) \/ DropVec(h)
             \/ Push(h) \/ PushPanics(h) \/ Pop(h) \/ Clear(h) \/ ShrinkToFitCall(h)
      PROVE  BufferKept
  <2>1. 0 \in Nat
    OBVIOUS
  <2> QED BY <1>2, <2>1, ConstructKeeps, ExchangeKeeps, GrowthKeeps, RemovalKeeps, CapacityKeeps
<1>3. ASSUME NEW h \in Handles, NEW k \in Handles, NEW at \in Slots \cup {MaxCap},
             AppendCall(h, k) \/ SplitOff(h, k, at)
      PROVE  BufferKept
  <2>1. at \in Nat
    BY RawAssumption DEF Slots
  <2> QED BY <1>3, <2>1, MoveKeeps
<1>4. ASSUME NEW h \in Handles, NEW n \in Sizes,
             \/ NewWithCapacity(h, n) \/ FromBuf(h, n) \/ FromBufAndLen(h, n)
             \/ FromBufAndLenPanics(h, n) \/ FromArray(h, n)
             \/ Insert(h, n) \/ InsertPanics(h, n) \/ Remove(h, n) \/ SwapRemove(h, n)
             \/ Truncate(h, n)
             \/ ReserveCall(h, n) \/ ReserveExactCall(h, n) \/ GrowCall(h, n)
             \/ ShrinkToCall(h, n)
      PROVE  BufferKept
  <2>1. n \in Nat
    BY RawAssumption DEF Sizes
  <2> QED BY <1>4, <2>1, ConstructKeeps, GrowthKeeps, RemovalKeeps, CapacityKeeps
<1>5. ASSUME NEW h \in Handles, NEW n \in Sizes, NEW m \in Sizes, VecNew(n, m)
      PROVE  BufferKept
  <2>1. n \in Nat /\ m \in Nat
    BY RawAssumption DEF Sizes
  <2> QED BY <1>5, <2>1, ConstructKeeps
<1> QED BY <1>1, <1>2, <1>3, <1>4, <1>5, RawAssumption DEF Next

(* Whatever call shortens a vector that stays alive (pop, remove,          *)
(* truncate, split_off, the source of append), the vector keeps its buffer *)
(* and its capacity; the documentation of split_off promises it by name.   *)
THEOREM BufferStays == Spec => RemovalKeepsBuffer
<1>1. IInv /\ [Next]_vars => BufferKept
  BY NextKeeps
<1>2. BufferKept <=> \A h \in live \cap live' :
                       LenOf(store', h) < LenOf(store, h) =>
                         /\ AsPtr(store', h) = AsPtr(store, h)
                         /\ Capacity(store', h) = Capacity(store, h)
  BY DEF BufferKept, KeepsBuffer, SamePlace
<1>3. BufferKept => [\A h \in live \cap live' :
                       LenOf(store', h) < LenOf(store, h) =>
                         /\ AsPtr(store', h) = AsPtr(store, h)
                         /\ Capacity(store', h) = Capacity(store, h)]_vars
  BY <1>2
<1> QED BY <1>1, <1>3, Invariant, PTL DEF Spec, RemovalKeepsBuffer

----------------------------------------------------------------------------
(* What becomes of the blocks.                                             *)

(* From s to g the vector h keeps its block, has it released, or was empty *)
(* and has another one.                                                    *)
Settled(s, g, h) ==
  OnHeap(s, h) =>
    \/ g.size[s.ptr[h]] = 0
    \/ OnHeap(g, h) /\ (g.ptr[h] = s.ptr[h] \/ LenOf(s, h) = 0)

(* What the property asks of one vector in one step.                       *)
Accounted(h) ==
  OnHeap(store, h) =>
    \/ store'.size[store.ptr[h]] = 0
    \/ \E k \in live' : OnHeap(store', k) /\ store'.ptr[k] = store.ptr[h]
    \/ h \in live' /\ OnHeap(store', h) /\ LenOf(store, h) = 0

BlocksKept == \A h \in live : Accounted(h)

----------------------------------------------------------------------------
(* Places.                                                                 *)

(* The tag can be told from the place: a handle is not a block.            *)
LEMMA PlaceTellsTag ==
  ASSUME NEW s, Sound(s), NEW h \in Handles, OnHeap(s, h), NEW g, SamePlace(s, g, h)
  PROVE  OnHeap(g, h) /\ g.ptr[h] = s.ptr[h] /\ s.ptr[h] \in Ptrs
<1>1. s.ptr[h] \in Ptrs /\ AsPtr(g, h) = s.ptr[h]
  BY DEF Sound, HandleOK, SamePlace, AsPtr
<1>2. OnHeap(g, h)
  BY <1>1, RawAssumption DEF AsPtr
<1> QED BY <1>1, <1>2 DEF AsPtr

(* A vector that settles, and then is written into, has settled.           *)
LEMMA SettledThenPlaced ==
  ASSUME NEW s, NEW h \in Handles, NEW m, Sound(m), Settled(s, m, h),
         NEW g, SamePlace(m, g, h), g.size = m.size
  PROVE  Settled(s, g, h)
<1>1. OnHeap(m, h) => OnHeap(g, h) /\ g.ptr[h] = m.ptr[h]
  BY PlaceTellsTag
<1> QED BY <1>1 DEF Settled

----------------------------------------------------------------------------
(* Growing and shrinking.                                                  *)

(* try_grow_raw: realloc releases what it does not keep; only an empty     *)
(* vector is given a fresh block beside its own.                           *)
LEMMA TryGrowRawSettles ==
  ASSUME NEW s, Sound(s), NEW h \in Handles, NEW c \in Nat, 0 < c, LenOf(s, h) <= c,
         NEW x \in TryGrowRaw(s, h, c)
  PROVE  Settled(s, SetOnHeap(x, h), h)
<1> DEFINE g == SetOnHeap(x, h)
<1> SUFFICES ASSUME OnHeap(s, h), LenOf(s, h) # 0
             PROVE  g.size[s.ptr[h]] = 0 \/ g.ptr[h] = s.ptr[h]
  BY TryGrowRawSound DEF Settled
<1> DEFINE old == s.ptr[h]
<1>1. old \in Ptrs /\ s.size \in [Ptrs -> 0 .. MaxCap] /\ Shaped(s)
  BY SoundShaped DEF Sound, HandleOK, Storage, BlockSizes
<1>2. PICK p, cells : x = NewHeap(Dealloc(s, old), h, p, c, cells)
  BY DEF TryGrowRaw
<1>3. DOMAIN s.ptr = Handles
  BY <1>1 DEF Shaped
<1>4. /\ Dealloc(s, old).ptr = s.ptr /\ Dealloc(s, old).size[old] = 0
      /\ DOMAIN Dealloc(s, old).size = Ptrs
  <2>1. s \in Storage
    BY DEF Sound
  <2>2. /\ Dealloc(s, old) \in Storage /\ Dealloc(s, old).ptr = s.ptr
        /\ Dealloc(s, old).size[old] = 0
    BY <1>1, <2>1, DeallocType
  <2> QED BY <2>2 DEF Storage, BlockSizes
<1>5. x.size = [Dealloc(s, old).size EXCEPT ![p] = c] /\ x.ptr = [s.ptr EXCEPT ![h] = p]
  BY <1>2, <1>4 DEF NewHeap, SetHandle
<1>6. g.size = x.size /\ g.ptr = x.ptr
  <2>1. x = [word |-> x.word, ptr |-> x.ptr, cap |-> x.cap, mem |-> x.mem, size |-> x.size]
    BY <1>2 DEF NewHeap, SetHandle
  <2> QED BY <2>1 DEF SetOnHeap
<1>7. CASE p = old
  BY <1>3, <1>4, <1>5, <1>6, <1>7
<1>8. CASE p # old
  BY <1>1, <1>4, <1>5, <1>6, <1>8
<1> QED BY <1>7, <1>8

(* The return to the inline array releases the block.                      *)
LEMMA UnspillSettles ==
  ASSUME NEW s, Sound(s), NEW h \in Handles, OnHeap(s, h)
  PROVE  Settled(s, Unspill(s, h), h)
<1>1. s.ptr[h] \in Ptrs /\ s.size \in [Ptrs -> 0 .. MaxCap]
  BY DEF Sound, HandleOK, Storage, BlockSizes
<1>2. PICK w, cells : Unspill(s, h) = Dealloc(SetInline(s, h, w, cells), s.ptr[h])
  BY DEF Unspill
<1>3. Unspill(s, h).size = [s.size EXCEPT ![s.ptr[h]] = 0]
  BY <1>2 DEF Dealloc, SetInline, SetHandle
<1> QED BY <1>1, <1>3 DEF Settled

LEMMA StaySettles ==
  ASSUME NEW s, NEW h
  PROVE  Settled(s, s, h)
  BY DEF Settled

LEMMA TryGrowSettles ==
  ASSUME NEW s, Sound(s), NEW h \in Handles, NEW c \in Nat, LenOf(s, h) <= c,
         NEW g \in TryGrow(s, h, c)
  PROVE  Settled(s, g, h)
<1>1. InlineSize[h] \in Nat
  BY RawAssumption
<1>2. CASE c > InlineSize[h]
  BY <1>1, <1>2, TryGrowRawSettles DEF TryGrow
<1>3. CASE ~(c > InlineSize[h])
  BY <1>3, UnspillSettles, StaySettles DEF TryGrow
<1> QED BY <1>2, <1>3

(* reserve and reserve_exact never ask for less than the length.           *)
LEMMA ReserveSettles ==
  ASSUME NEW s, Sound(s), NEW h \in Handles, NEW n \in Nat, NEW g,
         g \in Reserve(s, h, n) \/ g \in ReserveExact(s, h, n)
  PROVE  Settled(s, g, h)
<1>1. LenOf(s, h) \in Nat
  BY SoundLen, RawAssumption
<1>2. CASE g = s
  BY <1>2, StaySettles
<1>3. ASSUME NEW c \in NextPowerOfTwo(LenOf(s, h) + n), g \in TryGrow(s, h, c)
      PROVE  Settled(s, g, h)
  <2>1. c \in Nat /\ LenOf(s, h) <= c
    BY <1>1, RawAssumption DEF NextPowerOfTwo, PowersOfTwo
  <2> QED BY <1>3, <2>1, TryGrowSettles
<1>4. CASE g \in TryGrow(s, h, LenOf(s, h) + n)
  BY <1>1, <1>4, TryGrowSettles
<1> QED BY <1>2, <1>3, <1>4 DEF Reserve, ReserveExact

(* shrink_to_fit and shrink_to never ask for less than the length either.  *)
LEMMA ShrinkSettles ==
  ASSUME NEW s, Sound(s), NEW h \in Handles, NEW n \in Nat, NEW g,
         g \in ShrinkToFit(s, h) \/ g \in ShrinkTo(s, h, n)
  PROVE  Settled(s, g, h)
<1>1. LenOf(s, h) \in Nat /\ InlineSize[h] \in Nat
  BY SoundLen, RawAssumption
<1>2. CASE g = s
  BY <1>2, StaySettles
<1>3. CASE OnHeap(s, h) /\ g = Unspill(s, h)
  BY <1>3, UnspillSettles
<1>4. ASSUME NEW c \in Nat, OnHeap(s, h), LenOf(s, h) <= c, c > InlineSize[h],
             g \in TryGrowRaw(s, h, c)
      PROVE  Settled(s, g, h)
  <2>1. SetOnHeap(g, h) = g /\ 0 < c
    BY <1>1, <1>4, AlreadyTagged
  <2> QED BY <1>4, <2>1, TryGrowRawSettles
<1>5. CASE g \in ShrinkToFit(s, h)
  BY <1>1, <1>2, <1>3, <1>4, <1>5 DEF ShrinkToFit
<1>6. CASE g \in ShrinkTo(s, h, n)
  <2> DEFINE target == IF LenOf(s, h) < n THEN n ELSE LenOf(s, h)
  <2>1. target \in Nat /\ LenOf(s, h) <= target
    BY <1>1
  <2>2. \/ g = s
        \/ OnHeap(s, h) /\ g = Unspill(s, h)
        \/ OnHeap(s, h) /\ ~(target <= InlineSize[h]) /\ g \in TryGrowRaw(s, h, target)
    BY <1>6 DEF ShrinkTo
  <2> HIDE DEF target
  <2> QED BY <1>1, <1>2, <1>3, <1>4, <2>1, <2>2
<1> QED BY <1>5, <1>6

----------------------------------------------------------------------------
(* The steps.                                                              *)

(* Every live vector but h stays where it is, and h settles.               *)
LEMMA StepSettles ==
  ASSUME IInv, live \subseteq live', NEW h \in Handles, Settled(store, store', h),
         \A k \in live \ {h} : SamePlace(store, store', k)
  PROVE  BlocksKept
<1> SUFFICES ASSUME NEW k \in live PROVE Accounted(k)
  BY DEF BlocksKept
<1>1. k \in Handles /\ k \in live' /\ Sound(store)
  BY DEF IInv
<1>2. CASE k = h
  BY <1>1, <1>2 DEF Settled, Accounted
<1>3. CASE k # h
  BY <1>1, <1>3, PlaceTellsTag DEF Accounted
<1> QED BY <1>2, <1>3

(* h is assigned alone and ends, or was not there; then h alone counts.    *)
LEMMA OneChanges ==
  ASSUME IInv, NEW H, OnlyTouches(store, store', H), live \ H \subseteq live',
         \A h \in live \cap H : Accounted(h)
  PROVE  BlocksKept
<1> SUFFICES ASSUME NEW k \in live \ H PROVE Accounted(k)
  BY DEF BlocksKept
<1>1. k \in Handles /\ k \in live' /\ Sound(store)
  BY DEF IInv
<1>2. SamePlace(store, store', k)
  BY <1>1, UntouchedStays
<1> QED BY <1>1, <1>2, PlaceTellsTag DEF Accounted

(* A constructor takes no handle that is alive.                            *)
LEMMA ConstructBlocks ==
  ASSUME IInv, NEW h \in Handles, NEW n \in Nat, NEW m \in Nat,
         \/ New(h) \/ NewWithCapacity(h, n) \/ FromBuf(h, n) \/ FromBufAndLen(h, n)
         \/ FromBufAndLenPanics(h, n) \/ FromArray(h, n) \/ VecNew(n, m)
  PROVE  BlocksKept
<1>1. PICK k \in Handles : Opens(k) \/ Ends(k)
  BY ConstructFrame
<1>2. live \subseteq live'
  BY DEF New, NewWithCapacity, FromBuf, FromBufAndLen, FromBufAndLenPanics, FromArray,
         VecNew, Construct
<1>3. OnlyTouches(store, store', {k}) /\ live \cap {k} = {}
  BY <1>1, <1>2 DEF Opens, Ends
<1> QED BY <1>2, <1>3, OneChanges

(* Drop gives the block back.                                              *)
LEMMA ReleasedFrees ==
  ASSUME NEW s \in Storage, NEW h \in Handles, OnHeap(s, h), s.ptr[h] \in Ptrs
  PROVE  Released(s, h).size[s.ptr[h]] = 0
<1>1. Released(s, h).size = Dealloc(s, s.ptr[h]).size
  BY DEF Released, NewInline, SetInline, SetHandle
<1> QED BY <1>1, DeallocType

(* into_inner, Drop, and the unwinding of leak.                            *)
LEMMA ReleaseBlocks ==
  ASSUME IInv, NEW h \in Handles, LeakPanics(h) \/ IntoInner(h) \/ DropVec(h)
  PROVE  BlocksKept
<1>1. PICK k \in Handles : Opens(k) \/ Ends(k)
  <2>1. 0 \in Nat
    OBVIOUS
  <2> QED BY <2>1, ConstructFrame
<1>2. h \in live /\ live' = live \ {h}
  BY DEF LeakPanics, IntoInner, DropVec, Discard
<1>3. OnlyTouches(store, store', {h}) /\ live \ {h} \subseteq live'
  BY <1>1, <1>2 DEF Opens, Ends
<1>4. Accounted(h)
  <2> SUFFICES ASSUME OnHeap(store, h) PROVE store'.size[store.ptr[h]] = 0
    BY DEF Accounted
  <2>1. store \in Storage /\ store.ptr[h] \in Ptrs
    BY DEF IInv, Sound, HandleOK
  <2>2. CASE store' = Released(store, h)
    BY <2>1, <2>2, ReleasedFrees
  <2>3. CASE IntoInner(h)
    <3> DEFINE z == 0
               m0 == SetLen(store, h, z)
    <3>1. z \in 0 .. MaxCap /\ store' = Released(m0, h)
      BY <2>3, RawAssumption DEF IntoInner
    <3> HIDE DEF z
    <3>2. m0 \in Storage /\ m0.ptr = store.ptr /\ OnHeap(m0, h)
      BY <2>1, <3>1, SetLenType
    <3> HIDE DEF m0
    <3> QED BY <2>1, <3>1, <3>2, ReleasedFrees
  <2> QED BY <2>2, <2>3 DEF LeakPanics, DropVec, Discard
<1> QED BY <1>3, <1>4, OneChanges

(* The other handle has the word and the pointer of the one that ends.     *)
LEMMA HandOverHolds ==
  ASSUME NEW s, Shaped(s), NEW h \in Handles, NEW k \in Handles \ {h}
  PROVE  HandOver(s, h, k).word[k] = s.word[h] /\ HandOver(s, h, k).ptr[k] = s.ptr[h]
  BY DEF Shaped, HandOver, NewInline, SetInline, SetHandle

(* An exchange with the Vec, or with raw parts, passes the block on, if    *)
(* there is one.                                                           *)
LEMMA HandsBlocks ==
  ASSUME IInv, NEW a \in Handles, NEW b \in Handles, Hands(a, b)
  PROVE  BlocksKept
<1>1. Shaped(store) /\ b \notin live /\ b \in live' /\ live \ {a, b} \subseteq live'
  BY SoundShaped DEF IInv, Hands
<1>2. OnlyTouches(store, store', {a, b})
  BY HandsFrame
<1>3. Accounted(a)
  BY <1>1, HandOverHolds DEF Accounted, OnHeap, Hands
<1>4. {a, b} = {b, a}
  OBVIOUS
<1> QED BY <1>1, <1>2, <1>3, <1>4, OneChanges

LEMMA ExchangeBlocks ==
  ASSUME IInv, NEW h \in Handles,
         FromVec(h) \/ FromRawParts(h) \/ IntoVec(h) \/ Leak(h)
  PROVE  BlocksKept
<1>1. CASE FromRawParts(h) \/ Leak(h)
  BY <1>1, RawPartsHand, HandsBlocks
<1>2. ASSUME FromVec(h) \/ IntoVec(h)
      PROVE  /\ Shaped(store) /\ Sound(store) /\ Std \in Handles /\ h # Std
             /\ OnlyTouches(store, store', {h, Std}) /\ live \ {h, Std} \subseteq live'
  BY <1>2, ExchangeFrame, SoundShaped, StdAssumption DEF IInv, FromVec, IntoVec, SmallVecs
<1>4. CASE FromVec(h)
  <2>1. h \notin live /\ h \in live'
    BY <1>4 DEF FromVec
  <2>2. OnHeap(store, Std) => store' = HandOver(store, Std, h)
    <3>1. OnHeap(store, Std) => Capacity(store, Std) > 0
      BY <1>2, <1>4 DEF Sound, HandleOK, Capacity
    <3> QED BY <1>4, <3>1 DEF FromVec
  <2>3. Accounted(Std)
    BY <1>2, <1>4, <2>1, <2>2, HandOverHolds DEF Accounted, OnHeap
  <2> QED BY <1>2, <1>4, <2>1, <2>3, OneChanges
<1>5. CASE IntoVec(h)
  <2>1. Std \notin live /\ Std \in live'
    BY <1>5 DEF IntoVec
  <2>2. OnHeap(store, h) => store' = HandOver(store, h, Std)
    BY <1>5 DEF IntoVec
  <2>3. Accounted(h)
    BY <1>2, <1>5, <2>1, <2>2, HandOverHolds DEF Accounted, OnHeap
  <2> QED BY <1>2, <1>5, <2>1, <2>3, OneChanges
<1> QED BY <1>1, <1>4, <1>5

(* The calls that take elements out write into the vector they shorten.    *)
LEMMA RemovalBlocks ==
  ASSUME IInv, NEW h \in Handles, NEW i \in Nat,
         \/ Pop(h) \/ Remove(h, i) \/ SwapRemove(h, i) \/ Truncate(h, i) \/ Clear(h)
  PROVE  BlocksKept
<1>1. \A k \in Handles : SamePlace(store, store', k)
  BY RemovalPlaces
<1>2. live' = live /\ live \subseteq Handles
  BY DEF Pop, Remove, SwapRemove, Truncate, Clear, TakeOut, CutTo, IInv
<1>3. Settled(store, store', h)
  BY <1>1, PlaceTellsTag DEF Settled, IInv
<1> QED BY <1>1, <1>2, <1>3, StepSettles

(* push and insert settle in reserve, and write in place.                  *)
LEMMA GrowthBlocks ==
  ASSUME IInv, NEW h \in Handles, NEW i \in Nat,
         Push(h) \/ PushPanics(h) \/ Insert(h, i) \/ InsertPanics(h, i)
  PROVE  BlocksKept
<1>1. live' = live /\ live \subseteq Handles /\ Sound(store) /\ Shaped(store)
  BY SoundShaped DEF Push, PushPanics, Insert, InsertPanics, DropArgument, IInv
<1>2. CASE PushPanics(h) \/ InsertPanics(h, i)
  <2>1. store' = store
    BY <1>2 DEF PushPanics, InsertPanics, DropArgument
  <2> QED BY <1>1, <2>1, StaySettles, StepSettles DEF SamePlace
<1>3. CASE Push(h) \/ Insert(h, i)
  <2>1. PICK s, n : GrowsBy1(s, h, n)
    BY <1>3, GrowthFrame
  <2>2. PICK cells : store' = Edited(s, h, cells, n)
    BY <2>1 DEF GrowsBy1
  <2>3. Sound(s) /\ Shaped(s) /\ OnHeap(s, h) \in BOOLEAN /\ n \in 0 .. MaxCap
    BY <2>1, SoundShaped, LenType DEF GrowsBy1, Sound
  <2>4. \A k \in Handles : SamePlace(s, store', k)
    BY <2>2, <2>3, EditedStays
  <2>5. store'.size = s.size
    BY <2>2, <2>3, EditedSize
  <2>6. Settled(store, s, h)
    <3>1. 1 \in Nat /\ (s = store \/ s \in Reserve(store, h, 1))
      BY <2>1 DEF GrowsBy1
    <3> QED BY <1>1, <3>1, StaySettles, ReserveSettles
  <2>7. Settled(store, store', h)
    BY <2>3, <2>4, <2>5, <2>6, SettledThenPlaced
  <2>8. \A k \in live \ {h} : SamePlace(store, store', k)
    BY <1>1, <2>1, <2>4, UntouchedStays DEF GrowsBy1, SamePlace
  <2> QED BY <1>1, <2>7, <2>8, StepSettles
<1> QED BY <1>2, <1>3

(* append settles h in reserve; split_off takes a block for k alone.       *)
LEMMA MoveBlocks ==
  ASSUME IInv, NEW h \in Handles, NEW k \in Handles, NEW at \in Nat,
         AppendCall(h, k) \/ SplitOff(h, k, at)
  PROVE  BlocksKept
<1>1. live \subseteq Handles /\ Sound(store)
  BY DEF IInv
<1>2. CASE AppendCall(h, k)
  <2>1. PICK s : AppendsFrom(s, h, k)
    BY <1>2, AppendFrame
  <2>2. Settled(store, s, h)
    <3>1. LenOf(store, k) \in Nat /\ (s = store \/ s \in Reserve(store, h, LenOf(store, k)))
      BY <1>1, <2>1, SoundLen, RawAssumption DEF AppendsFrom
    <3> QED BY <1>1, <3>1, StaySettles, ReserveSettles
  <2>3. Settled(store, store', h)
    BY <2>1, <2>2, SettledThenPlaced DEF AppendsFrom
  <2>4. \A l \in live \ {h} : SamePlace(store, store', l)
    BY <1>1, <2>1, UntouchedStays DEF AppendsFrom, SamePlace
  <2>5. live' = live
    BY <1>2 DEF AppendCall
  <2> QED BY <2>3, <2>4, <2>5, StepSettles
<1>3. CASE SplitOff(h, k, at)
  <2>1. /\ h # k /\ k \notin live /\ live \subseteq live'
        /\ \A l \in Handles \ {k} : SamePlace(store, store', l)
    BY <1>3, SplitFrame
  <2>2. Settled(store, store', h)
    BY <1>1, <2>1, PlaceTellsTag DEF Settled
  <2>3. \A l \in live \ {h} : SamePlace(store, store', l)
    BY <1>1, <2>1
  <2> QED BY <2>1, <2>2, <2>3, StepSettles
<1> QED BY <1>2, <1>3

(* A capacity call assigns the one handle.                                 *)
LEMMA ShrinkFrame ==
  ASSUME NEW s, Shaped(s), NEW h \in Handles, NEW n, NEW g,
         g \in ShrinkToFit(s, h) \/ g \in ShrinkTo(s, h, n)
  PROVE  OnlyTouches(s, g, {h})
<1>1. g = s \/ g = Unspill(s, h) \/ \E c : g \in TryGrowRaw(s, h, c)
  <2>1. CASE g \in ShrinkToFit(s, h)
    BY <2>1 DEF ShrinkToFit
  <2>2. CASE g \in ShrinkTo(s, h, n)
    BY <2>2 DEF ShrinkTo
  <2> QED BY <2>1, <2>2
<1>2. CASE g = s
  BY <1>2 DEF OnlyTouches
<1>3. CASE g = Unspill(s, h)
  BY <1>3, UnspillFrame
<1>4. CASE \E c : g \in TryGrowRaw(s, h, c)
  BY <1>4, TryGrowRawFrame
<1> QED BY <1>1, <1>2, <1>3, <1>4

(* The capacity calls.                                                     *)
LEMMA CapacityBlocks ==
  ASSUME IInv, NEW h \in Handles, NEW n \in Nat,
         \/ ReserveCall(h, n) \/ ReserveExactCall(h, n) \/ GrowCall(h, n)
         \/ ShrinkToFitCall(h) \/ ShrinkToCall(h, n)
  PROVE  BlocksKept
<1>1. Sound(store) /\ live \subseteq Handles /\ Shaped(store)
  BY SoundShaped DEF IInv
<1>2. live' = live
  BY DEF ReserveCall, ReserveExactCall, GrowCall, ShrinkToFitCall, ShrinkToCall, Resize
<1>3. Settled(store, store', h) /\ OnlyTouches(store, store', {h})
  <2>1. CASE ReserveCall(h, n) \/ ReserveExactCall(h, n)
    <3>1. store' \in Reserve(store, h, n) \/ store' \in ReserveExact(store, h, n)
      BY <2>1 DEF ReserveCall, ReserveExactCall, Resize
    <3> QED BY <1>1, <3>1, ReserveSettles, CapacityFrame
  <2>2. CASE GrowCall(h, n)
    <3>1. n >= LenOf(store, h) /\ store' \in TryGrow(store, h, n) /\ LenOf(store, h) \in Nat
      BY <1>1, <2>2, SoundLen, RawAssumption DEF GrowCall, Resize
    <3>2. LenOf(store, h) <= n
      BY <3>1
    <3> QED BY <1>1, <3>1, <3>2, TryGrowSettles, TryGrowFrame
  <2>3. CASE ShrinkToFitCall(h) \/ ShrinkToCall(h, n)
    <3>1. store' \in ShrinkToFit(store, h) \/ store' \in ShrinkTo(store, h, n)
      BY <2>3 DEF ShrinkToFitCall, ShrinkToCall, Resize
    <3> QED BY <1>1, <3>1, ShrinkSettles, ShrinkFrame
  <2> QED BY <2>1, <2>2, <2>3
<1>4. \A k \in live \ {h} : SamePlace(store, store', k)
  BY <1>1, <1>3, UntouchedStays
<1> QED BY <1>2, <1>3, <1>4, StepSettles

(* Every step, and stuttering.                                             *)
LEMMA NextBlocks ==
  ASSUME IInv, [Next]_vars
  PROVE  BlocksKept
<1>1. CASE UNCHANGED vars
  BY <1>1 DEF vars, BlocksKept, Accounted
<1>2. ASSUME NEW h \in Handles,
             \/ New(h) \/ FromVec(h) \/ FromRawParts(h) \/ IntoVec(h) \/ Leak(h)
             \/ LeakPanics(h) \/ IntoInner(h) \/ DropVec(h)
             \/ Push(h) \/ PushPanics(h) \/ Pop(h) \/ Clear(h) \/ ShrinkToFitCall(h)
      PROVE  BlocksKept
  <2>1. 0 \in Nat
    OBVIOUS
  <2> QED BY <1>2, <2>1, ConstructBlocks, ExchangeBlocks, ReleaseBlocks, GrowthBlocks,
             RemovalBlocks, CapacityBlocks
<1>3. ASSUME NEW h \in Handles, NEW k \in Handles, NEW at \in Slots \cup {MaxCap},
             AppendCall(h, k) \/ SplitOff(h, k, at)
      PROVE  BlocksKept
  <2>1. at \in Nat
    BY RawAssumption DEF Slots
  <2> QED BY <1>3, <2>1, MoveBlocks
<1>4. ASSUME NEW h \in Handles, NEW n \in Sizes,
             \/ NewWithCapacity(h, n) \/ FromBuf(h, n) \/ FromBufAndLen(h, n)
             \/ FromBufAndLenPanics(h, n) \/ FromArray(h, n)
             \/ Insert(h, n) \/ InsertPanics(h, n) \/ Remove(h, n) \/ SwapRemove(h, n)
             \/ Truncate(h, n)
             \/ ReserveCall(h, n) \/ ReserveExactCall(h, n) \/ GrowCall(h, n)
             \/ ShrinkToCall(h, n)
      PROVE  BlocksKept
  <2>1. n \in Nat
    BY RawAssumption DEF Sizes
  <2> QED BY <1>4, <2>1, ConstructBlocks, GrowthBlocks, RemovalBlocks, CapacityBlocks
<1>5. ASSUME NEW h \in Handles, NEW n \in Sizes, NEW m \in Sizes, VecNew(n, m)
      PROVE  BlocksKept
  <2>1. n \in Nat /\ m \in Nat
    BY RawAssumption DEF Sizes
  <2> QED BY <1>5, <2>1, ConstructBlocks
<1> QED BY <1>1, <1>2, <1>3, <1>4, <1>5, RawAssumption DEF Next

(* A block stops being any live vector's without being released only when  *)
(* an empty spilled vector moves to a fresh one: the branch of             *)
(* try_grow_raw that tests the length and not the tag.                     *)
THEOREM BlocksStay == Spec => OnlyEmptyVectorsLoseBlocks
<1> DEFINE Lost(p, h) == h \in Holders(store, live, p) /\ store'.size[p] > 0
                           /\ Holders(store', live', p) = {}
           Asked == \A p \in Ptrs, h \in live :
                      Lost(p, h) => /\ h \in live' /\ OnHeap(store', h)
                                    /\ LenOf(store, h) = 0
<1>1. IInv /\ [Next]_vars => BlocksKept
  BY NextBlocks
<1>2. BlocksKept => Asked
  <2> SUFFICES ASSUME BlocksKept, NEW p \in Ptrs, NEW h \in live, Lost(p, h)
               PROVE  h \in live' /\ OnHeap(store', h) /\ LenOf(store, h) = 0
    OBVIOUS
  <2>1. OnHeap(store, h) /\ store.ptr[h] = p /\ store'.size[p] # 0
    BY DEF Holders
  <2>2. \A k \in live' : ~(OnHeap(store', k) /\ store'.ptr[k] = p)
    BY DEF Holders
  <2> QED BY <2>1, <2>2 DEF BlocksKept, Accounted
<1>3. BlocksKept => [Asked]_vars
  BY <1>2
<1> QED BY <1>1, <1>3, Invariant, PTL DEF Spec, OnlyEmptyVectorsLoseBlocks

----------------------------------------------------------------------------
(***************************************************************************)
(* No operation writes past the capacity of the buffer it edits.  The      *)
(* inductive invariant adds two facts to the soundness of the storage: the *)
(* cells beyond every capacity were never written, and a dead handle has   *)
(* left nothing behind in its inline bytes (from_vec and into_vec put a    *)
(* pointer there without clearing them).                                   *)
(***************************************************************************)

(* Cells that hold nothing from c on.                                      *)
FitIn(cells, c) == \A i \in Slots : i >= c => cells[i] = Uninit

Fits(s, h) ==
  /\ FitIn(s.mem[h], InlineSize[h])
  /\ OnHeap(s, h) => s.mem[h] = Blank /\ FitIn(s.mem[s.ptr[h]], s.cap[h])

Bounded(s) == Sound(s) /\ \A h \in Handles : Fits(s, h)

(* A step that keeps Bounded and leaves the bytes of every other vector,   *)
(* those in its inline array and those of its buffer.                      *)
BoundedStep(s, g, h) ==
  /\ Bounded(g)
  /\ \A k \in Handles \ {h} : g.mem[k] = s.mem[k] /\ Cells(g, k) = Cells(s, k)

(* The handles outside l have nothing in their inline bytes.               *)
Tidy(s, l) == \A h \in Handles \ l : s.mem[h] = Blank

BInv == IInv /\ Bounded(store) /\ Tidy(store, live)

----------------------------------------------------------------------------
(* Cells.                                                                  *)

(* Nothing fits anywhere; copies and wipes below c keep what is above it.  *)
LEMMA BlankFits ==
  ASSUME NEW c
  PROVE  FitIn(Blank, c)
  BY DEF FitIn, Blank

LEMMA CopyFits ==
  ASSUME NEW src \in Block, NEW from \in Nat, NEW dst \in Block, NEW to \in Nat, NEW n \in Int,
         NEW c \in Nat, FitIn(dst, c), to + n <= c, from + n <= MaxCap
  PROVE  FitIn(Copy(src, from, dst, to, n), c)
  BY RawAssumption DEF FitIn, Copy, Slots

LEMMA WipeFits ==
  ASSUME NEW cells \in Block, NEW from \in Nat, NEW n \in Int, NEW c \in Nat, FitIn(cells, c)
  PROVE  FitIn(Wipe(cells, from, n), c)
  BY RawAssumption DEF FitIn, Wipe, Slots

LEMMA ShiftFits ==
  ASSUME NEW cells \in Block, NEW from \in Nat, NEW to \in Nat, NEW n \in Int,
         NEW c \in Nat, FitIn(cells, c), to + n <= c, from + n <= MaxCap
  PROVE  FitIn(Shift(cells, from, to, n), c)
<1> DEFINE wiped == Wipe(cells, from, n)
<1>1. FitIn(wiped, c) /\ wiped \in Block
  BY WipeFits, WipeType
<1> HIDE DEF wiped
<1>2. FitIn(Copy(cells, from, wiped, to, n), c)
  BY <1>1, CopyFits
<1> QED BY <1>2 DEF Shift, wiped

LEMMA FilledFits ==
  ASSUME NEW f, NEW n \in Nat, NEW c \in Nat, n <= c
  PROVE  FitIn(Filled(f, n), c)
  BY RawAssumption DEF FitIn, Filled, Slots

(* The cells of a bounded vector end at its capacity.                      *)
LEMMA CellsFit ==
  ASSUME NEW s, Bounded(s), NEW h \in Handles
  PROVE  FitIn(Cells(s, h), Capacity(s, h))
  BY DEF Bounded, Fits, Cells, AsPtr, Capacity

----------------------------------------------------------------------------
(* Storage operators.                                                      *)

(* A step that writes h and, among the blocks, only h's own and free ones. *)
LEMMA FrameFits ==
  ASSUME NEW s, Bounded(s), NEW h \in Handles, NEW g, Sound(g), OnlyTouches(s, g, {h}),
         Fits(g, h),
         \A k \in Handles \ {h} : g.mem[k] = s.mem[k],
         \A p \in Ptrs : s.size[p] # 0 /\ ~(OnHeap(s, h) /\ s.ptr[h] = p)
                           => g.mem[p] = s.mem[p]
  PROVE  BoundedStep(s, g, h)
<1>1. ASSUME NEW k \in Handles \ {h}
      PROVE  Fits(g, k) /\ Cells(g, k) = Cells(s, k)
  <2>1. /\ OnHeap(g, k) = OnHeap(s, k) /\ g.ptr[k] = s.ptr[k] /\ g.cap[k] = s.cap[k]
        /\ g.mem[k] = s.mem[k]
    BY DEF OnlyTouches, OnHeap
  <2>2. OnHeap(s, k) => g.mem[s.ptr[k]] = s.mem[s.ptr[k]]
    BY DEF Bounded, Sound, HandleOK
  <2>3. Fits(g, k)
    BY <2>1, <2>2 DEF Bounded, Fits
  <2>4. Cells(g, k) = Cells(s, k)
    BY <2>1, <2>2 DEF Cells, AsPtr
  <2> QED BY <2>3, <2>4
<1> QED BY <1>1 DEF Bounded, BoundedStep

(* An inline array with cells that fit it.                                 *)
LEMMA NewInlineFits ==
  ASSUME NEW s, Bounded(s), NEW h \in Handles
  PROVE  BoundedStep(s, NewInline(s, h), h) /\ NewInline(s, h).mem[h] = Blank
<1> DEFINE g == NewInline(s, h)
<1>1. Sound(g) /\ ~OnHeap(g, h) /\ OnlyTouches(s, g, {h})
  BY NewInlineSound, NewFrame, SoundShaped DEF Bounded
<1>2. g.mem = [s.mem EXCEPT ![h] = Blank]
  BY DEF NewInline, SetInline, SetHandle
<1>3. s.mem \in Memory /\ h \notin Ptrs
  BY RawAssumption DEF Bounded, Sound, Storage
<1> HIDE DEF g
<1>4. Fits(g, h)
  BY <1>1, <1>2, <1>3, BlankFits DEF Fits, Memory
<1>5. \A a \in (Handles \cup Ptrs) \ {h} : g.mem[a] = s.mem[a]
  BY <1>2, <1>3 DEF Memory
<1>6. BoundedStep(s, g, h) /\ g.mem[h] = Blank
  BY <1>1, <1>2, <1>3, <1>4, <1>5, FrameFits DEF Memory
<1> QED BY <1>6 DEF g

(* Where a write followed by set_len lands.                                *)
LEMMA EditedMem ==
  ASSUME NEW s, Shaped(s), NEW h \in Handles, NEW n, NEW cells
  PROVE  Edited(s, h, cells, n).mem = [s.mem EXCEPT ![AsPtr(s, h)] = cells]
<1>1. [s EXCEPT !.mem[AsPtr(s, h)] = cells] =
        [word |-> s.word, ptr |-> s.ptr, cap |-> s.cap,
         mem |-> [s.mem EXCEPT ![AsPtr(s, h)] = cells], size |-> s.size]
  BY DEF Shaped
<1> QED BY <1>1 DEF Edited, SetLen

(* Writes below the capacity.                                              *)
LEMMA EditedFits ==
  ASSUME NEW s, Bounded(s), NEW h \in Handles, NEW cells \in Block, FitIn(cells, Capacity(s, h)),
         NEW n \in Nat, n <= Capacity(s, h), \A i \in 0 .. n - 1 : cells[i] \in Elems
  PROVE  BoundedStep(s, Edited(s, h, cells, n), h)
<1> DEFINE g == Edited(s, h, cells, n)
<1>1. /\ Sound(g) /\ OnlyTouches(s, g, {h})
      /\ OnHeap(g, h) = OnHeap(s, h)
  BY EditedSound, SetFrame, SoundShaped DEF Bounded
<1>2. SamePlace(s, g, h)
  <2>1. n \in 0 .. MaxCap /\ OnHeap(s, h) \in BOOLEAN /\ Shaped(s)
    <3>1. Capacity(s, h) \in 0 .. MaxCap
      BY SoundLen DEF Bounded
    <3> QED BY <3>1, RawAssumption, LenType, SoundShaped DEF Bounded, Sound
  <2> QED BY <2>1, EditedStays
<1>3. g.mem = [s.mem EXCEPT ![AsPtr(s, h)] = cells]
  BY EditedMem, SoundShaped DEF Bounded
<1>4. s.mem \in Memory /\ AsPtr(s, h) \in Handles \cup Ptrs
  BY SoundLen DEF Bounded, Sound, Storage
<1> HIDE DEF g
<1>5. /\ g.mem[AsPtr(s, h)] = cells
      /\ \A a \in (Handles \cup Ptrs) \ {AsPtr(s, h)} : g.mem[a] = s.mem[a]
  BY <1>3, <1>4 DEF Memory
<1>6. Fits(g, h)
  <2>1. CASE OnHeap(s, h)
    <3>1. h # AsPtr(s, h) /\ AsPtr(s, h) = s.ptr[h] /\ g.ptr[h] = s.ptr[h] /\ g.cap[h] = s.cap[h]
          /\ Capacity(s, h) = s.cap[h]
      BY <1>1, <1>2, <2>1, RawAssumption DEF Bounded, Sound, HandleOK, AsPtr, SamePlace, Capacity
    <3> QED BY <1>1, <1>5, <2>1, <3>1 DEF Bounded, Fits
  <2>2. CASE ~OnHeap(s, h)
    BY <1>1, <1>5, <2>2 DEF Fits, AsPtr, Capacity
  <2> QED BY <2>1, <2>2
<1>7. \A k \in Handles \ {h} : k # AsPtr(s, h)
  BY RawAssumption DEF Bounded, Sound, HandleOK, AsPtr
<1>8. \A p \in Ptrs : s.size[p] # 0 /\ ~(OnHeap(s, h) /\ s.ptr[h] = p) => p # AsPtr(s, h)
  BY RawAssumption DEF AsPtr
<1>9. BoundedStep(s, g, h)
  BY <1>1, <1>5, <1>6, <1>7, <1>8, FrameFits
<1> QED BY <1>9 DEF g

(* A new block for h, with cells that fit it; b is s, or s with h's block  *)
(* released.                                                               *)
LEMMA NewHeapFits ==
  ASSUME NEW s, Bounded(s), NEW h \in Handles, NEW b,
         b = s \/ (OnHeap(s, h) /\ b = Dealloc(s, s.ptr[h])),
         NEW p \in Ptrs, s.size[p] = 0 \/ (OnHeap(s, h) /\ s.ptr[h] = p),
         NEW c \in 1 .. MaxCap, NEW cells \in Block, FitIn(cells, c),
         NEW g, g = SetOnHeap(NewHeap(b, h, p, c, cells), h), Sound(g), OnHeap(g, h)
  PROVE  BoundedStep(s, g, h)
<1> DEFINE x == NewHeap(b, h, p, c, cells)
<1>1. s \in Storage /\ Shaped(s) /\ (OnHeap(s, h) => s.ptr[h] \in Ptrs) /\ h # p /\ h \notin Ptrs
  BY SoundShaped, RawAssumption DEF Bounded, Sound, HandleOK
<1>2. /\ OnlyTouches(s, b, {}) /\ Shaped(b) /\ b.mem \in Memory
      /\ \A a \in (Handles \cup Ptrs) : ~(OnHeap(s, h) /\ s.ptr[h] = a) => b.mem[a] = s.mem[a]
  <2>1. CASE b = s
    BY <1>1, <2>1 DEF OnlyTouches, Storage
  <2>2. CASE OnHeap(s, h) /\ b = Dealloc(s, s.ptr[h])
    <3>1. OnlyTouches(s, b, {}) /\ Shaped(b)
      <4>1. OnlyTouches(s, Dealloc(s, s.ptr[h]), {})
        BY <1>1, MemoryFrame
      <4> QED BY <2>2, <4>1 DEF OnlyTouches
    <3>2. b \in Storage /\ \A a \in (Handles \cup Ptrs) \ {s.ptr[h]} : b.mem[a] = s.mem[a]
      BY <1>1, <2>2, DeallocType
    <3> QED BY <2>2, <3>1, <3>2 DEF Storage
  <2> QED BY <2>1, <2>2
<1>3. /\ OnlyTouches(b, x, {h}) /\ Shaped(x)
      /\ x.mem = [b.mem EXCEPT ![h] = Blank, ![p] = cells]
      /\ x.ptr = [b.ptr EXCEPT ![h] = p] /\ x.cap = [b.cap EXCEPT ![h] = c]
  <2>1. OnlyTouches(b, x, {h})
    BY <1>2, NewFrame
  <2>2. /\ x.mem = [b.mem EXCEPT ![h] = Blank, ![p] = cells]
        /\ x.ptr = [b.ptr EXCEPT ![h] = p] /\ x.cap = [b.cap EXCEPT ![h] = c]
    BY DEF NewHeap, SetHandle
  <2> QED BY <2>1, <2>2 DEF OnlyTouches
<1> HIDE DEF x
<1>4. /\ OnlyTouches(x, g, {h})
      /\ g.mem = x.mem /\ g.ptr = x.ptr /\ g.cap = x.cap
  <2>1. g = [x EXCEPT !.word[h] = TaggedLen(LenOf(x, h), TRUE)]
    BY DEF SetOnHeap, x
  <2> DEFINE w == TaggedLen(LenOf(x, h), TRUE)
  <2>2. OnlyTouches(x, g, {h})
    <3>1. g = [x EXCEPT !.word[h] = w]
      BY <2>1
    <3> HIDE DEF w
    <3> QED BY <1>3, <3>1, WordFrame
  <2>3. x = [word |-> x.word, ptr |-> x.ptr, cap |-> x.cap, mem |-> x.mem, size |-> x.size]
    BY <1>3 DEF Shaped
  <2> QED BY <2>1, <2>2, <2>3
<1>5. OnlyTouches(s, g, {h})
  <2>1. OnlyTouches(s, x, {} \cup {h})
    BY <1>2, <1>3, FramesCompose
  <2>2. OnlyTouches(s, g, ({} \cup {h}) \cup {h})
    BY <1>4, <2>1, FramesCompose
  <2>3. ({} \cup {h}) \cup {h} = {h}
    OBVIOUS
  <2> QED BY <2>2, <2>3
<1>6. /\ g.mem[h] = Blank /\ g.mem[p] = cells /\ g.ptr[h] = p /\ g.cap[h] = c
      /\ \A a \in (Handles \cup Ptrs) \ {h, p} : g.mem[a] = b.mem[a]
  BY <1>1, <1>2, <1>3, <1>4 DEF Memory, Shaped
<1>7. Fits(g, h)
  BY <1>6, BlankFits DEF Fits
<1>8. \A k \in Handles \ {h} : g.mem[k] = s.mem[k]
  <2>1. \A k \in Handles : k # p /\ k \in Handles \cup Ptrs /\ (OnHeap(s, h) => s.ptr[h] # k)
    BY <1>1, RawAssumption
  <2> QED BY <1>2, <1>6, <2>1
<1>9. \A q \in Ptrs : s.size[q] # 0 /\ ~(OnHeap(s, h) /\ s.ptr[h] = q) => g.mem[q] = s.mem[q]
  BY <1>1, <1>2, <1>6
<1> QED BY <1>5, <1>7, <1>8, <1>9, FrameFits

(* try_grow_raw, with the caller's set_on_heap.                            *)
LEMMA TryGrowRawFits ==
  ASSUME NEW s, Bounded(s), NEW h \in Handles, NEW c \in Nat, 0 < c, LenOf(s, h) <= c,
         NEW x \in TryGrowRaw(s, h, c)
  PROVE  BoundedStep(s, SetOnHeap(x, h), h)
<1> DEFINE len  == LenOf(s, h)
           old  == s.ptr[h]
           kept == IF s.cap[h] < c THEN s.cap[h] ELSE c
           zero == 0
           src  == Cells(s, h)
           g    == SetOnHeap(x, h)
<1>1. c \in 1 .. MaxCap /\ Sound(s) /\ src \in Block /\ len \in 0 .. MaxCap /\ s.cap[h] \in 0 .. MaxCap
  BY SoundLen, RawAssumption DEF TryGrowRaw, Bounded, Sound, Storage
<1>2. Sound(g) /\ OnHeap(g, h)
  BY <1>1, TryGrowRawSound
<1>3. ASSUME NEW n \in Nat, n <= c
      PROVE  /\ Copy(src, 0, Blank, 0, n) \in Block
             /\ FitIn(Copy(src, 0, Blank, 0, n), c)
  <2>1. zero \in Nat /\ zero + n <= c /\ zero + n <= MaxCap /\ zero = 0 /\ n \in Int
    BY <1>1, <1>3, RawAssumption
  <2> HIDE DEF zero, src
  <2>2. Copy(src, zero, Blank, zero, n) \in Block /\ FitIn(Copy(src, zero, Blank, zero, n), c)
    BY <1>1, <2>1, BlankType, BlankFits, CopyType, CopyFits
  <2> QED BY <2>1, <2>2
<1>4. PICK p \in Ptrs, n \in Nat, b \in {s, Dealloc(s, old)} :
         /\ b = s \/ (OnHeap(s, h) /\ b = Dealloc(s, old))
         /\ s.size[p] = 0 \/ (OnHeap(s, h) /\ old = p)
         /\ n <= c
         /\ x = NewHeap(b, h, p, c, Copy(src, 0, Blank, 0, n))
  <2>1. CASE len = 0 \/ ~OnHeap(s, h)
    <3>1. PICK p \in FreePtrs(s) : x = NewHeap(s, h, p, c, Copy(src, 0, Blank, 0, len))
      BY <1>1, <2>1, RawAssumption DEF TryGrowRaw
    <3> QED BY <1>1, <3>1 DEF FreePtrs
  <2>2. CASE ~(len = 0 \/ ~OnHeap(s, h))
    <3>1. PICK p \in FreePtrs(s) \cup {old} :
             x = NewHeap(Dealloc(s, old), h, p, c, Copy(s.mem[old], 0, Blank, 0, kept))
      BY <1>1, <2>2, RawAssumption DEF TryGrowRaw
    <3>2. old \in Ptrs /\ s.mem[old] = src /\ OnHeap(s, h)
      BY <1>1, <2>2 DEF Sound, HandleOK, Cells, AsPtr
    <3>3. kept \in Nat /\ kept <= c
      BY <1>1, RawAssumption
    <3>4. p \in Ptrs /\ (s.size[p] = 0 \/ old = p)
      BY <3>1, <3>2 DEF FreePtrs
    <3> HIDE DEF kept, old, src
    <3>5. x = NewHeap(Dealloc(s, old), h, p, c, Copy(src, 0, Blank, 0, kept))
      BY <3>1, <3>2
    <3> QED BY <3>2, <3>3, <3>4, <3>5
  <2> QED BY <2>1, <2>2
<1> DEFINE cells == Copy(src, 0, Blank, 0, n)
<1>5. cells \in Block /\ FitIn(cells, c) /\ g = SetOnHeap(NewHeap(b, h, p, c, cells), h)
  BY <1>3, <1>4
<1> HIDE DEF cells, g
<1>6. BoundedStep(s, g, h)
  BY <1>1, <1>2, <1>4, <1>5, NewHeapFits
<1> QED BY <1>6 DEF g

(* The return to the inline array.                                         *)
LEMMA UnspillFits ==
  ASSUME NEW s, Bounded(s), NEW h \in Handles, OnHeap(s, h), LenOf(s, h) <= InlineSize[h]
  PROVE  BoundedStep(s, Unspill(s, h), h)
<1> DEFINE n     == LenOf(s, h)
           zero  == 0
           cells == Copy(Cells(s, h), zero, Blank, zero, n)
           w     == TaggedLen(n, FALSE)
           m     == SetInline(s, h, w, cells)
           p     == s.ptr[h]
           g     == Dealloc(m, p)
<1>1. g = Unspill(s, h) /\ Sound(s) /\ Shaped(s)
  BY SoundShaped DEF Unspill, Bounded
<1>2. Sound(g) /\ ~OnHeap(g, h) /\ OnlyTouches(s, g, {h})
  BY <1>1, UnspillSound, UnspillFrame
<1>3. FitIn(cells, InlineSize[h])
  <2>1. /\ n \in 0 .. MaxCap /\ Cells(s, h) \in Block /\ InlineSize[h] \in 0 .. MaxCap
        /\ n <= InlineSize[h]
    BY <1>1, SoundLen, RawAssumption
  <2>2. zero \in Nat /\ n \in Int /\ zero + n <= InlineSize[h] /\ zero + n <= MaxCap
        /\ InlineSize[h] \in Nat
    BY <2>1, RawAssumption
  <2> HIDE DEF zero, n
  <2> QED BY <2>1, <2>2, BlankType, BlankFits, CopyFits
<1>4. p \in Ptrs /\ h \notin Ptrs /\ s.mem \in Memory
  BY <1>1, RawAssumption DEF Sound, HandleOK, Storage
<1> HIDE DEF cells, w, p
<1>5. Shaped(m) /\ m.mem = [s.mem EXCEPT ![h] = cells]
  BY <1>1, NewFrame DEF OnlyTouches, SetInline, SetHandle
<1> HIDE DEF m
<1>6. g.mem = [m.mem EXCEPT ![p] = Blank]
  BY <1>5 DEF Dealloc, Shaped
<1> HIDE DEF g
<1>7. g.mem[h] = cells /\ \A a \in (Handles \cup Ptrs) \ {h, p} : g.mem[a] = s.mem[a]
  BY <1>4, <1>5, <1>6 DEF Memory
<1>8. Fits(g, h)
  BY <1>2, <1>3, <1>7 DEF Fits
<1>9. \A k \in Handles \ {h} : g.mem[k] = s.mem[k]
  BY <1>4, <1>7, RawAssumption
<1>10. \A q \in Ptrs : s.size[q] # 0 /\ ~(OnHeap(s, h) /\ s.ptr[h] = q) => g.mem[q] = s.mem[q]
  BY <1>4, <1>7 DEF p
<1>11. BoundedStep(s, g, h)
  BY <1>2, <1>8, <1>9, <1>10, FrameFits
<1> QED BY <1>1, <1>11

(* Doing nothing, and one step after another.                              *)
LEMMA BoundedStutter ==
  ASSUME NEW s, Bounded(s), NEW h
  PROVE  BoundedStep(s, s, h)
  BY DEF BoundedStep

LEMMA BoundedCompose ==
  ASSUME NEW s, NEW m, NEW g, NEW h, BoundedStep(s, m, h), BoundedStep(m, g, h)
  PROVE  BoundedStep(s, g, h)
  BY DEF BoundedStep

LEMMA TryGrowFits ==
  ASSUME NEW s, Bounded(s), NEW h \in Handles, NEW c \in Nat, LenOf(s, h) <= c,
         NEW g \in TryGrow(s, h, c)
  PROVE  BoundedStep(s, g, h)
<1>1. InlineSize[h] \in Nat /\ LenOf(s, h) \in Nat
  BY SoundLen, RawAssumption DEF Bounded
<1>2. CASE c > InlineSize[h]
  <2>1. PICK x \in TryGrowRaw(s, h, c) : g = SetOnHeap(x, h)
    BY <1>2 DEF TryGrow
  <2>2. 0 < c
    BY <1>1, <1>2
  <2> QED BY <2>1, <2>2, TryGrowRawFits
<1>3. CASE ~(c > InlineSize[h])
  <2>1. g = s \/ (OnHeap(s, h) /\ g = Unspill(s, h))
    BY <1>3 DEF TryGrow
  <2>2. LenOf(s, h) <= InlineSize[h]
    BY <1>1, <1>3
  <2> QED BY <2>1, <2>2, UnspillFits, BoundedStutter
<1> QED BY <1>2, <1>3

(* reserve and reserve_exact.                                              *)
LEMMA ReserveFits ==
  ASSUME NEW s, Bounded(s), NEW h \in Handles, NEW additional \in Nat, NEW g,
         g \in Reserve(s, h, additional) \/ g \in ReserveExact(s, h, additional)
  PROVE  BoundedStep(s, g, h)
<1> DEFINE n == LenOf(s, h) + additional
<1>1. LenOf(s, h) \in Nat /\ n \in Nat /\ LenOf(s, h) <= n
  BY SoundLen, RawAssumption DEF Bounded
<1>2. CASE g = s
  BY <1>2, BoundedStutter
<1>3. CASE g \in TryGrow(s, h, n)
  <2> HIDE DEF n
  <2> QED BY <1>1, <1>3, TryGrowFits
<1>4. ASSUME NEW c \in NextPowerOfTwo(n), g \in TryGrow(s, h, c)
      PROVE  BoundedStep(s, g, h)
  <2>1. c \in Nat /\ n <= c
    BY <1>4, RawAssumption DEF NextPowerOfTwo, PowersOfTwo
  <2>2. LenOf(s, h) <= c
    BY <1>1, <2>1
  <2> QED BY <1>4, <2>1, <2>2, TryGrowFits
<1> QED BY <1>2, <1>3, <1>4 DEF Reserve, ReserveExact

(* shrink_to_fit and shrink_to.                                            *)
LEMMA ShrinkFits ==
  ASSUME NEW s, Bounded(s), NEW h \in Handles, NEW minCapacity \in Nat, NEW g,
         g \in ShrinkToFit(s, h) \/ g \in ShrinkTo(s, h, minCapacity)
  PROVE  BoundedStep(s, g, h)
<1> DEFINE target == IF LenOf(s, h) < minCapacity THEN minCapacity ELSE LenOf(s, h)
<1>1. LenOf(s, h) \in Nat /\ InlineSize[h] \in Nat /\ Sound(s)
      /\ target \in Nat /\ LenOf(s, h) <= target
  BY SoundLen, RawAssumption DEF Bounded
<1>2. CASE g = s
  BY <1>2, BoundedStutter
<1>3. CASE OnHeap(s, h) /\ LenOf(s, h) <= InlineSize[h] /\ g = Unspill(s, h)
  BY <1>3, UnspillFits
<1>4. ASSUME NEW c \in Nat, OnHeap(s, h), LenOf(s, h) <= c, 0 < c, g \in TryGrowRaw(s, h, c)
      PROVE  BoundedStep(s, g, h)
  <2>1. SetOnHeap(g, h) = g /\ BoundedStep(s, SetOnHeap(g, h), h)
    BY <1>1, <1>4, AlreadyTagged, TryGrowRawFits
  <2> QED BY <2>1
<1>5. CASE g \in ShrinkToFit(s, h) /\ g # s
  <2>1. \/ OnHeap(s, h) /\ LenOf(s, h) <= InlineSize[h] /\ g = Unspill(s, h)
        \/ OnHeap(s, h) /\ 0 < LenOf(s, h) /\ g \in TryGrowRaw(s, h, LenOf(s, h))
    BY <1>1, <1>5 DEF ShrinkToFit
  <2> QED BY <1>1, <1>3, <1>4, <2>1
<1>6. CASE g \in ShrinkTo(s, h, minCapacity) /\ g # s
  <2>1. \/ OnHeap(s, h) /\ target <= InlineSize[h] /\ g = Unspill(s, h)
        \/ OnHeap(s, h) /\ 0 < target /\ g \in TryGrowRaw(s, h, target)
    BY <1>1, <1>6 DEF ShrinkTo
  <2> HIDE DEF target
  <2>2. target <= InlineSize[h] => LenOf(s, h) <= InlineSize[h]
    BY <1>1
  <2> QED BY <1>1, <1>3, <1>4, <2>1, <2>2
<1> QED BY <1>2, <1>5, <1>6

(* with_capacity.                                                          *)
LEMMA WithCapacityFits ==
  ASSUME NEW s, Bounded(s), NEW h \in Handles, NEW c \in Nat, NEW g \in WithCapacity(s, h, c)
  PROVE  BoundedStep(s, g, h)
<1> DEFINE m == NewInline(s, h)
<1>1. BoundedStep(s, m, h) /\ Bounded(m) /\ LenOf(m, h) = 0
  BY NewInlineFits, NewInlineSound DEF BoundedStep, Bounded
<1>2. g = m \/ g \in TryGrow(m, h, c)
  BY DEF WithCapacity
<1> HIDE DEF m
<1>3. CASE g \in TryGrow(m, h, c)
  <2>1. LenOf(m, h) <= c
    BY <1>1
  <2> QED BY <1>1, <1>3, <2>1, TryGrowFits, BoundedCompose
<1> QED BY <1>1, <1>2, <1>3

(* Drop.                                                                   *)
LEMMA ReleasedFits ==
  ASSUME NEW s, Bounded(s), NEW h \in Handles
  PROVE  BoundedStep(s, Released(s, h), h) /\ Released(s, h).mem[h] = Blank
<1> DEFINE p == s.ptr[h]
           b == IF OnHeap(s, h) THEN Dealloc(s, p) ELSE s
           g == NewInline(b, h)
<1>1. g = Released(s, h) /\ Sound(s) /\ Shaped(s) /\ s.mem \in Memory
  BY SoundShaped DEF Released, Bounded, Sound, Storage
<1>2. Sound(g) /\ ~OnHeap(g, h) /\ OnlyTouches(s, g, {h})
  BY <1>1, ReleasedSound, ReleasedFrame
<1>3. h \notin Ptrs /\ (OnHeap(s, h) => p \in Ptrs)
  BY <1>1, RawAssumption DEF Sound, HandleOK
<1>4. b.mem = IF OnHeap(s, h) THEN [s.mem EXCEPT ![p] = Blank] ELSE s.mem
  BY <1>1 DEF Dealloc, Shaped
<1> HIDE DEF p, b
<1>5. g.mem = [b.mem EXCEPT ![h] = Blank]
  BY DEF NewInline, SetInline, SetHandle
<1> HIDE DEF g
<1>6. /\ g.mem[h] = Blank
      /\ \A a \in (Handles \cup Ptrs) \ {h} : ~(OnHeap(s, h) /\ p = a) => g.mem[a] = s.mem[a]
  BY <1>1, <1>3, <1>4, <1>5 DEF Memory
<1>7. Fits(g, h)
  BY <1>2, <1>6, BlankFits DEF Fits
<1>8. \A k \in Handles \ {h} : g.mem[k] = s.mem[k]
  BY <1>3, <1>6, RawAssumption
<1>9. \A q \in Ptrs : s.size[q] # 0 /\ ~(OnHeap(s, h) /\ s.ptr[h] = q) => g.mem[q] = s.mem[q]
  BY <1>3, <1>6 DEF p
<1> QED BY <1>1, <1>2, <1>6, <1>7, <1>8, <1>9, FrameFits

(* A hand-over to a handle that left nothing behind.                       *)
LEMMA HandOverFits ==
  ASSUME NEW s, Bounded(s), NEW h \in Handles, OnHeap(s, h), NEW k \in Handles \ {h},
         s.mem[k] = Blank
  PROVE  LET g == HandOver(s, h, k)
         IN  /\ Bounded(g)
             /\ g.mem[h] = Blank
             /\ \A l \in Handles \ {h} : g.mem[l] = s.mem[l]
             /\ \A l \in Handles \ {h, k} : Cells(g, l) = Cells(s, l)
<1> DEFINE m == SetHandle(s, k, s.word[h], s.ptr[h], s.cap[h], s.mem, s.size)
           g == HandOver(s, h, k)
<1>1. Sound(g) /\ OnHeap(g, k) /\ ~OnHeap(g, h) /\ OnlyTouches(s, g, {h, k}) /\ Shaped(s)
  BY HandOverSound, HandOverFrame, SoundShaped DEF Bounded
<1>2. s.mem \in Memory /\ h \notin Ptrs /\ h # k
  BY RawAssumption DEF Bounded, Sound, Storage
<1>3. m.mem = s.mem /\ m.ptr[k] = s.ptr[h] /\ m.cap[k] = s.cap[h] /\ g = NewInline(m, h)
      /\ Shaped(m)
  BY <1>1, SetHandleFrame DEF HandOver, SetHandle, Shaped, OnlyTouches
<1> HIDE DEF m
<1>4. g.mem = [m.mem EXCEPT ![h] = Blank] /\ g.ptr[k] = m.ptr[k] /\ g.cap[k] = m.cap[k]
  BY <1>2, <1>3 DEF NewInline, SetInline, SetHandle, Shaped
<1> HIDE DEF g
<1>5. /\ g.mem[h] = Blank /\ \A a \in (Handles \cup Ptrs) \ {h} : g.mem[a] = s.mem[a]
      /\ g.ptr[k] = s.ptr[h] /\ g.cap[k] = s.cap[h]
  BY <1>2, <1>3, <1>4 DEF Memory
<1>6. Fits(g, h)
  BY <1>1, <1>5, BlankFits DEF Fits
<1>7. Fits(g, k)
  <2>1. s.ptr[h] \in Ptrs /\ FitIn(s.mem[s.ptr[h]], s.cap[h])
    BY DEF Bounded, Fits, Sound, HandleOK
  <2>2. g.mem[s.ptr[h]] = s.mem[s.ptr[h]] /\ g.mem[k] = Blank
    BY <1>2, <1>5, <2>1
  <2> QED BY <1>5, <2>1, <2>2, BlankFits DEF Fits
<1>8. ASSUME NEW l \in Handles \ {h, k}
      PROVE  Fits(g, l) /\ Cells(g, l) = Cells(s, l)
  <2>1. OnHeap(g, l) = OnHeap(s, l) /\ g.ptr[l] = s.ptr[l] /\ g.cap[l] = s.cap[l]
    BY <1>1 DEF OnlyTouches, OnHeap
  <2>2. (OnHeap(s, l) => s.ptr[l] \in Ptrs) /\ Fits(s, l)
    BY DEF Bounded, Sound, HandleOK
  <2>3. g.mem[l] = s.mem[l] /\ (OnHeap(s, l) => g.mem[s.ptr[l]] = s.mem[s.ptr[l]])
    BY <1>2, <1>5, <2>2
  <2>4. Fits(g, l)
    BY <2>1, <2>2, <2>3 DEF Fits
  <2>5. Cells(g, l) = Cells(s, l)
    BY <2>1, <2>3 DEF Cells, AsPtr
  <2> QED BY <2>4, <2>5
<1>9. Bounded(g)
  BY <1>1, <1>6, <1>7, <1>8 DEF Bounded
<1> QED BY <1>5, <1>8, <1>9 DEF g

(* set_len on its own.                                                     *)
LEMMA SetLenFits ==
  ASSUME NEW s, Bounded(s), NEW h \in Handles, NEW n \in 0 .. MaxCap, Sound(SetLen(s, h, n))
  PROVE  BoundedStep(s, SetLen(s, h, n), h)
<1> DEFINE g == SetLen(s, h, n)
<1>1. /\ g.ptr = s.ptr /\ g.cap = s.cap /\ g.mem = s.mem
      /\ OnHeap(g, h) = OnHeap(s, h) /\ OnlyTouches(s, g, {h})
  <2>1. Sound(s) /\ s \in Storage /\ Shaped(s)
    BY SoundShaped DEF Bounded, Sound
  <2>2. OnlyTouches(s, g, {h})
    BY <2>1, SetFrame
  <2>3. /\ g.ptr = s.ptr /\ g.cap = s.cap /\ g.mem = s.mem
        /\ OnHeap(g, h) = OnHeap(s, h)
    BY <2>1, SetLenType
  <2> QED BY <2>2, <2>3
<1> HIDE DEF g
<1>2. Fits(g, h)
  BY <1>1 DEF Bounded, Fits
<1>3. Sound(g)
  BY DEF g
<1>4. BoundedStep(s, g, h)
  BY <1>1, <1>2, <1>3, FrameFits
<1> QED BY <1>4 DEF g

----------------------------------------------------------------------------
(* The steps.                                                              *)

BoundedAfter == Bounded(store') /\ Tidy(store', live')

(* Only h may have died, and then its bytes are clear.                     *)
LEMMA TidyStep ==
  ASSUME NEW s, NEW l, Tidy(s, l), NEW h, NEW g, BoundedStep(s, g, h),
         NEW m, l \subseteq m \cup {h}, h \in m \/ g.mem[h] = Blank
  PROVE  Bounded(g) /\ Tidy(g, m)
  BY DEF BoundedStep, Tidy

(* Constructors.                                                           *)
LEMMA ConstructBounded ==
  ASSUME BInv, NEW h \in Handles, NEW n \in Nat,
         \/ New(h) \/ NewWithCapacity(h, n) \/ FromBuf(h, n) \/ FromBufAndLen(h, n)
         \/ FromBufAndLenPanics(h, n) \/ FromArray(h, n)
  PROVE  BoundedAfter
<1> DEFINE m == NewInline(store, h)
<1>1. /\ Bounded(store) /\ Tidy(store, live) /\ InlineSize[h] \in 0 .. MaxCap /\ InlineSize[h] \in Nat
      /\ caller \subseteq Elems
  BY RawAssumption DEF BInv, IInv
<1>2. /\ BoundedStep(store, m, h) /\ Bounded(m) /\ Sound(m)
      /\ LenOf(m, h) = 0 /\ ~OnHeap(m, h) /\ Capacity(m, h) = InlineSize[h]
  BY <1>1, NewInlineFits, NewInlineSound DEF BoundedStep, Bounded
<1> HIDE DEF m
<1>3. ASSUME BoundedStep(store, store', h), live' = live \cup {h}
      PROVE  BoundedAfter
  BY <1>1, <1>3, TidyStep DEF BoundedAfter
<1>4. CASE New(h)
  BY <1>2, <1>3, <1>4 DEF New, Construct, m
<1>5. CASE NewWithCapacity(h, n)
  <2>1. store' \in WithCapacity(store, h, n) /\ live' = live \cup {h}
    BY <1>5 DEF NewWithCapacity, Construct
  <2>2. BoundedStep(store, store', h)
    BY <1>1, <2>1, WithCapacityFits
  <2> QED BY <1>3, <2>1, <2>2
<1>6. CASE FromBuf(h, n) \/ FromBufAndLen(h, n)
  <2>1. n <= InlineSize[h] /\ n <= MaxCap /\ live' = live \cup {h}
    BY <1>1, <1>6, RawAssumption DEF FromBuf, FromBufAndLen, Construct
  <2>2. PICK k \in Nat : n <= k /\ \E f \in Arrays(k) : store' = Edited(m, h, Filled(f, n), n)
    BY <1>1, <1>6, <2>1 DEF FromBuf, FromBufAndLen, m
  <2>5. PICK f \in Arrays(k) : store' = Edited(m, h, Filled(f, n), n)
    BY <2>2
  <2>3. /\ Filled(f, n) \in Block /\ (\A i \in 0 .. n - 1 : Filled(f, n)[i] \in Elems)
        /\ FitIn(Filled(f, n), InlineSize[h])
    BY <1>1, <2>1, <2>2, FilledType, FilledFits
  <2>4. BoundedStep(m, store', h)
    BY <1>2, <2>1, <2>3, <2>5, EditedFits
  <2> QED BY <1>2, <1>3, <2>1, <2>4, BoundedCompose
<1>7. CASE FromBufAndLenPanics(h, n)
  BY <1>1, <1>7 DEF FromBufAndLenPanics, BoundedAfter
<1>8. CASE FromArray(h, n)
  <2>1. PICK f \in Arrays(n), p \in FreePtrs(store) :
           store' = SetLen(SetOnHeap(NewHeap(m, h, p, n, Filled(f, n)), h), h, n)
    BY <1>8 DEF FromArray, m
  <2>2. n \in 1 .. MaxCap /\ n \in 0 .. MaxCap /\ n <= n /\ n <= MaxCap /\ live' = live \cup {h}
    BY <1>1, <1>8, RawAssumption DEF FromArray, Construct
  <2> DEFINE cells == Filled(f, n)
             x == SetOnHeap(NewHeap(m, h, p, n, cells), h)
  <2>3. cells \in Block /\ FitIn(cells, n) /\ \A i \in 0 .. n - 1 : cells[i] \in Elems
    BY <1>1, <2>2, FilledType, FilledFits
  <2>4. p \in Ptrs /\ m.size[p] = 0 /\ store' = SetLen(x, h, n)
    BY <1>1, <2>1, NewInlineSound DEF FreePtrs, m, Bounded
  <2> HIDE DEF cells
  <2>5. Sound(x) /\ OnHeap(x, h) /\ Capacity(x, h) = n /\ Cells(x, h) = cells
    <3>1. (\A i \in 0 .. LenOf(m, h) - 1 : cells[i] = Item(m, h, i)) /\ LenOf(m, h) <= n
      BY <1>2, <2>2
    <3>2. m \in Storage
      BY <1>2 DEF Sound
    <3> QED BY <1>2, <2>2, <2>3, <2>4, <3>1, <3>2, NewHeapSound
  <2>6. BoundedStep(m, x, h)
    BY <1>2, <2>2, <2>3, <2>4, <2>5, NewHeapFits
  <2> HIDE DEF x
  <2>7. Sound(SetLen(x, h, n))
    <3>1. \A i \in 0 .. n - 1 : Item(x, h, i) \in Elems
      BY <2>3, <2>5 DEF Item
    <3> QED BY <2>2, <2>5, <3>1, SetLenSound
  <2>8. BoundedStep(x, store', h)
    BY <2>2, <2>4, <2>6, <2>7, SetLenFits DEF BoundedStep
  <2>9. BoundedStep(store, store', h)
    BY <1>2, <2>6, <2>8, BoundedCompose
  <2> QED BY <1>3, <2>2, <2>9
<1> QED BY <1>4, <1>5, <1>6, <1>7, <1>8

(* Exchanges with the program's Vec.                                       *)
LEMMA ExchangeBounded ==
  ASSUME BInv, NEW h \in Handles, NEW c \in Nat, NEW n \in Nat,
         VecNew(c, n) \/ FromVec(h) \/ FromRawParts(h) \/ IntoVec(h) \/ Leak(h)
  PROVE  BoundedAfter
<1>1. /\ Std \in Handles /\ Bounded(store) /\ Sound(store) /\ Tidy(store, live)
      /\ caller \subseteq Elems /\ (Capacity(store, Std) # 0 => OnHeap(store, Std))
  BY StdAssumption DEF BInv, IInv, Bounded, Capacity
<1>2. ASSUME NEW a \in Handles, NEW b \in Handles \ {a}, OnHeap(store, a), b \notin live,
             store' = HandOver(store, a, b), live' = (live \ {a}) \cup {b}
      PROVE  BoundedAfter
  <2>1. store.mem[b] = Blank
    BY <1>1, <1>2 DEF Tidy
  <2>2. /\ Bounded(store') /\ store'.mem[a] = Blank
        /\ \A l \in Handles \ {a} : store'.mem[l] = store.mem[l]
    BY <1>1, <1>2, <2>1, HandOverFits
  <2> QED BY <1>1, <1>2, <2>2 DEF BoundedAfter, Tidy
<1>3. CASE VecNew(c, n)
  <2>1. PICK f \in Arrays(n), s \in WithCapacity(store, Std, c) :
           store' = Edited(s, Std, Filled(f, n), n)
    BY <1>3 DEF VecNew
  <2>2. /\ BoundedStep(store, s, Std) /\ Bounded(s) /\ Sound(s) /\ c <= Capacity(s, Std)
        /\ Capacity(s, Std) \in 0 .. MaxCap /\ Capacity(s, Std) \in Nat
    <3>1. Sound(s) /\ Capacity(s, Std) >= c /\ BoundedStep(store, s, Std)
      BY <1>1, <2>1, WithCapacitySound, WithCapacityFits
    <3>2. Capacity(s, Std) \in 0 .. MaxCap
      BY <1>1, <3>1, SoundLen
    <3> QED BY <3>1, <3>2, RawAssumption DEF BoundedStep
  <2>3. n <= c /\ n <= Capacity(s, Std) /\ n <= MaxCap /\ n <= n /\ live' = live \cup {Std}
    BY <1>3, <2>2, RawAssumption DEF VecNew
  <2>4. /\ Filled(f, n) \in Block /\ (\A i \in 0 .. n - 1 : Filled(f, n)[i] \in Elems)
        /\ FitIn(Filled(f, n), Capacity(s, Std))
    BY <1>1, <2>2, <2>3, FilledType, FilledFits
  <2>5. BoundedStep(s, store', Std)
    BY <1>1, <2>1, <2>2, <2>3, <2>4, EditedFits
  <2> QED BY <1>1, <2>2, <2>3, <2>5, BoundedCompose, TidyStep DEF BoundedAfter
<1>4. CASE FromVec(h) /\ Capacity(store, Std) = 0
  <2>1. store' = NewInline(store, h) /\ live' = (live \ {Std}) \cup {h} /\ Std # h
    BY <1>4 DEF FromVec, SmallVecs
  <2>2. BoundedStep(store, store', h)
    BY <1>1, <2>1, NewInlineFits
  <2>3. store.mem[Std] = Blank
    <3>1. ~OnHeap(store, Std) /\ InlineSize[Std] = 0
      BY <1>1, <1>4, StdAssumption, RawAssumption DEF Sound, HandleOK, Storage, Capacity
    <3>2. store.mem[Std] \in Block /\ \A i \in Slots : store.mem[Std][i] = Uninit
      BY <1>1, <3>1, RawAssumption DEF Bounded, Fits, FitIn, Slots, Sound, Storage, Memory
    <3> QED BY <3>2 DEF Block, Blank
  <2> QED BY <1>1, <2>1, <2>2, <2>3 DEF BoundedAfter, BoundedStep, Tidy
<1>5. CASE FromVec(h) /\ Capacity(store, Std) # 0
  <2>1. /\ OnHeap(store, Std) /\ h \in Handles \ {Std} /\ h \notin live
        /\ store' = HandOver(store, Std, h) /\ live' = (live \ {Std}) \cup {h}
    BY <1>1, <1>5 DEF FromVec, SmallVecs
  <2> QED BY <1>1, <1>2, <2>1
<1>6. CASE IntoVec(h) /\ OnHeap(store, h)
  <2>1. /\ Std \in Handles \ {h} /\ Std \notin live
        /\ store' = HandOver(store, h, Std) /\ live' = (live \ {h}) \cup {Std}
    BY <1>1, <1>6 DEF IntoVec, SmallVecs
  <2> QED BY <1>1, <1>2, <1>6, <2>1
<1>8. CASE FromRawParts(h) \/ Leak(h)
  <2>1. PICK a \in Handles, b \in Handles : Hands(a, b)
    BY <1>8, RawPartsHand
  <2> QED BY <1>2, <2>1 DEF Hands
<1>7. CASE IntoVec(h) /\ ~OnHeap(store, h)
  <2> DEFINE len == LenOf(store, h)
             zero == 0
  <2>1. PICK s \in WithCapacity(store, Std, len) :
           store' = NewInline(
                      Edited(s, Std, Copy(Cells(s, h), 0, Cells(s, Std), 0, LenOf(s, h)),
                             LenOf(s, h)), h)
    BY <1>7 DEF IntoVec
  <2>2. len \in 0 .. MaxCap /\ len \in Nat /\ h # Std /\ live' = (live \ {h}) \cup {Std}
    BY <1>1, <1>7, SoundLen, RawAssumption DEF IntoVec, SmallVecs
  <2>3. /\ BoundedStep(store, s, Std) /\ Bounded(s) /\ Sound(s)
        /\ Capacity(s, Std) >= len /\ LenOf(s, h) = len
    <3>1. BoundedStep(store, s, Std)
      BY <1>1, <2>1, <2>2, WithCapacityFits
    <3>2. Capacity(s, Std) >= len /\ SameItems(store, h, s, h)
      BY <1>1, <2>1, <2>2, WithCapacitySound
    <3> QED BY <3>1, <3>2 DEF BoundedStep, Bounded, SameItems
  <2> DEFINE src == Cells(s, h)
             dst == Cells(s, Std)
             cells == Copy(src, zero, dst, zero, len)
             g == Edited(s, Std, cells, len)
  <2>4. /\ src \in Block /\ dst \in Block /\ FitIn(dst, Capacity(s, Std))
        /\ Capacity(s, Std) \in 0 .. MaxCap /\ Capacity(s, Std) \in Nat
        /\ \A i \in 0 .. len - 1 : src[i] \in Elems
    BY <1>1, <2>3, SoundLen, CellsFit, RawAssumption DEF Sound, Initialised, Item
  <2>5. store' = NewInline(g, h)
    BY <2>1, <2>3
  <2>6. zero \in Nat /\ zero = 0 /\ zero + len <= Capacity(s, Std) /\ zero + len <= MaxCap
        /\ len \in Int
    BY <2>2, <2>3, <2>4, RawAssumption
  <2> HIDE DEF src, dst, len, zero
  <2>7. /\ cells \in Block /\ FitIn(cells, Capacity(s, Std))
        /\ \A i \in 0 .. len - 1 : cells[i] \in Elems
    <3>1. FitIn(cells, Capacity(s, Std))
      BY <2>4, <2>6, CopyFits
    <3>2. cells \in Block /\ \A i \in 0 .. len - 1 : cells[i] \in Elems
      BY <2>2, <2>4, <2>6, RawAssumption DEF Copy, Block, Slots
    <3> QED BY <3>1, <3>2
  <2> HIDE DEF cells
  <2>8. BoundedStep(s, g, Std)
    BY <1>1, <2>2, <2>3, <2>7, EditedFits
  <2> HIDE DEF g
  <2>9. BoundedStep(store, g, Std) /\ Bounded(g)
    BY <2>3, <2>8, BoundedCompose DEF BoundedStep
  <2>10. Tidy(g, live \cup {Std})
    BY <1>1, <2>9, TidyStep
  <2>11. BoundedStep(g, store', h) /\ store'.mem[h] = Blank
    BY <2>5, <2>9, NewInlineFits
  <2>12. live \cup {Std} \subseteq live' \cup {h}
    BY <2>2
  <2> QED BY <2>10, <2>11, <2>12, TidyStep DEF BoundedAfter
<1> QED BY <1>3, <1>4, <1>5, <1>6, <1>7, <1>8

(* Ends of life.                                                           *)
LEMMA ReleaseBounded ==
  ASSUME BInv, NEW h \in Handles, LeakPanics(h) \/ IntoInner(h) \/ DropVec(h)
  PROVE  BoundedAfter
<1>1. Bounded(store) /\ Sound(store) /\ Tidy(store, live)
  BY DEF BInv, Bounded
<1>2. live \subseteq live' \cup {h}
  BY DEF LeakPanics, DropVec, Discard, IntoInner
<1>3. CASE Discard(h)
  <2>1. BoundedStep(store, store', h) /\ store'.mem[h] = Blank
    BY <1>1, <1>3, ReleasedFits DEF Discard
  <2> QED BY <1>1, <1>2, <2>1, TidyStep DEF BoundedAfter
<1>4. CASE IntoInner(h)
  <2> DEFINE g == SetLen(store, h, 0)
  <2>1. 0 <= Capacity(store, h) /\ 0 \in Nat /\ 0 \in 0 .. MaxCap
        /\ \A i \in 0 .. 0 - 1 : Item(store, h, i) \in Elems
    BY <1>1, SoundLen, RawAssumption
  <2>2. BoundedStep(store, g, h) /\ Bounded(g)
    BY <1>1, <2>1, SetLenSound, SetLenFits DEF BoundedStep
  <2>3. store' = Released(g, h)
    BY <1>4 DEF IntoInner
  <2> HIDE DEF g
  <2>4. BoundedStep(g, store', h) /\ store'.mem[h] = Blank
    BY <2>2, <2>3, ReleasedFits
  <2> QED BY <1>1, <1>2, <2>2, <2>4, BoundedCompose, TidyStep DEF BoundedAfter
<1> QED BY <1>3, <1>4 DEF LeakPanics, DropVec

(* A write of cells that fit, into a storage known to be sound afterwards. *)
LEMMA SoundWriteFits ==
  ASSUME NEW s, Bounded(s), NEW h \in Handles, NEW cells \in Block, FitIn(cells, Capacity(s, h)),
         NEW n \in 0 .. MaxCap, NEW g, g = Edited(s, h, cells, n), Sound(g)
  PROVE  BoundedStep(s, g, h)
<1>1. Sound(s) /\ Shaped(s) /\ OnHeap(s, h) \in BOOLEAN /\ n \in Nat
  BY SoundShaped, LenType, RawAssumption DEF Bounded, Sound
<1>2. LenOf(g, h) = n /\ SamePlace(s, g, h)
  BY <1>1, EditedStays
<1>3. g.mem = [s.mem EXCEPT ![AsPtr(s, h)] = cells]
  BY <1>1, EditedMem
<1>4. Cells(g, h) = cells
  BY <1>1, <1>2, <1>3, SoundLen DEF Cells, SamePlace, Sound, Storage, Memory
<1>5. n <= Capacity(s, h) /\ \A i \in 0 .. n - 1 : cells[i] \in Elems
  BY <1>2, <1>4, SoundLen DEF Sound, Initialised, Item, SamePlace
<1> QED BY <1>1, <1>5, EditedFits

(* One write into h, after h may have grown, keeps everything in bounds.   *)
LEMMA FittingWrite ==
  ASSUME BInv, NEW h \in Handles, live' = live, h \in live, NEW s, BoundedStep(store, s, h),
         NEW cells \in Block, FitIn(cells, Capacity(s, h)),
         NEW n \in 0 .. MaxCap, store' = Edited(s, h, cells, n), Sound(store')
  PROVE  BoundedAfter
<1>1. BoundedStep(s, store', h)
  BY SoundWriteFits DEF BoundedStep
<1>2. BoundedStep(store, store', h)
  BY <1>1, BoundedCompose
<1> QED BY <1>2, TidyStep DEF BInv, BoundedAfter

(* pop, remove and swap_remove.                                            *)
LEMMA TakeOutBounded ==
  ASSUME BInv, IInv', NEW h \in live, NEW i \in Nat, NEW from \in Nat, NEW n \in Nat,
         TakeOut(h, i, from, n), i < LenOf(store, h), from + n <= LenOf(store, h),
         i + n <= LenOf(store, h)
  PROVE  BoundedAfter
<1> DEFINE len   == LenOf(store, h)
           cap   == Capacity(store, h)
           one   == 1
           wiped == Wipe(Cells(store, h), i, one)
           cells == Shift(wiped, from, i, n)
           m     == len - 1
<1>1. /\ h \in Handles /\ Bounded(store) /\ Sound(store) /\ Sound(store')
  BY DEF BInv, IInv, Bounded
<1>2. /\ len \in 0 .. MaxCap /\ cap \in 0 .. MaxCap /\ len <= cap /\ Cells(store, h) \in Block
      /\ FitIn(Cells(store, h), cap)
  BY <1>1, SoundLen, CellsFit
<1>3. one \in Int /\ n \in Int /\ cap \in Nat /\ i + n <= cap /\ from + n <= MaxCap /\ m \in 0 .. MaxCap
  BY <1>2, RawAssumption
<1>4. store' = Edited(store, h, cells, m) /\ live' = live
  BY DEF TakeOut
<1> HIDE DEF cap, one, m
<1>5. wiped \in Block /\ FitIn(wiped, cap)
  BY <1>2, <1>3, WipeType, WipeFits
<1> HIDE DEF wiped
<1>6. cells \in Block /\ FitIn(cells, cap)
  BY <1>3, <1>5, ShiftType, ShiftFits
<1> HIDE DEF cells
<1> QED BY <1>1, <1>3, <1>4, <1>6, FittingWrite, BoundedStutter DEF cap

LEMMA RemoveBounded ==
  ASSUME BInv, IInv', NEW h \in Handles, NEW i \in Nat, Pop(h) \/ Remove(h, i) \/ SwapRemove(h, i)
  PROVE  BoundedAfter
<1> DEFINE len == LenOf(store, h)
<1>1. len \in Nat /\ h \in live
  BY SoundLen, RawAssumption DEF BInv, IInv, Pop, Remove, SwapRemove
<1>2. PICK a, from, n :
         /\ a \in Nat /\ from \in Nat /\ n \in Nat /\ TakeOut(h, a, from, n)
         /\ a < len /\ from + n <= len /\ a + n <= len
  <2>1. CASE Pop(h)
    <3>1. TakeOut(h, len - 1, len, 0) /\ len > 0
      BY <2>1 DEF Pop
    <3>2. len - 1 \in Nat /\ 0 \in Nat /\ len - 1 < len /\ len + 0 <= len /\ len - 1 + 0 <= len
      BY <1>1, <3>1
    <3> QED BY <1>1, <3>1, <3>2
  <2>2. CASE Remove(h, i)
    <3>1. TakeOut(h, i, i + 1, len - 1 - i) /\ i < len
      BY <2>2 DEF Remove
    <3>2. /\ i + 1 \in Nat /\ len - 1 - i \in Nat /\ i + 1 + (len - 1 - i) <= len
          /\ i + (len - 1 - i) <= len
      BY <1>1, <3>1
    <3> QED BY <3>1, <3>2
  <2>3. CASE SwapRemove(h, i)
    <3>1. TakeOut(h, i, len - 1, 1) /\ i < len
      BY <2>3 DEF SwapRemove
    <3>2. len - 1 \in Nat /\ 1 \in Nat /\ len - 1 + 1 <= len /\ i + 1 <= len
      BY <1>1, <3>1
    <3> QED BY <3>1, <3>2
  <2> QED BY <2>1, <2>2, <2>3
<1> QED BY <1>1, <1>2, TakeOutBounded

(* truncate and clear.                                                     *)
LEMMA CutBounded ==
  ASSUME BInv, IInv', NEW h \in Handles, NEW n \in Nat, Truncate(h, n) \/ Clear(h)
  PROVE  BoundedAfter
<1> DEFINE cap == Capacity(store, h)
<1>1. /\ Bounded(store) /\ Sound(store) /\ Sound(store') /\ live' = live /\ h \in live
      /\ LenOf(store, h) \in 0 .. MaxCap /\ cap \in 0 .. MaxCap /\ cap \in Nat
      /\ Cells(store, h) \in Block /\ FitIn(Cells(store, h), cap)
  BY SoundLen, CellsFit, RawAssumption DEF BInv, IInv, Bounded, Truncate, Clear, CutTo
<1>2. PICK m \in 0 .. MaxCap :
         store' = Edited(store, h, Wipe(Cells(store, h), m, LenOf(store, h) - m), m)
  BY <1>1, RawAssumption DEF Truncate, Clear, CutTo
<1> DEFINE rest == LenOf(store, h) - m
           cells == Wipe(Cells(store, h), m, rest)
<1>3. rest \in Int /\ m \in Nat
  BY <1>1, RawAssumption
<1> HIDE DEF cap
<1>4. cells \in Block /\ FitIn(cells, cap) /\ store' = Edited(store, h, cells, m)
  <2>1. store' = Edited(store, h, cells, m)
    BY <1>2
  <2> HIDE DEF rest
  <2> QED BY <1>1, <1>3, <2>1, WipeType, WipeFits
<1> HIDE DEF cells
<1> QED BY <1>1, <1>4, FittingWrite, BoundedStutter DEF cap

(* push and insert.                                                        *)
LEMMA PushBounded ==
  ASSUME BInv, IInv', NEW h \in Handles, Push(h) \/ PushPanics(h)
  PROVE  BoundedAfter
<1>1. CASE PushPanics(h)
  BY <1>1 DEF PushPanics, DropArgument, BInv, BoundedAfter
<1>2. CASE Push(h)
  <2> DEFINE len   == LenOf(store, h)
             grown == IF len = Capacity(store, h) THEN Reserve(store, h, 1) ELSE {store}
             n     == len + 1
  <2>1. PICK e \in caller, s \in grown :
           store' = Edited(s, h, [Cells(s, h) EXCEPT ![len] = e], n)
    BY <1>2 DEF Push
  <2>2. /\ Bounded(store) /\ Sound(store) /\ Sound(store') /\ e \in Elems
        /\ live' = live /\ h \in live
    BY <1>2, <2>1 DEF BInv, IInv, Bounded, Push
  <2>3. /\ len \in Nat /\ len <= Capacity(store, h) /\ Capacity(store, h) \in Nat
    BY <2>2, SoundLen, RawAssumption
  <2>4. /\ BoundedStep(store, s, h) /\ len < Capacity(s, h)
    <3>1. CASE len = Capacity(store, h)
      <4>1. s \in Reserve(store, h, 1) /\ 1 \in Nat
        BY <2>1, <3>1
      <4>2. /\ BoundedStep(store, s, h) /\ Resized(store, s, h)
            /\ Capacity(s, h) >= LenOf(s, h) + 1
        BY <2>2, <4>1, ReserveFits, ReserveSound
      <4>3. LenOf(s, h) = len /\ Capacity(s, h) \in Nat
        BY <4>2, ResizedLen, SoundLen, RawAssumption DEF Resized
      <4> QED BY <2>3, <4>2, <4>3
    <3>2. CASE len # Capacity(store, h)
      BY <2>1, <2>2, <2>3, <3>2, BoundedStutter
    <3> QED BY <3>1, <3>2
  <2> DEFINE src == Cells(s, h)
             cells == [src EXCEPT ![len] = e]
  <2>5. /\ Capacity(s, h) \in 0 .. MaxCap /\ src \in Block /\ FitIn(src, Capacity(s, h))
    BY <2>4, SoundLen, CellsFit DEF BoundedStep, Bounded
  <2>6. n \in 0 .. MaxCap /\ store' = Edited(s, h, cells, n)
    BY <2>1, <2>3, <2>4, <2>5, RawAssumption
  <2> HIDE DEF src, len
  <2>7. cells \in Block /\ FitIn(cells, Capacity(s, h))
    BY <2>2, <2>3, <2>4, <2>5, RawAssumption DEF FitIn, Block, Slots, Cell
  <2> HIDE DEF cells, n
  <2> QED BY <2>2, <2>4, <2>6, <2>7, FittingWrite
<1> QED BY <1>1, <1>2

LEMMA InsertBounded ==
  ASSUME BInv, IInv', NEW h \in Handles, NEW i \in Nat, Insert(h, i) \/ InsertPanics(h, i)
  PROVE  BoundedAfter
<1>1. CASE InsertPanics(h, i)
  BY <1>1 DEF InsertPanics, DropArgument, BInv, BoundedAfter
<1>2. CASE Insert(h, i)
  <2>1. PICK e \in caller, s \in Reserve(store, h, 1) :
           store' = Edited(s, h, [Shift(Cells(s, h), i, i + 1, LenOf(s, h) - i) EXCEPT ![i] = e],
                           LenOf(s, h) + 1)
    BY <1>2 DEF Insert
  <2>2. /\ Bounded(store) /\ Sound(store) /\ Sound(store') /\ e \in Elems
        /\ live' = live /\ h \in live /\ i <= LenOf(store, h) /\ 1 \in Nat
    BY <1>2, <2>1 DEF BInv, IInv, Bounded, Insert
  <2>3. /\ BoundedStep(store, s, h) /\ Resized(store, s, h)
        /\ Capacity(s, h) >= LenOf(s, h) + 1
    BY <2>1, <2>2, ReserveFits, ReserveSound
  <2> DEFINE len   == LenOf(s, h)
             cap   == Capacity(s, h)
             src   == Cells(s, h)
             n     == len - i
             up    == i + 1
             moved == Shift(src, i, up, n)
             cells == [moved EXCEPT ![i] = e]
             m     == len + 1
  <2>4. /\ len \in Nat /\ i <= len /\ cap \in 0 .. MaxCap /\ cap \in Nat /\ len + 1 <= cap
        /\ src \in Block /\ FitIn(src, cap)
    BY <2>2, <2>3, ResizedLen, SoundLen, CellsFit, RawAssumption DEF BoundedStep, Bounded
  <2>5. store' = Edited(s, h, cells, m)
    BY <2>1
  <2> HIDE DEF len, cap, src
  <2>6. /\ n \in Nat /\ n \in Int /\ up \in Nat /\ up + n <= cap /\ i + n <= MaxCap /\ m \in 0 .. MaxCap /\ i < cap
    BY <2>4, RawAssumption
  <2> HIDE DEF n, up, m
  <2>7. moved \in Block /\ FitIn(moved, cap)
    BY <2>4, <2>6, ShiftType, ShiftFits
  <2> HIDE DEF moved
  <2>8. cells \in Block /\ FitIn(cells, cap)
    BY <2>2, <2>4, <2>6, <2>7, RawAssumption DEF FitIn, Block, Slots, Cell
  <2> HIDE DEF cells
  <2> QED BY <2>2, <2>3, <2>5, <2>6, <2>8, FittingWrite DEF cap
<1> QED BY <1>1, <1>2

(* append and split_off.                                                   *)
LEMMA AppendBounded ==
  ASSUME BInv, IInv', NEW h \in Handles, NEW k \in Handles, AppendCall(h, k)
  PROVE  BoundedAfter
<1> DEFINE len   == LenOf(store, h)
           other == LenOf(store, k)
           grown == IF len + other > Capacity(store, h) THEN Reserve(store, h, other)
                    ELSE {store}
<1>1. PICK s \in grown :
         store' = Edited(Edited(s, k, Wipe(Cells(s, k), 0, other), 0), h,
                         Copy(Cells(s, k), 0, Cells(s, h), len, other), len + other)
  BY DEF AppendCall
<1>2. /\ h # k /\ h \in live /\ k \in live /\ live' = live
      /\ Bounded(store) /\ Sound(store) /\ Tidy(store, live) /\ Sound(store')
  BY DEF AppendCall, BInv, IInv, Bounded
<1>3. len \in Nat /\ other \in Nat /\ Capacity(store, h) \in Nat
  BY <1>2, SoundLen, RawAssumption
<1>4. /\ BoundedStep(store, s, h) /\ Bounded(s) /\ Sound(s)
      /\ LenOf(s, k) = other /\ len + other <= Capacity(s, h)
  <2>1. CASE len + other > Capacity(store, h)
    <3>1. s \in Reserve(store, h, other)
      BY <1>1, <2>1
    <3>2. /\ Resized(store, s, h) /\ Capacity(s, h) >= LenOf(s, h) + other
          /\ BoundedStep(store, s, h)
      BY <1>2, <1>3, <3>1, ReserveSound, ReserveFits
    <3>3. LenOf(s, h) = len /\ LenOf(s, k) = other /\ Capacity(s, h) \in Nat
      BY <3>2, ResizedLen, SoundLen, RawAssumption DEF Resized
    <3> QED BY <1>3, <3>2, <3>3 DEF BoundedStep, Bounded
  <2>2. CASE ~(len + other > Capacity(store, h))
    BY <1>1, <1>2, <1>3, <2>2, BoundedStutter
  <2> QED BY <2>1, <2>2
<1> HIDE DEF len, other, grown
<1> DEFINE src   == Cells(s, k)
           dst   == Cells(s, h)
           zero  == 0
           cap   == Capacity(s, h)
           empty == Wipe(src, zero, other)
           cut   == Edited(s, k, empty, zero)
           cells == Copy(src, zero, dst, len, other)
           total == len + other
<1>5. /\ store' = Edited(cut, h, cells, total) /\ zero \in Nat /\ zero = 0
      /\ zero \in 0 .. MaxCap /\ other \in Int
  BY <1>1, <1>3, RawAssumption
<1>6. /\ src \in Block /\ dst \in Block /\ cap \in 0 .. MaxCap /\ cap \in Nat
      /\ Capacity(s, k) \in Nat /\ other <= MaxCap
      /\ FitIn(src, Capacity(s, k)) /\ FitIn(dst, cap)
  BY <1>3, <1>4, SoundLen, CellsFit, RawAssumption
<1>7. total \in 0 .. MaxCap /\ len + other <= cap /\ zero + other <= MaxCap
  BY <1>3, <1>4, <1>5, <1>6, RawAssumption
<1> HIDE DEF zero, src, dst, cap
<1>8. empty \in Block /\ FitIn(empty, Capacity(s, k)) /\ cells \in Block /\ FitIn(cells, cap)
  BY <1>3, <1>5, <1>6, <1>7, WipeType, WipeFits, CopyType, CopyFits
<1> HIDE DEF empty, cells, total
<1>9. BoundedStep(s, cut, k) /\ Bounded(cut)
  <2>1. zero <= Capacity(s, k) /\ \A i \in 0 .. zero - 1 : empty[i] \in Elems
    BY <1>5, <1>6
  <2> QED BY <1>4, <1>5, <1>8, <2>1, EditedFits DEF BoundedStep
<1>10. Capacity(cut, h) = cap
  <2>1. OnlyTouches(s, cut, {k})
    BY <1>4, SetFrame, SoundShaped
  <2> QED BY <1>2, <2>1, UntouchedStays DEF SamePlace, cap
<1> HIDE DEF cut
<1>11. BoundedStep(cut, store', h)
  BY <1>2, <1>5, <1>7, <1>8, <1>9, <1>10, SoundWriteFits
<1>12. Tidy(s, live)
  BY <1>2, <1>4, TidyStep
<1>13. Tidy(cut, live)
  BY <1>2, <1>9, <1>12, TidyStep
<1> QED BY <1>2, <1>11, <1>13, TidyStep DEF BoundedAfter

LEMMA SplitOffBounded ==
  ASSUME BInv, IInv', NEW h \in Handles, NEW k \in Handles, NEW at \in Nat, SplitOff(h, k, at)
  PROVE  BoundedAfter
<1> DEFINE tail == LenOf(store, h) - at
<1>1. PICK s \in WithCapacity(store, k, tail) :
         store' = Edited(Edited(s, h, Wipe(Cells(s, h), at, tail), at), k,
                         Copy(Cells(s, h), at, Cells(s, k), 0, tail), tail)
  BY DEF SplitOff
<1>2. /\ h # k /\ h \in live /\ live' = live \cup {k} /\ at <= LenOf(store, h)
      /\ Bounded(store) /\ Sound(store) /\ Tidy(store, live) /\ Sound(store')
  BY DEF SplitOff, Construct, SmallVecs, BInv, IInv, Bounded
<1>3. tail \in Nat /\ tail \in Int /\ at + tail = LenOf(store, h) /\ at + tail <= MaxCap
  <2>1. LenOf(store, h) \in 0 .. MaxCap
    BY <1>2, SoundLen
  <2> QED BY <1>2, <2>1, RawAssumption
<1> HIDE DEF tail
<1>4. /\ BoundedStep(store, s, k) /\ Bounded(s) /\ Sound(s) /\ tail <= Capacity(s, k)
      /\ LenOf(s, h) = at + tail
  <2>1. /\ Sound(s) /\ Capacity(s, k) >= tail /\ SameItems(store, h, s, h)
        /\ BoundedStep(store, s, k)
    BY <1>1, <1>2, <1>3, WithCapacitySound, WithCapacityFits
  <2>2. Capacity(s, k) \in Nat
    BY <2>1, SoundLen, RawAssumption
  <2> QED BY <1>3, <2>1, <2>2 DEF BoundedStep, SameItems
<1> DEFINE src   == Cells(s, h)
           dst   == Cells(s, k)
           zero  == 0
           cap   == Capacity(s, k)
           kept  == Wipe(src, at, tail)
           cut   == Edited(s, h, kept, at)
           cells == Copy(src, at, dst, zero, tail)
<1>5. store' = Edited(cut, k, cells, tail) /\ zero \in Nat /\ zero + tail = tail
  BY <1>1, <1>3
<1>6. /\ src \in Block /\ dst \in Block /\ cap \in 0 .. MaxCap /\ cap \in Nat
      /\ Capacity(s, h) \in Nat /\ at <= Capacity(s, h) /\ tail \in 0 .. MaxCap
      /\ FitIn(src, Capacity(s, h)) /\ FitIn(dst, cap)
      /\ \A i \in 0 .. at + tail - 1 : src[i] \in Elems
  <2>1. LenOf(s, h) <= Capacity(s, h) /\ Capacity(s, h) \in 0 .. MaxCap /\ cap \in 0 .. MaxCap
        /\ src \in Block /\ dst \in Block
    BY <1>4, SoundLen
  <2>2. FitIn(src, Capacity(s, h)) /\ FitIn(dst, cap)
    BY <1>4, CellsFit
  <2>3. \A i \in 0 .. at + tail - 1 : src[i] \in Elems
    <3>1. \A i \in 0 .. LenOf(s, h) - 1 : src[i] \in Elems
      BY <1>4 DEF Sound, Initialised, Item
    <3> HIDE DEF src
    <3> QED BY <1>3, <1>4, <3>1
  <2> HIDE DEF src, dst
  <2> QED BY <1>3, <1>4, <2>1, <2>2, <2>3, RawAssumption
<1> HIDE DEF zero, src, dst
<1>7. /\ kept \in Block /\ FitIn(kept, Capacity(s, h))
      /\ \A i \in 0 .. at - 1 : kept[i] \in Elems
  <2>1. kept \in Block /\ FitIn(kept, Capacity(s, h))
        /\ \A i \in Slots : kept[i] = IF i \in at .. at + tail - 1 THEN Uninit ELSE src[i]
    BY <1>3, <1>6, WipeType, WipeFits
  <2> HIDE DEF kept, cap
  <2>2. \A i \in 0 .. at - 1 : i \in Slots /\ i \notin at .. at + tail - 1
                                /\ i \in 0 .. at + tail - 1
    BY <1>3, RawAssumption DEF Slots
  <2> QED BY <1>6, <2>1, <2>2
<1>8. cells \in Block /\ FitIn(cells, cap)
  <2>1. zero + tail <= cap
    BY <1>4, <1>5
  <2> HIDE DEF cap, kept
  <2> QED BY <1>3, <1>5, <1>6, <2>1, CopyType, CopyFits
<1> HIDE DEF kept, cells, cap
<1>9. BoundedStep(s, cut, h) /\ Bounded(cut)
  BY <1>4, <1>6, <1>7, EditedFits DEF BoundedStep
<1>10. Capacity(cut, k) = cap
  <2>1. OnlyTouches(s, cut, {h})
    BY <1>4, SetFrame, SoundShaped
  <2> QED BY <1>2, <2>1, UntouchedStays DEF SamePlace, cap
<1> HIDE DEF cut
<1>11. BoundedStep(cut, store', k)
  BY <1>2, <1>5, <1>6, <1>8, <1>9, <1>10, SoundWriteFits
<1>12. Tidy(s, live')
  BY <1>2, <1>4, TidyStep
<1>13. Tidy(cut, live')
  BY <1>2, <1>9, <1>12, TidyStep
<1> QED BY <1>2, <1>11, <1>13, TidyStep DEF BoundedAfter

(* The capacity calls.                                                     *)
LEMMA CapacityBounded ==
  ASSUME BInv, NEW h \in Handles, NEW n \in Nat,
         \/ ReserveCall(h, n) \/ ReserveExactCall(h, n) \/ GrowCall(h, n)
         \/ ShrinkToFitCall(h) \/ ShrinkToCall(h, n)
  PROVE  BoundedAfter
<1>1. Bounded(store) /\ Sound(store) /\ Tidy(store, live)
  BY DEF BInv, Bounded
<1>2. live' = live /\ h \in live
  BY DEF ReserveCall, ReserveExactCall, GrowCall, ShrinkToFitCall, ShrinkToCall, Resize
<1>3. BoundedStep(store, store', h)
  <2>1. CASE ReserveCall(h, n) \/ ReserveExactCall(h, n)
    BY <1>1, <2>1, ReserveFits DEF ReserveCall, ReserveExactCall, Resize
  <2>2. CASE GrowCall(h, n)
    <3>1. LenOf(store, h) <= n
      BY <1>1, <2>2, LenType DEF GrowCall, Sound
    <3> QED BY <1>1, <2>2, <3>1, TryGrowFits DEF GrowCall, Resize
  <2>3. CASE ShrinkToFitCall(h) \/ ShrinkToCall(h, n)
    BY <1>1, <2>3, ShrinkFits DEF ShrinkToFitCall, ShrinkToCall, Resize
  <2> QED BY <2>1, <2>2, <2>3
<1> QED BY <1>1, <1>2, <1>3, TidyStep DEF BoundedAfter

(* Every step, and stuttering.                                             *)
LEMMA StepBounded ==
  ASSUME BInv, [Next]_vars
  PROVE  BInv'
<1> USE DEF BInv
<1>1. IInv'
  BY StepInv
<1>2. BoundedAfter
  <2>1. CASE UNCHANGED vars
    BY <2>1 DEF vars, BoundedAfter
  <2>2. ASSUME NEW h \in Handles,
               \/ New(h) \/ FromVec(h) \/ FromRawParts(h) \/ IntoVec(h) \/ Leak(h)
               \/ LeakPanics(h) \/ IntoInner(h) \/ DropVec(h)
               \/ Push(h) \/ PushPanics(h) \/ Pop(h) \/ Clear(h) \/ ShrinkToFitCall(h)
        PROVE  BoundedAfter
    <3>1. 0 \in Nat
      OBVIOUS
    <3> QED BY <1>1, <2>2, <3>1, ConstructBounded, ExchangeBounded, ReleaseBounded, PushBounded,
               RemoveBounded, CutBounded, CapacityBounded
  <2>3. ASSUME NEW h \in Handles, NEW k \in Handles, NEW at \in Slots \cup {MaxCap},
               AppendCall(h, k) \/ SplitOff(h, k, at)
        PROVE  BoundedAfter
    <3>1. at \in Nat
      BY RawAssumption DEF Slots
    <3> QED BY <1>1, <2>3, <3>1, AppendBounded, SplitOffBounded
  <2>4. ASSUME NEW h \in Handles, NEW n \in Sizes,
               \/ NewWithCapacity(h, n) \/ FromBuf(h, n) \/ FromBufAndLen(h, n)
               \/ FromBufAndLenPanics(h, n) \/ FromArray(h, n)
               \/ Insert(h, n) \/ InsertPanics(h, n) \/ Remove(h, n) \/ SwapRemove(h, n)
               \/ Truncate(h, n)
               \/ ReserveCall(h, n) \/ ReserveExactCall(h, n) \/ GrowCall(h, n)
               \/ ShrinkToCall(h, n)
        PROVE  BoundedAfter
    <3>1. n \in Nat
      BY RawAssumption DEF Sizes
    <3> QED BY <1>1, <2>4, <3>1, ConstructBounded, InsertBounded, RemoveBounded, CutBounded,
               CapacityBounded
  <2>5. ASSUME NEW h \in Handles, NEW n \in Sizes, NEW m \in Sizes, VecNew(n, m)
        PROVE  BoundedAfter
    <3>1. n \in Nat /\ m \in Nat
      BY RawAssumption DEF Sizes
    <3> QED BY <2>5, <3>1, ExchangeBounded
  <2> QED BY <2>1, <2>2, <2>3, <2>4, <2>5, RawAssumption DEF Next
<1> QED BY <1>1, <1>2 DEF BoundedAfter

(* No handle is alive and no cell was written.                             *)
LEMMA InitBounded == Init => BInv
<1> SUFFICES ASSUME Init PROVE BInv
  OBVIOUS
<1>1. IInv
  BY InitInv
<1>2. \A h \in Handles : store.mem[h] = Blank /\ ~OnHeap(store, h)
  <2> SUFFICES ASSUME NEW h \in Handles
               PROVE  store.mem[h] = Blank /\ ~OnHeap(store, h)
    OBVIOUS
  <2>1. store.mem[h] = Blank
    BY DEF Init
  <2>2. store.word[h] = 0
    BY DEF Init
  <2> QED BY <2>1, <2>2 DEF OnHeap
<1>3. Bounded(store) /\ Tidy(store, live)
  BY <1>1, <1>2, BlankFits DEF IInv, Bounded, Fits, Tidy
<1> QED BY <1>1, <1>3 DEF BInv

(* Nothing is ever written past the capacity of a buffer, and a spilled    *)
(* vector's inline bytes, which hold its pointer and capacity, are never   *)
(* used as cells: whatever calls are made, on vectors of any inline sizes. *)
THEOREM InBounds == Spec => []WritesStayInBounds
<1>1. BInv => WritesStayInBounds
  BY DEF BInv, Bounded, Fits, FitIn, WritesStayInBounds
<1>2. BInv /\ [Next]_vars => BInv'
  BY StepBounded
<1> QED BY <1>1, <1>2, InitBounded, PTL DEF Spec
=============================================================================
