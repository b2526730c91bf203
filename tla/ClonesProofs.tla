---------------------------- MODULE ClonesProofs ----------------------------
(***************************************************************************)
(* Theorems about Clones.  While a call runs, what it has stored behind    *)
(* the length of its vector is set aside.  An iterator's vector has lost   *)
(* items at its front, and so is no vector any more: the invariant looks   *)
(* at the storage through Mask, which shows it as an empty vector with the *)
(* same buffer, and sets aside what it has still to yield.                 *)
(***************************************************************************)
EXTENDS Clones, OwnershipProofs

(* The storage s, in which the handles in I have no length.                *)
Mask(s, I) ==
  [ word |-> [h \in Handles |-> IF h \in I THEN s.word[h] % 2 ELSE s.word[h]],
    ptr  |-> s.ptr, cap |-> s.cap, mem |-> s.mem, size |-> s.size ]

(* What the iterators I, which are at b, have still to yield.              *)
Rest(s, h, b) == ItemsFrom(Cells(s, h), b[h], LenOf(s, h))
Left(s, I, b) == UNION {Rest(s, h, b) : h \in I}

IterOK(s, l, I, b) ==
  /\ I \subseteq SmallVecs \ l
  /\ \A h, k \in I : h # k => Rest(s, h, b) \cap Rest(s, k, b) = {}
  /\ b \in [Handles -> 0 .. MaxCap] /\ \A h \in Handles \ I : b[h] = 0
  /\ \A h \in I : /\ b[h] <= LenOf(s, h) /\ LenOf(s, h) <= Capacity(s, h)
                  /\ Holds(Cells(s, h), b[h], LenOf(s, h), Rest(s, h, b))

(* Of the elements that are not in E the program holds c, d are dropped,   *)
(* the running call has set X aside, the iterators I, which are at b, have *)
(* theirs, and the live vectors l have the others.                         *)
Data(s, c, d, l, I, b, E, X) ==
  /\ s \in Storage
  /\ IterOK(s, l, I, b)
  /\ d \cap X = {} /\ (d \cup X) \cap Left(s, I, b) = {}
  /\ Accounts(Mask(s, I), c, d \cup X \cup Left(s, I, b), l \cup I, Elems \ E)

Apart == {Item(store, v, i) : i \in Guarded}

Calling == call.how \in {"push", "guard", "assign"}

Calls ==
  [how : {"none", "push", "guard", "assign", "copy"},
   give : {"item", "clone", "repeat"}, open : BOOLEAN, fresh : BOOLEAN,
   vec : Handles, src : Handles, at : 0 .. MaxCap, n : 0 .. MaxCap + 1,
   made : 0 .. MaxCap, base : 0 .. MaxCap, value : Cell]

(* Of the call k: where the elements come from, where c are the program's, *)
(* and l the vectors and iterators, which are at b.                        *)
SourceOK(k, s, c, l, b) ==
  /\ k.give = "clone" =>
       /\ ~k.open /\ k.src \in l
       /\ b[k.src] <= k.at /\ k.at + k.n <= LenOf(s, k.src)
       /\ k.how # "guard" => k.src # k.vec
  /\ k.give = "repeat" =>
       ~k.open /\ k.value \in Elems /\ (k.made < k.n => k.value \in c)

(* Where they go, where l are the vectors, and A is set aside.             *)
TargetOK(k, s, l, A) ==
  /\ k.vec \in l \cap SmallVecs
  /\ k.how = "push" => LenOf(s, k.vec) = k.base + k.made /\ (~k.open => k.made <= k.n)
  /\ k.how = "guard" =>
       /\ LenOf(s, k.vec) = k.base /\ k.made <= k.n
       /\ k.base + k.n <= Capacity(s, k.vec)
       /\ Holds(Cells(s, k.vec), k.base, k.base + k.made, A)
  /\ k.how = "assign" =>
       LenOf(s, k.vec) = k.n /\ k.made <= k.n /\ k.give = "clone" /\ k.src \in l

CInv ==
  /\ Data(store, caller, dropped, live, iters, begin, leaked, Apart)
  /\ leaked \subseteq Elems
  /\ call \in Calls
  /\ Calling => /\ SourceOK(call, store, caller, live \cup iters, begin)
                /\ TargetOK(call, store, live, Apart)
  /\ Calling \/ call.n = 0
  /\ val \in [Elems -> Elems]
----------------------------------------------------------------------------
(* The mask.                                                               *)

(* It hides lengths and nothing else.                                      *)
LEMMA MaskFacts ==
  ASSUME NEW s \in Storage, NEW I, NEW h \in Handles
  PROVE  /\ OnHeap(Mask(s, I), h) = OnHeap(s, h) /\ Capacity(Mask(s, I), h) = Capacity(s, h)
         /\ AsPtr(Mask(s, I), h) = AsPtr(s, h) /\ Cells(Mask(s, I), h) = Cells(s, h)
         /\ LenOf(Mask(s, I), h) = IF h \in I THEN 0 ELSE LenOf(s, h)
<1> DEFINE w == s.word[h]
<1>1. w \in 0 .. UMax /\ UMax \in Nat
  BY RawAssumption DEF Storage
<1>2. Mask(s, I).word[h] = IF h \in I THEN w % 2 ELSE w
  BY DEF Mask
<1> HIDE DEF w
<1>3. (w % 2) % 2 = w % 2 /\ (w % 2) \div 2 = 0
  BY <1>1
<1>4. OnHeap(Mask(s, I), h) = OnHeap(s, h)
  BY <1>2, <1>3 DEF OnHeap, w
<1>5. Capacity(Mask(s, I), h) = Capacity(s, h) /\ AsPtr(Mask(s, I), h) = AsPtr(s, h)
  BY <1>4 DEF Capacity, AsPtr, Mask
<1>6. Cells(Mask(s, I), h) = Cells(s, h)
  BY <1>5 DEF Cells, Mask
<1>7. LenOf(Mask(s, I), h) = IF h \in I THEN 0 ELSE LenOf(s, h)
  BY <1>2, <1>3 DEF LenOf, w
<1> QED BY <1>4, <1>5, <1>6, <1>7

(* Operators on another handle, which may stop being masked.               *)
Unmasks(I, J, h) == h \notin J /\ \A k \in Handles \ {h} : k \in J <=> k \in I

LEMMA MaskRecord ==
  ASSUME NEW s, NEW I
  PROVE  LET x == Mask(s, I)
         IN  /\ x = [word |-> x.word, ptr |-> s.ptr, cap |-> s.cap, mem |-> s.mem, size |-> s.size]
             /\ x.ptr = s.ptr /\ x.cap = s.cap /\ x.mem = s.mem /\ x.size = s.size
  BY DEF Mask

LEMMA MaskIs ==
  ASSUME NEW s, NEW I, NEW w, w = [h \in Handles |-> w[h]],
         \A h \in Handles : w[h] = IF h \in I THEN s.word[h] % 2 ELSE s.word[h]
  PROVE  Mask(s, I) = [word |-> w, ptr |-> s.ptr, cap |-> s.cap, mem |-> s.mem, size |-> s.size]
<1>1. w = [h \in Handles |-> IF h \in I THEN s.word[h] % 2 ELSE s.word[h]]
  OBVIOUS
<1> QED BY <1>1 DEF Mask

LEMMA MaskSetHandle ==
  ASSUME NEW s, Shaped(s), NEW I, NEW J, NEW h \in Handles, Unmasks(I, J, h),
         NEW w, NEW p, NEW c, NEW mem, NEW size
  PROVE  Mask(SetHandle(s, h, w, p, c, mem, size), J) = SetHandle(Mask(s, I), h, w, p, c, mem, size)
<1> DEFINE t == SetHandle(s, h, w, p, c, mem, size)
           f == [Mask(s, I).word EXCEPT ![h] = w]
           q == [s.ptr EXCEPT ![h] = p]
           b == [s.cap EXCEPT ![h] = c]
<1>1. t.word = [s.word EXCEPT ![h] = w] /\ t.ptr = q /\ t.cap = b /\ t.mem = mem /\ t.size = size
  BY DEF SetHandle
<1>2. SetHandle(Mask(s, I), h, w, p, c, mem, size) =
        [word |-> f, ptr |-> q, cap |-> b, mem |-> mem, size |-> size]
  BY DEF SetHandle, Mask
<1>3. \A k \in Handles : f[k] = IF k = h THEN w ELSE IF k \in I THEN s.word[k] % 2 ELSE s.word[k]
  BY DEF Mask
<1>4. f = [k \in Handles |-> f[k]]
  BY DEF Mask
<1> HIDE DEF t, f, q, b
<1>5. \A k \in Handles : f[k] = IF k \in J THEN t.word[k] % 2 ELSE t.word[k]
  BY <1>1, <1>3 DEF Shaped, Unmasks
<1>6. Mask(t, J) = [word |-> f, ptr |-> t.ptr, cap |-> t.cap, mem |-> t.mem, size |-> t.size]
  BY <1>4, <1>5, MaskIs
<1> QED BY <1>1, <1>2, <1>6 DEF t

LEMMA DeallocRecord ==
  ASSUME NEW s, s = [word |-> s.word, ptr |-> s.ptr, cap |-> s.cap, mem |-> s.mem, size |-> s.size],
         NEW p
  PROVE  Dealloc(s, p) = [word |-> s.word, ptr |-> s.ptr, cap |-> s.cap,
                          mem |-> [s.mem EXCEPT ![p] = Blank], size |-> [s.size EXCEPT ![p] = 0]]
<1>1. Dealloc(s, p) =
        [s EXCEPT !.size = [s.size EXCEPT ![p] = 0], !.mem = [s.mem EXCEPT ![p] = Blank]]
  BY DEF Dealloc
<1> QED BY <1>1

LEMMA MaskDealloc ==
  ASSUME NEW s, Shaped(s), NEW I, NEW p
  PROVE  Mask(Dealloc(s, p), I) = Dealloc(Mask(s, I), p)
<1> DEFINE m == [s.mem EXCEPT ![p] = Blank]
           z == [s.size EXCEPT ![p] = 0]
           x == Mask(s, I)
<1>1. Dealloc(s, p) = [word |-> s.word, ptr |-> s.ptr, cap |-> s.cap, mem |-> m, size |-> z]
  BY DeallocRecord DEF Shaped
<1>2. /\ x = [word |-> x.word, ptr |-> x.ptr, cap |-> x.cap, mem |-> x.mem, size |-> x.size]
      /\ x.ptr = s.ptr /\ x.cap = s.cap /\ x.mem = s.mem /\ x.size = s.size
      /\ x.word = [h \in Handles |-> x.word[h]]
      /\ \A h \in Handles : x.word[h] = IF h \in I THEN s.word[h] % 2 ELSE s.word[h]
  BY DEF Mask
<1> HIDE DEF x
<1>3. Dealloc(x, p) = [word |-> x.word, ptr |-> s.ptr, cap |-> s.cap, mem |-> m, size |-> z]
  BY <1>2, DeallocRecord
<1> DEFINE t == Dealloc(s, p)
<1>4. t.word = s.word /\ t.ptr = s.ptr /\ t.cap = s.cap /\ t.mem = m /\ t.size = z
  BY <1>1
<1> HIDE DEF t, m, z
<1> DEFINE w == x.word
<1>5. w = [h \in Handles |-> w[h]]
      /\ \A h \in Handles : w[h] = IF h \in I THEN t.word[h] % 2 ELSE t.word[h]
  BY <1>2, <1>4
<1> HIDE DEF w
<1>6. Mask(t, I) = [word |-> w, ptr |-> t.ptr, cap |-> t.cap, mem |-> t.mem, size |-> t.size]
  BY <1>5, MaskIs
<1> QED BY <1>3, <1>4, <1>6 DEF t, x, w

WithWord(s, h, w) == [s EXCEPT !.word[h] = w]

LEMMA MaskWord ==
  ASSUME NEW s, Shaped(s), NEW I, NEW h \in Handles \ I, NEW w
  PROVE  Mask(WithWord(s, h, w), I) = WithWord(Mask(s, I), h, w)
<1> DEFINE t == [s EXCEPT !.word[h] = w]
           f == [Mask(s, I).word EXCEPT ![h] = w]
<1>1. t = [word |-> [s.word EXCEPT ![h] = w], ptr |-> s.ptr, cap |-> s.cap,
           mem |-> s.mem, size |-> s.size]
  <2>1. s = [word |-> s.word, ptr |-> s.ptr, cap |-> s.cap, mem |-> s.mem, size |-> s.size]
    BY DEF Shaped
  <2> QED BY <2>1
<1>2. [Mask(s, I) EXCEPT !.word[h] = w] =
        [word |-> f, ptr |-> s.ptr, cap |-> s.cap, mem |-> s.mem, size |-> s.size]
  BY MaskRecord
<1>3. \A k \in Handles : f[k] = IF k = h THEN w ELSE IF k \in I THEN s.word[k] % 2 ELSE s.word[k]
  BY DEF Mask
<1>4. f = [k \in Handles |-> f[k]]
  BY DEF Mask
<1> HIDE DEF t, f
<1>5. \A k \in Handles : f[k] = IF k \in I THEN t.word[k] % 2 ELSE t.word[k]
  BY <1>1, <1>3 DEF Shaped
<1>6. t.ptr = s.ptr /\ t.cap = s.cap /\ t.mem = s.mem /\ t.size = s.size
  BY <1>1
<1>7. Mask(t, I) = [word |-> f, ptr |-> t.ptr, cap |-> t.cap, mem |-> t.mem, size |-> t.size]
  BY <1>4, <1>5, MaskIs
<1> QED BY <1>2, <1>6, <1>7 DEF t, WithWord

WithCells(s, p, cells) == [s EXCEPT !.mem[p] = cells]

LEMMA MaskMemory ==
  ASSUME NEW s, Shaped(s), NEW I, NEW p, NEW cells
  PROVE  Mask(WithCells(s, p, cells), I) = WithCells(Mask(s, I), p, cells)
<1> DEFINE t == [s EXCEPT !.mem[p] = cells]
           m == [s.mem EXCEPT ![p] = cells]
           f == Mask(s, I).word
<1>1. t = [word |-> s.word, ptr |-> s.ptr, cap |-> s.cap, mem |-> m, size |-> s.size]
  BY DEF Shaped
<1>2. [Mask(s, I) EXCEPT !.mem[p] = cells] =
        [word |-> f, ptr |-> s.ptr, cap |-> s.cap, mem |-> m, size |-> s.size]
  BY MaskRecord
<1>3. f = [k \in Handles |-> f[k]]
      /\ \A k \in Handles : f[k] = IF k \in I THEN s.word[k] % 2 ELSE s.word[k]
  BY DEF Mask
<1> HIDE DEF t, f, m
<1>4. t.word = s.word /\ t.ptr = s.ptr /\ t.cap = s.cap /\ t.mem = m /\ t.size = s.size
  BY <1>1
<1>5. \A k \in Handles : f[k] = IF k \in I THEN t.word[k] % 2 ELSE t.word[k]
  BY <1>3, <1>4
<1>6. Mask(t, I) = [word |-> f, ptr |-> t.ptr, cap |-> t.cap, mem |-> t.mem, size |-> t.size]
  BY <1>3, <1>5, MaskIs
<1> QED BY <1>2, <1>4, <1>6 DEF t, WithCells

(* Tag, length and place of a handle that is not masked.                   *)
LEMMA MaskSpares ==
  ASSUME NEW s, NEW I, NEW h \in Handles \ I
  PROVE  /\ OnHeap(Mask(s, I), h) = OnHeap(s, h) /\ LenOf(Mask(s, I), h) = LenOf(s, h)
         /\ Capacity(Mask(s, I), h) = Capacity(s, h) /\ AsPtr(Mask(s, I), h) = AsPtr(s, h)
         /\ Cells(Mask(s, I), h) = Cells(s, h)
  BY DEF Mask, OnHeap, LenOf, Capacity, AsPtr, Cells

LEMMA MaskSetLen ==
  ASSUME NEW s, Shaped(s), NEW I, NEW h \in Handles \ I, NEW n, NEW cells
  PROVE  /\ Mask(SetLen(s, h, n), I) = SetLen(Mask(s, I), h, n)
         /\ Mask(SetOnHeap(s, h), I) = SetOnHeap(Mask(s, I), h)
         /\ Mask(Edited(s, h, cells, n), I) = Edited(Mask(s, I), h, cells, n)
<1>1. ASSUME NEW x, Shaped(x)
      PROVE  /\ Mask(SetLen(x, h, n), I) = SetLen(Mask(x, I), h, n)
             /\ Mask(SetOnHeap(x, h), I) = SetOnHeap(Mask(x, I), h)
  <2>1. OnHeap(Mask(x, I), h) = OnHeap(x, h) /\ LenOf(Mask(x, I), h) = LenOf(x, h)
    BY MaskSpares
  <2>2. \A w : Mask(WithWord(x, h, w), I) = WithWord(Mask(x, I), h, w)
    BY <1>1, MaskWord
  <2> QED BY <2>1, <2>2 DEF SetLen, SetOnHeap, WithWord
<1> DEFINE x == [s EXCEPT !.mem[AsPtr(s, h)] = cells]
           y == Mask(s, I)
<1>2. Shaped(x) /\ Mask(x, I) = [y EXCEPT !.mem[AsPtr(y, h)] = cells]
  <2>1. AsPtr(y, h) = AsPtr(s, h)
    BY MaskSpares
  <2>2. \A p : Mask(WithCells(s, p, cells), I) = WithCells(y, p, cells)
    BY MaskMemory
  <2>3. Shaped(x)
    BY MemoryFrame DEF OnlyTouches
  <2> QED BY <2>1, <2>2, <2>3 DEF WithCells
<1> HIDE DEF x
<1>3. Mask(SetLen(x, h, n), I) = SetLen(Mask(x, I), h, n)
  BY <1>1, <1>2
<1> QED BY <1>1, <1>2, <1>3 DEF Edited, x, y

LEMMA MaskSetInline ==
  ASSUME NEW s, Shaped(s), NEW I, NEW J, NEW h \in Handles, Unmasks(I, J, h), NEW w, NEW cells
  PROVE  /\ Mask(SetInline(s, h, w, cells), J) = SetInline(Mask(s, I), h, w, cells)
         /\ Mask(NewInline(s, h), J) = NewInline(Mask(s, I), h)
<1>1. s.mem = Mask(s, I).mem /\ s.size = Mask(s, I).size
  BY DEF Mask
<1>2. \A u, c : Mask(SetInline(s, h, u, c), J) = SetInline(Mask(s, I), h, u, c)
  BY <1>1, MaskSetHandle DEF SetInline
<1> QED BY <1>2 DEF NewInline
LEMMA MaskReleased ==
  ASSUME NEW s \in Storage, NEW I, NEW J, NEW h \in Handles, Unmasks(I, J, h)
  PROVE  Mask(Released(s, h), J) = Released(Mask(s, I), h)
<1> DEFINE b == IF OnHeap(s, h) THEN Dealloc(s, s.ptr[h]) ELSE s
           c == IF OnHeap(Mask(s, I), h) THEN Dealloc(Mask(s, I), Mask(s, I).ptr[h]) ELSE Mask(s, I)
<1>1. Shaped(s)
  BY DEF Storage, Shaped
<1>2. Shaped(b) /\ Mask(b, I) = c
  <2>1. OnHeap(Mask(s, I), h) = OnHeap(s, h) /\ Mask(s, I).ptr = s.ptr
    BY MaskFacts, MaskRecord
  <2>2. Mask(Dealloc(s, s.ptr[h]), I) = Dealloc(Mask(s, I), s.ptr[h])
    BY <1>1, MaskDealloc
  <2>3. Shaped(b)
    BY <1>1, MemoryFrame DEF OnlyTouches
  <2> QED BY <2>1, <2>2, <2>3
<1> HIDE DEF b, c
<1>3. Mask(NewInline(b, h), J) = NewInline(c, h)
  BY <1>2, MaskSetInline
<1> QED BY <1>3 DEF Released, b, c

LEMMA MaskHandOver ==
  ASSUME NEW s, Shaped(s), NEW I, NEW h \in Handles \ I, NEW k \in Handles \ I
  PROVE  Mask(HandOver(s, h, k), I) = HandOver(Mask(s, I), h, k)
<1> DEFINE m == SetHandle(s, k, s.word[h], s.ptr[h], s.cap[h], s.mem, s.size)
           x == Mask(s, I)
<1>1. x.word[h] = s.word[h] /\ x.ptr = s.ptr /\ x.cap = s.cap /\ x.mem = s.mem /\ x.size = s.size
  BY DEF Mask
<1>2. Unmasks(I, I, h) /\ Unmasks(I, I, k)
  BY DEF Unmasks
<1>3. Mask(m, I) = SetHandle(x, k, s.word[h], s.ptr[h], s.cap[h], s.mem, s.size)
  BY <1>2, MaskSetHandle
<1>4. Shaped(m)
  BY SetHandleFrame DEF OnlyTouches
<1> HIDE DEF m, x
<1>5. Mask(NewInline(m, h), I) = NewInline(Mask(m, I), h)
  BY <1>2, <1>4, MaskSetInline
<1> QED BY <1>1, <1>3, <1>5 DEF HandOver, m, x

LEMMA MaskNewHeap ==
  ASSUME NEW s, Shaped(s), NEW I, NEW h \in Handles \ I, NEW p, NEW c, NEW cells
  PROVE  Mask(NewHeap(s, h, p, c, cells), I) = NewHeap(Mask(s, I), h, p, c, cells)
<1> DEFINE x == Mask(s, I)
<1>1. x.word[h] = s.word[h] /\ x.mem = s.mem /\ x.size = s.size
  BY DEF Mask
<1>2. Unmasks(I, I, h)
  BY DEF Unmasks
<1>3. ASSUME NEW w, NEW mem, NEW size
      PROVE  Mask(SetHandle(s, h, w, p, c, mem, size), I) = SetHandle(x, h, w, p, c, mem, size)
  BY <1>2, MaskSetHandle
<1> HIDE DEF x
<1>4. Mask(NewHeap(s, h, p, c, cells), I) = NewHeap(x, h, p, c, cells)
  BY <1>1, <1>3 DEF NewHeap
<1> QED BY <1>4 DEF x

(* Growth: the outcomes are the masked outcomes.                           *)
LEMMA MaskTryGrowRaw ==
  ASSUME NEW s, Shaped(s), NEW I, NEW h \in Handles \ I, NEW c, NEW g \in TryGrowRaw(s, h, c)
  PROVE  Mask(g, I) \in TryGrowRaw(Mask(s, I), h, c)
<1> DEFINE x    == Mask(s, I)
           len  == LenOf(s, h)
           old  == s.ptr[h]
           kept == IF s.cap[h] < c THEN s.cap[h] ELSE c
           one  == Copy(Cells(s, h), 0, Blank, 0, len)
           two  == Copy(s.mem[old], 0, Blank, 0, kept)
<1>1. /\ LenOf(x, h) = len /\ OnHeap(x, h) = OnHeap(s, h) /\ Cells(x, h) = Cells(s, h)
      /\ x.ptr = s.ptr /\ x.cap = s.cap /\ x.mem = s.mem /\ x.size = s.size
  BY MaskSpares DEF Mask
<1>2. ASSUME NEW p
      PROVE  /\ Mask(NewHeap(s, h, p, c, one), I) = NewHeap(x, h, p, c, one)
             /\ Mask(NewHeap(Dealloc(s, old), h, p, c, two), I) = NewHeap(Dealloc(x, old), h, p, c, two)
  <2>1. Mask(Dealloc(s, old), I) = Dealloc(x, old)
    BY MaskDealloc
  <2>a. Shaped(Dealloc(s, old))
    BY MemoryFrame DEF OnlyTouches
  <2> HIDE DEF one, two, x
  <2>2. Mask(NewHeap(Dealloc(s, old), h, p, c, two), I) = NewHeap(Mask(Dealloc(s, old), I), h, p, c, two)
    BY <2>a, MaskNewHeap
  <2>3. Mask(NewHeap(s, h, p, c, one), I) = NewHeap(Mask(s, I), h, p, c, one)
    BY MaskNewHeap
  <2> QED BY <2>1, <2>2, <2>3 DEF x
<1>3. FreePtrs(x) = FreePtrs(s)
  BY <1>1 DEF FreePtrs
<1>4. ~(c > MaxCap)
  BY DEF TryGrowRaw
<1>5. CASE len = 0 \/ ~OnHeap(s, h)
  <2>1. PICK p \in FreePtrs(s) : g = NewHeap(s, h, p, c, one)
    BY <1>4, <1>5 DEF TryGrowRaw
  <2> HIDE DEF one, x
  <2>2. Mask(g, I) = NewHeap(x, h, p, c, one)
    BY <1>2, <2>1
  <2>3. Mask(g, I) \in TryGrowRaw(x, h, c)
    BY <1>1, <1>3, <1>4, <1>5, <2>1, <2>2 DEF TryGrowRaw, one
  <2> QED BY <2>3 DEF x
<1>6. CASE ~(len = 0 \/ ~OnHeap(s, h))
  <2>1. PICK p \in FreePtrs(s) \cup {old} : g = NewHeap(Dealloc(s, old), h, p, c, two)
    BY <1>4, <1>6 DEF TryGrowRaw
  <2> HIDE DEF two, x
  <2>2. Mask(g, I) = NewHeap(Dealloc(x, old), h, p, c, two)
    BY <1>2, <2>1
  <2>3. Mask(g, I) \in TryGrowRaw(x, h, c)
    BY <1>1, <1>3, <1>4, <1>6, <2>1, <2>2 DEF TryGrowRaw, two
  <2> QED BY <2>3 DEF x
<1> QED BY <1>5, <1>6

LEMMA MaskUnspill ==
  ASSUME NEW s, Shaped(s), NEW I, NEW h \in Handles \ I
  PROVE  Mask(Unspill(s, h), I) = Unspill(Mask(s, I), h)
<1> DEFINE x == Mask(s, I)
           w == TaggedLen(LenOf(s, h), FALSE)
           c == Copy(Cells(s, h), 0, Blank, 0, LenOf(s, h))
           m == SetInline(s, h, w, c)
<1>1. LenOf(x, h) = LenOf(s, h) /\ Cells(x, h) = Cells(s, h) /\ x.ptr = s.ptr
  BY MaskSpares DEF Mask
<1>2. Unmasks(I, I, h)
  BY DEF Unmasks
<1> HIDE DEF w, c
<1>3. Mask(m, I) = SetInline(x, h, w, c) /\ Shaped(m)
  <2>1. Mask(m, I) = SetInline(x, h, w, c)
    BY <1>2, MaskSetInline
  <2>2. Shaped(m)
    BY NewFrame DEF OnlyTouches
  <2> QED BY <2>1, <2>2
<1> HIDE DEF m, x
<1>4. Mask(Dealloc(m, s.ptr[h]), I) = Dealloc(Mask(m, I), s.ptr[h])
  BY <1>3, MaskDealloc
<1> QED BY <1>1, <1>3, <1>4 DEF Unspill, m, w, c, x

LEMMA MaskTryGrow ==
  ASSUME NEW s, Shaped(s), NEW I, NEW h \in Handles \ I, NEW c, NEW g \in TryGrow(s, h, c)
  PROVE  Mask(g, I) \in TryGrow(Mask(s, I), h, c)
<1>1. OnHeap(Mask(s, I), h) = OnHeap(s, h)
  BY MaskSpares
<1>2. CASE c > InlineSize[h]
  <2>1. PICK x \in TryGrowRaw(s, h, c) : g = SetOnHeap(x, h)
    BY <1>2 DEF TryGrow
  <2>2. Mask(x, I) \in TryGrowRaw(Mask(s, I), h, c) /\ Shaped(x)
    BY MaskTryGrowRaw, TryGrowRawFrame DEF OnlyTouches
  <2>3. Mask(g, I) = SetOnHeap(Mask(x, I), h)
    BY <2>1, <2>2, MaskSetLen
  <2> QED BY <1>2, <2>2, <2>3 DEF TryGrow
<1>3. CASE ~(c > InlineSize[h]) /\ OnHeap(s, h)
  BY <1>1, <1>3, MaskUnspill DEF TryGrow
<1>4. CASE ~(c > InlineSize[h]) /\ ~OnHeap(s, h)
  BY <1>1, <1>4 DEF TryGrow
<1> QED BY <1>2, <1>3, <1>4

LEMMA MaskReserve ==
  ASSUME NEW s, Shaped(s), NEW I, NEW h \in Handles \ I, NEW n
  PROVE  /\ \A g \in Reserve(s, h, n) : Mask(g, I) \in Reserve(Mask(s, I), h, n)
         /\ \A g \in WithCapacity(s, h, n) : Mask(g, I) \in WithCapacity(Mask(s, I), h, n)
<1>1. ASSUME NEW g \in Reserve(s, h, n)
      PROVE  Mask(g, I) \in Reserve(Mask(s, I), h, n)
  <2>1. LenOf(Mask(s, I), h) = LenOf(s, h) /\ Capacity(Mask(s, I), h) = Capacity(s, h)
    BY MaskSpares
  <2>2. CASE n > Capacity(s, h) - LenOf(s, h)
    <3>1. PICK c \in NextPowerOfTwo(LenOf(s, h) + n) : g \in TryGrow(s, h, c)
      BY <2>2 DEF Reserve
    <3>2. Mask(g, I) \in TryGrow(Mask(s, I), h, c)
      BY <3>1, MaskTryGrow
    <3> QED BY <2>1, <2>2, <3>2 DEF Reserve
  <2>3. CASE ~(n > Capacity(s, h) - LenOf(s, h))
    BY <2>1, <2>3 DEF Reserve
  <2> QED BY <2>2, <2>3
<1>2. ASSUME NEW g \in WithCapacity(s, h, n)
      PROVE  Mask(g, I) \in WithCapacity(Mask(s, I), h, n)
  <2> DEFINE m == NewInline(s, h)
  <2>1. Shaped(m) /\ Mask(m, I) = NewInline(Mask(s, I), h)
    <3>1. Unmasks(I, I, h)
      BY DEF Unmasks
    <3> QED BY <3>1, NewFrame, MaskSetInline DEF OnlyTouches
  <2>2. IF n > InlineSize[h] THEN g \in TryGrow(m, h, n) ELSE g = m
    BY DEF WithCapacity
  <2> HIDE DEF m
  <2>3. g \in TryGrow(m, h, n) => Mask(g, I) \in TryGrow(Mask(m, I), h, n)
    BY <2>1, MaskTryGrow
  <2> QED BY <2>1, <2>2, <2>3 DEF WithCapacity
<1> QED BY <1>1, <1>2
----------------------------------------------------------------------------
(* Elements change places in a masked storage.                             *)

(* h gets another buffer.                                                  *)
LEMMA AccountsResize ==
  ASSUME NEW E, NEW s, NEW c, NEW d, NEW l, Accounts(s, c, d, l, E), NEW h \in l,
         NEW g, Grown(s, g, h), SameItems(s, h, g, h)
  PROVE  Accounts(g, c, d, l, E)
<1>1. h \in Handles /\ BoundedStep(s, g, h)
  BY DEF Accounts, Grown
<1>2. Bounded(g) /\ Tidy(g, l)
  BY <1>1, TidyStep DEF Accounts
<1>3. Owned(g, h) = Owned(s, h) /\ Distinct(g, h)
  BY <1>1, SameOwned DEF Accounts, Own
<1>4. Exchange(s, c, d, g, c, d, h)
  BY <1>1, <1>3 DEF Exchange, Grown, Accounts, Own
<1>5. Own(g, c, d, E) /\ DeadEmpty(g, l)
  BY <1>1, <1>4, MoveOne DEF Accounts
<1> QED BY <1>2, <1>5 DEF Accounts

(* What h had is dropped.                                                  *)
LEMMA AccountsEmpty ==
  ASSUME NEW E, NEW s, NEW c, NEW d, NEW l, Accounts(s, c, d, l, E), NEW h \in Handles,
         NEW g, Grown(s, g, h), LenOf(g, h) = 0,
         NEW m \in SUBSET Handles, l \subseteq m \cup {h}, h \in m \/ g.mem[h] = Blank
  PROVE  Accounts(g, c, d \cup Owned(s, h), m, E)
<1> DEFINE d2 == d \cup Owned(s, h)
<1>1. Bounded(g) /\ Tidy(g, m)
  BY TidyStep DEF Accounts, Grown
<1>2. Owned(g, h) = {} /\ Distinct(g, h)
  BY EmptyOwns
<1>3. Exchange(s, c, d, g, c, d2, h)
  BY <1>2 DEF Exchange, Grown, Accounts, Own
<1> HIDE DEF d2
<1>4. Own(g, c, d2, E) /\ DeadEmpty(g, m)
  BY <1>3, MoveOne DEF Accounts
<1> QED BY <1>1, <1>4 DEF Accounts, d2

(* The contents of a change hands.                                         *)
LEMMA AccountsPass ==
  ASSUME NEW E, NEW s, NEW c, NEW d, NEW l, Accounts(s, c, d, l, E),
         NEW a \in Handles, NEW h \in Handles, a # h, h \notin l, OnHeap(s, a),
         NEW m \in SUBSET Handles, l \subseteq m \cup {a}, h \in m,
         NEW g, g = HandOver(s, a, h)
  PROVE  Accounts(g, c, d, m, E)
<1>1. Bounded(s) /\ Sound(s) /\ s.mem[h] = Blank /\ Tidy(s, l)
  BY DEF Accounts, Bounded, Tidy
<1>2. /\ Bounded(g) /\ g.mem[a] = Blank
      /\ \A k \in Handles \ {a} : g.mem[k] = s.mem[k]
  BY <1>1, HandOverFits
<1>3. Tidy(g, m)
  BY <1>1, <1>2 DEF Tidy
<1>4. /\ LenOf(g, a) = 0 /\ SameItems(s, a, g, h)
      /\ \A k \in Handles \ {a, h} : SameItems(s, k, g, k)
  BY <1>1, HandOverSound
<1>5. /\ Owned(g, h) = Owned(s, a) /\ Distinct(g, h)
      /\ Owned(g, a) = {} /\ Distinct(g, a) /\ Owned(s, h) = {}
  <2>1. Distinct(s, a) /\ LenOf(s, h) = 0
    BY DEF Accounts, Own, DeadEmpty
  <2> QED BY <1>4, <2>1, SameOwned, EmptyOwns
<1>6. Own(g, c, d, E) /\ DeadEmpty(g, m)
  <2>1. /\ Own(s, c, d, E) /\ DeadEmpty(s, l) /\ l \subseteq m \cup {a, h}
        /\ Owned(g, a) \cap Owned(g, h) = {}
        /\ Owned(g, a) \cup Owned(g, h) = Owned(s, a) \cup Owned(s, h)
    BY <1>5 DEF Accounts
  <2> QED BY <1>4, <1>5, <2>1, MoveTwo
<1> QED BY <1>2, <1>3, <1>6 DEF Accounts

----------------------------------------------------------------------------
(* The same for the storage behind the mask.                               *)

LEMMA MaskStorage ==
  ASSUME NEW s \in Storage, NEW g, NEW H, NEW I, OnlyTouches(s, g, H), H \cap I = {},
         Mask(g, I) \in Storage
  PROVE  g \in Storage
<1>1. \A h \in Handles : g.word[h] \in 0 .. UMax
  <2>1. \A h \in Handles \cap I : g.word[h] \in 0 .. UMax
    BY DEF OnlyTouches, Storage
  <2>2. \A h \in Handles \ I : g.word[h] \in 0 .. UMax
    BY DEF Mask, Storage
  <2> QED BY <2>1, <2>2
<1>2. g.word \in [Handles -> 0 .. UMax]
  BY <1>1 DEF OnlyTouches, Shaped
<1>3. /\ g.ptr \in [Handles -> Ptrs \cup {NullPtr}] /\ g.cap \in [Handles -> 0 .. MaxCap]
      /\ g.mem \in Memory /\ g.size \in BlockSizes
  BY DEF Mask, Storage
<1>4. g = [word |-> g.word, ptr |-> g.ptr, cap |-> g.cap, mem |-> g.mem, size |-> g.size]
  BY DEF OnlyTouches, Shaped
<1> QED BY <1>2, <1>3, <1>4 DEF Storage

(* g is s but for the handles in H.                                        *)
Spares(s, g, H) == OnlyTouches(s, g, H) /\ \A k \in Handles \ H : Cells(g, k) = Cells(s, k)

Only(s, g, h) == Spares(s, g, {h})

LEMMA OnlyCompose ==
  ASSUME NEW s, NEW m, NEW g, NEW h, Only(s, m, h), Only(m, g, h)
  PROVE  Only(s, g, h)
  BY DEF Only, Spares, OnlyTouches

LEMMA OnlyItself ==
  ASSUME NEW s, Shaped(s), NEW h
  PROVE  Only(s, s, h)
  BY DEF Only, Spares, OnlyTouches

(* An iterator whose handle is left alone has what it had.                 *)
LEMMA IterStands ==
  ASSUME NEW s \in Storage, NEW g, NEW H, NEW l, NEW m, NEW I, NEW b, Spares(s, g, H),
         H \cap I = {}, Mask(g, I) \in Storage, IterOK(s, l, I, b), m \cap I = {}
  PROVE  g \in Storage /\ IterOK(g, m, I, b) /\ Left(g, I, b) = Left(s, I, b)
<1>1. I \subseteq Handles /\ OnlyTouches(s, g, H)
  BY DEF IterOK, SmallVecs, Spares
<1>2. \A k \in I : /\ LenOf(g, k) = LenOf(s, k) /\ Capacity(g, k) = Capacity(s, k)
                   /\ Rest(g, k, b) = Rest(s, k, b) /\ Cells(g, k) = Cells(s, k)
  <2>1. \A k \in I : LenOf(g, k) = LenOf(s, k) /\ Capacity(g, k) = Capacity(s, k)
    BY <1>1, UntouchedStays DEF SamePlace
  <2>2. \A k \in I : Cells(g, k) = Cells(s, k)
    BY <1>1 DEF Spares
  <2> QED BY <2>1, <2>2 DEF Rest
<1>3. Left(g, I, b) = Left(s, I, b)
  BY <1>2 DEF Left
<1>4. IterOK(g, m, I, b)
  BY <1>2 DEF IterOK
<1>5. g \in Storage
  BY <1>1, MaskStorage
<1> QED BY <1>3, <1>4, <1>5

(* What Data says of a vector.                                             *)
LEMMA DataFacts ==
  ASSUME NEW s, NEW c, NEW d, NEW l, NEW I, NEW b, NEW E, NEW X, Data(s, c, d, l, I, b, E, X)
  PROVE  /\ Shaped(s) /\ s \in Storage /\ Bounded(Mask(s, I)) /\ Sound(Mask(s, I))
         /\ l \subseteq Handles /\ I \subseteq Handles /\ l \cap I = {}
         /\ c \subseteq Elems \ E /\ d \subseteq Elems \ E
         /\ c \cap (d \cup X) = {} /\ d \cap X = {}
<1>1. Shaped(s) /\ s \in Storage
  BY DEF Data, Storage, Shaped
<1>2. Bounded(Mask(s, I)) /\ Sound(Mask(s, I)) /\ l \subseteq Handles
  BY DEF Data, Accounts, Bounded
<1>3. I \subseteq Handles /\ l \cap I = {}
  BY DEF Data, IterOK, SmallVecs
<1>4. c \subseteq Elems \ E /\ d \subseteq Elems \ E /\ c \cap (d \cup X) = {} /\ d \cap X = {}
  BY DEF Data, Accounts, Own
<1> QED BY <1>1, <1>2, <1>3, <1>4

LEMMA DataVector ==
  ASSUME NEW s, NEW c, NEW d, NEW l, NEW I, NEW b, NEW E, NEW X, Data(s, c, d, l, I, b, E, X),
         NEW h \in Handles \ I
  PROVE  /\ LenOf(s, h) \in 0 .. MaxCap /\ Capacity(s, h) \in 0 .. MaxCap
         /\ LenOf(s, h) <= Capacity(s, h) /\ Cells(s, h) \in Block
         /\ FitIn(Cells(s, h), Capacity(s, h))
         /\ Owned(Mask(s, I), h) = Owned(s, h)
         /\ Holds(Cells(s, h), 0, LenOf(s, h), Owned(s, h))
         /\ Owned(s, h) \cap (c \cup d \cup X) = {} /\ Owned(s, h) \subseteq Elems \ E
         /\ h \notin l => LenOf(s, h) = 0 /\ Owned(s, h) = {}
<1> DEFINE M == Mask(s, I)
<1>1. /\ LenOf(M, h) = LenOf(s, h) /\ Capacity(M, h) = Capacity(s, h) /\ Cells(M, h) = Cells(s, h)
  BY MaskSpares
<1>2. Bounded(M) /\ Sound(M)
  BY DataFacts
<1>3. Owned(M, h) = Owned(s, h)
  BY <1>1 DEF Owned, Item
<1>4. Distinct(M, h) /\ Owned(M, h) \cap (c \cup d \cup X) = {} /\ Owned(M, h) \subseteq Elems \ E
  BY DEF Data, Accounts, Own
<1>5. h \notin l => LenOf(M, h) = 0
  BY DEF Data, Accounts, DeadEmpty
<1> HIDE DEF M
<1>6. Holds(Cells(M, h), 0, LenOf(M, h), Owned(M, h))
  BY <1>4, HoldsOwned
<1>7. FitIn(Cells(M, h), Capacity(M, h))
  BY <1>2, CellsFit
<1>8. /\ LenOf(M, h) \in 0 .. MaxCap /\ Capacity(M, h) \in 0 .. MaxCap
      /\ LenOf(M, h) <= Capacity(M, h) /\ Cells(M, h) \in Block
  BY <1>2, SoundLen
<1>9. h \notin l => Owned(M, h) = {}
  BY <1>5, EmptyOwns
<1> QED BY <1>1, <1>3, <1>4, <1>5, <1>6, <1>7, <1>8, <1>9 DEF M

LEMMA MaskSpared ==
  ASSUME NEW s, NEW g, NEW I, NEW h \in Handles, OnlyTouches(s, g, {h}),
         Grown(Mask(s, I), Mask(g, I), h)
  PROVE  Only(s, g, h)
<1>1. ASSUME NEW k \in Handles \ {h}
      PROVE  Cells(g, k) = Cells(s, k)
  <2> DEFINE M == Mask(s, I)
             G == Mask(g, I)
  <2>1. M.mem = s.mem /\ G.mem = g.mem /\ M.ptr = s.ptr /\ G.ptr = g.ptr
    BY DEF Mask
  <2>2. Cells(G, k) = Cells(M, k) /\ G.mem[k] = M.mem[k]
    BY DEF Grown, BoundedStep
  <2>3. g.word[k] = s.word[k] /\ g.ptr[k] = s.ptr[k]
    BY DEF OnlyTouches
  <2>4. G.word[k] = IF k \in I THEN g.word[k] % 2 ELSE g.word[k]
    BY DEF Mask
  <2>5. M.word[k] = IF k \in I THEN s.word[k] % 2 ELSE s.word[k]
    BY DEF Mask
  <2> QED BY <2>1, <2>2, <2>3, <2>4, <2>5 DEF Cells, AsPtr, OnHeap
<1> QED BY <1>1 DEF Spares, Only

(* h gets another buffer.                                                  *)
LEMMA DataResize ==
  ASSUME NEW s, NEW c, NEW d, NEW l, NEW I, NEW b, NEW E, NEW X, Data(s, c, d, l, I, b, E, X),
         NEW h \in l, NEW g, OnlyTouches(s, g, {h}), Grown(Mask(s, I), Mask(g, I), h),
         SameItems(Mask(s, I), h, Mask(g, I), h)
  PROVE  Data(g, c, d, l, I, b, E, X) /\ Only(s, g, h)
<1>1. h \in Handles \ I /\ l \cap I = {}
  BY DataFacts
<1>2. Only(s, g, h)
  BY <1>1, MaskSpared
<1>3. h \in l \cup I
  OBVIOUS
<1>4. Accounts(Mask(g, I), c, d \cup X \cup Left(s, I, b), l \cup I, Elems \ E)
  BY <1>3, AccountsResize DEF Data
<1>5. s \in Storage /\ IterOK(s, l, I, b) /\ {h} \cap I = {} /\ Mask(g, I) \in Storage
  BY <1>1, <1>4 DEF Data, Accounts, Bounded, Sound
<1>6. g \in Storage /\ IterOK(g, l, I, b) /\ Left(g, I, b) = Left(s, I, b)
  BY <1>1, <1>2, <1>5, IterStands DEF Only
<1>7. Data(g, c, d, l, I, b, E, X)
  BY <1>4, <1>6 DEF Data
<1> QED BY <1>2, <1>7

LEMMA DataReserve ==
  ASSUME NEW s, NEW c, NEW d, NEW l, NEW I, NEW b, NEW E, NEW X, Data(s, c, d, l, I, b, E, X),
         NEW h \in l, NEW n \in Nat, NEW g \in Reserve(s, h, n)
  PROVE  /\ Data(g, c, d, l, I, b, E, X) /\ Only(s, g, h)
         /\ LenOf(g, h) = LenOf(s, h) /\ Owned(g, h) = Owned(s, h)
         /\ (\A i \in 0 .. LenOf(s, h) - 1 : Item(g, h, i) = Item(s, h, i))
         /\ Capacity(g, h) >= LenOf(g, h) + n /\ Capacity(g, h) >= Capacity(s, h)
<1> DEFINE M == Mask(s, I)
           G == Mask(g, I)
<1>1. h \in Handles \ I /\ Shaped(s) /\ Bounded(M)
  BY DataFacts
<1>2. G \in Reserve(M, h, n)
  BY <1>1, MaskReserve
<1>3. /\ LenOf(M, h) = LenOf(s, h) /\ Capacity(M, h) = Capacity(s, h) /\ Cells(M, h) = Cells(s, h)
      /\ LenOf(G, h) = LenOf(g, h) /\ Capacity(G, h) = Capacity(g, h) /\ Cells(G, h) = Cells(g, h)
  BY <1>1, MaskSpares
<1>4. OnlyTouches(s, g, {h})
  BY <1>1, CapacityFrame
<1> HIDE DEF M, G
<1>5. /\ Grown(M, G, h) /\ Resized(M, G, h)
      /\ Capacity(G, h) >= LenOf(G, h) + n /\ Capacity(G, h) >= Capacity(M, h)
  BY <1>1, <1>2, ReserveGrows
<1>6. SameItems(M, h, G, h)
  BY <1>1, <1>5 DEF Resized
<1>7. Data(g, c, d, l, I, b, E, X) /\ Only(s, g, h)
  BY <1>4, <1>5, <1>6, DataResize DEF M, G
<1>8. /\ LenOf(g, h) = LenOf(s, h)
      /\ \A i \in 0 .. LenOf(s, h) - 1 : Item(g, h, i) = Item(s, h, i)
  BY <1>3, <1>6 DEF SameItems, Item
<1>9. Owned(g, h) = Owned(s, h)
  BY <1>8 DEF Owned
<1> QED BY <1>3, <1>5, <1>7, <1>8, <1>9

(* h is constructed.                                                       *)
LEMMA DataMake ==
  ASSUME NEW s, NEW c, NEW d, NEW l, NEW I, NEW b, NEW E, NEW X, Data(s, c, d, l, I, b, E, X),
         NEW h \in Handles \ (l \cup I), NEW m, m = l \cup {h}, NEW n \in Nat, NEW g,
         g \in WithCapacity(s, h, n) \/ (g = NewInline(s, h) /\ n = InlineSize[h])
  PROVE  /\ Data(g, c, d, m, I, b, E, X) /\ Only(s, g, h)
         /\ LenOf(g, h) = 0 /\ Capacity(g, h) >= n
<1> DEFINE M == Mask(s, I)
           G == Mask(g, I)
<1>1. h \in Handles \ I /\ Shaped(s) /\ Bounded(M) /\ Sound(M)
  BY DataFacts
<1>2. G \in WithCapacity(M, h, n) \/ (G = NewInline(M, h) /\ n = InlineSize[h])
  <2>1. Unmasks(I, I, h)
    BY DEF Unmasks
  <2>2. g \in WithCapacity(s, h, n) => G \in WithCapacity(M, h, n)
    BY <1>1, MaskReserve
  <2>3. Mask(NewInline(s, h), I) = NewInline(M, h)
    BY <1>1, <2>1, MaskSetInline
  <2> QED BY <2>2, <2>3
<1>3. OnlyTouches(s, g, {h})
  BY <1>1, CapacityFrame, NewFrame
<1>4. /\ LenOf(M, h) = LenOf(s, h)
      /\ LenOf(G, h) = LenOf(g, h) /\ Capacity(G, h) = Capacity(g, h)
  BY <1>1, MaskSpares
<1>5. LenOf(s, h) = 0 /\ InlineSize[h] \in Nat
  BY DataVector, RawAssumption
<1> HIDE DEF M, G
<1>6. /\ Grown(M, G, h) /\ LenOf(G, h) = 0 /\ Capacity(G, h) >= n
  <2>1. CASE G \in WithCapacity(M, h, n)
    <3>1. BoundedStep(M, G, h)
      BY <1>1, <2>1, WithCapacityFits
    <3>2. /\ LenOf(G, h) = 0 /\ Capacity(G, h) >= n
          /\ \A k \in Handles \ {h} : SameItems(M, k, G, k)
      BY <1>1, <2>1, WithCapacitySound
    <3> QED BY <3>1, <3>2 DEF Grown
  <2>2. CASE G = NewInline(M, h) /\ n = InlineSize[h]
    <3>1. BoundedStep(M, G, h)
      BY <1>1, <2>2, NewInlineFits
    <3>2. /\ LenOf(G, h) = 0 /\ Capacity(G, h) = n
          /\ \A k \in Handles \ {h} : SameItems(M, k, G, k)
      BY <1>1, <2>2, NewInlineSound
    <3> QED BY <3>1, <3>2 DEF Grown
  <2> QED BY <1>2, <2>1, <2>2
<1>7. Owned(M, h) = {}
  BY <1>4, <1>5, EmptyOwns
<1>8. Accounts(G, c, d \cup X \cup Left(s, I, b), m \cup I, Elems \ E)
  <2>1. h \in m \cup I /\ l \cup I \subseteq (m \cup I) \cup {h} /\ m \cup I \in SUBSET Handles
    BY DEF Data, Accounts
  <2>2. Accounts(M, c, d \cup X \cup Left(s, I, b), l \cup I, Elems \ E)
    BY DEF Data, M
  <2>3. Accounts(G, c, (d \cup X \cup Left(s, I, b)) \cup Owned(M, h), m \cup I, Elems \ E)
    BY <1>6, <2>1, <2>2, AccountsEmpty
  <2> QED BY <1>7, <2>3
<1>9. Only(s, g, h)
  BY <1>1, <1>3, <1>6, MaskSpared DEF M, G
<1>10. Data(g, c, d, m, I, b, E, X)
  <2>1. s \in Storage /\ IterOK(s, l, I, b) /\ {h} \cap I = {} /\ m \cap I = {} /\ G \in Storage
    <3>1. l \cap I = {}
      BY DataFacts
    <3> QED BY <1>8, <3>1 DEF Data, Accounts, Bounded, Sound
  <2>2. g \in Storage /\ IterOK(g, m, I, b) /\ Left(g, I, b) = Left(s, I, b)
    BY <1>9, <2>1, IterStands DEF G, Only
  <2> QED BY <1>8, <2>2 DEF Data, G
<1> QED BY <1>4, <1>6, <1>9, <1>10

LEMMA DataNew ==
  ASSUME NEW s, NEW c, NEW d, NEW l, NEW I, NEW b, NEW E, NEW X, Data(s, c, d, l, I, b, E, X),
         NEW h \in Handles \ (l \cup I), NEW m, m = l \cup {h}, NEW g, g = NewInline(s, h)
  PROVE  /\ Data(g, c, d, m, I, b, E, X) /\ Only(s, g, h)
         /\ LenOf(g, h) = 0 /\ Capacity(g, h) >= InlineSize[h]
<1> DEFINE n == InlineSize[h]
<1>1. n \in Nat /\ (g \in WithCapacity(s, h, n) \/ (g = NewInline(s, h) /\ n = InlineSize[h]))
  BY RawAssumption
<1> HIDE DEF n
<1>2. /\ Data(g, c, d, m, I, b, E, X) /\ Only(s, g, h)
      /\ LenOf(g, h) = 0 /\ Capacity(g, h) >= n
  BY <1>1, DataMake
<1> QED BY <1>2 DEF n

Splits(W, O, c, d, X) ==
  /\ O \cap (c \cup d \cup X) = {} /\ c \cap (d \cup X) = {} /\ d \cap X = {}
  /\ O \cup c \cup d \cup X = W

(* h is written, after which the elements are shared out in another way.   *)
LEMMA DataWrite ==
  ASSUME NEW s, NEW c, NEW d, NEW l, NEW I, NEW b, NEW E, NEW X, Data(s, c, d, l, I, b, E, X),
         NEW h \in l, NEW cells, NEW n, NEW O, Lays(s, h, cells, n, O),
         NEW W, W = Owned(s, h) \cup c \cup d \cup X,
         NEW c2, NEW d2, NEW X2, Splits(W, O, c2, d2, X2),
         NEW x, x = Edited(s, h, cells, n)
  PROVE  /\ Data(x, c2, d2, l, I, b, E, X2) /\ Only(s, x, h)
         /\ LenOf(x, h) = n /\ Cells(x, h) = cells /\ Capacity(x, h) = Capacity(s, h)
<1> DEFINE M == Mask(s, I)
           G == Mask(x, I)
           L == Left(s, I, b)
<1>1. h \in Handles \ I /\ Shaped(s) /\ Bounded(M) /\ l \cap I = {}
  BY DataFacts
<1>2. /\ Owned(M, h) = Owned(s, h) /\ Owned(s, h) \cap L = {} /\ c \cap L = {}
      /\ (d \cup X) \cap L = {}
  <2>1. Owned(M, h) = Owned(s, h)
    BY <1>1, DataVector
  <2> QED BY <1>1, <2>1 DEF Data, Accounts, Own
<1>3. OnlyTouches(s, x, {h})
  BY <1>1, SetFrame
<1>4. G = Edited(M, h, cells, n)
  BY <1>1, MaskSetLen
<1>5. Capacity(M, h) = Capacity(s, h)
  BY <1>1, MaskSpares
<1>6. /\ LenOf(G, h) = LenOf(x, h) /\ Capacity(G, h) = Capacity(x, h)
      /\ Cells(G, h) = Cells(x, h)
  BY <1>1, MaskSpares
<1>a. Accounts(M, c, d \cup X \cup L, l \cup I, Elems \ E) /\ h \in l \cup I
  BY DEF Data
<1> HIDE DEF M, G, L
<1>7. Lays(M, h, cells, n, O) /\ Grown(M, M, h)
  BY <1>1, <1>5, GrownStays DEF Lays
<1>8. Shares(O, c2, d2 \cup X2 \cup L, Owned(M, h) \cup c \cup (d \cup X \cup L))
  BY <1>2 DEF Shares, Splits
<1>9. Accounts(G, c2, d2 \cup X2 \cup L, l \cup I, Elems \ E) /\ Wrote(M, G, h, cells, n)
  BY <1>4, <1>7, <1>8, <1>a, AccountsWrite
<1>10. Grown(M, G, h)
  <2>1. \A i \in 0 .. n - 1 : cells[i] \in Elems
    <3>1. O \subseteq Elems
      BY <1>2, <1>a DEF Splits, Accounts, Own
    <3> QED BY <3>1 DEF Lays, Holds
  <2> QED BY <1>1, <1>4, <1>7, <2>1, WriteGrows DEF Lays
<1>11. Only(s, x, h)
  BY <1>1, <1>3, <1>10, MaskSpared DEF M, G
<1>12. Data(x, c2, d2, l, I, b, E, X2)
  <2>1. (d2 \cup X2) \cap L = {} /\ d2 \cap X2 = {}
    BY <1>2 DEF Splits
  <2>2. s \in Storage /\ IterOK(s, l, I, b) /\ {h} \cap I = {} /\ G \in Storage
    BY <1>1, <1>9 DEF Data, Accounts, Bounded, Sound
  <2>3. x \in Storage /\ IterOK(x, l, I, b) /\ Left(x, I, b) = L
    <3> DEFINE H == {h}
    <3>1. Spares(s, x, H) /\ H \cap I = {} /\ Mask(x, I) \in Storage
      BY <1>11, <2>2 DEF G, Only
    <3>2. s \in Storage /\ IterOK(s, l, I, b) /\ l \cap I = {}
      BY <1>1, <2>2
    <3> HIDE DEF H
    <3>3. x \in Storage /\ IterOK(x, l, I, b) /\ Left(x, I, b) = Left(s, I, b)
      BY <3>1, <3>2, IterStands
    <3> QED BY <3>3 DEF L
  <2>4. Accounts(Mask(x, I), c2, d2 \cup X2 \cup Left(x, I, b), l \cup I, Elems \ E)
    BY <1>9, <2>3 DEF G
  <2>5. d2 \cap X2 = {} /\ (d2 \cup X2) \cap Left(x, I, b) = {}
    BY <2>1, <2>3
  <2> QED BY <2>3, <2>4, <2>5 DEF Data
<1>13. LenOf(x, h) = n /\ Cells(x, h) = cells /\ Capacity(x, h) = Capacity(s, h)
  BY <1>5, <1>6, <1>9 DEF Wrote
<1> QED BY <1>11, <1>12, <1>13

(* The elements are shared out in another way.                             *)
LEMMA DataShare ==
  ASSUME NEW s, NEW c, NEW d, NEW l, NEW I, NEW b, NEW E, NEW X, Data(s, c, d, l, I, b, E, X),
         NEW W, W = c \cup d \cup X, NEW c2, NEW d2, NEW X2, Splits(W, {}, c2, d2, X2)
  PROVE  Data(s, c2, d2, l, I, b, E, X2)
<1> DEFINE L == Left(s, I, b)
<1>1. c \cap L = {} /\ (d \cup X) \cap L = {}
  BY DEF Data, Accounts, Own
<1>2. /\ Shares({}, c2, d2 \cup X2 \cup L, c \cup (d \cup X \cup L))
      /\ (d2 \cup X2) \cap L = {} /\ d2 \cap X2 = {}
  BY <1>1 DEF Shares, Splits
<1>3. Accounts(Mask(s, I), c2, d2 \cup X2 \cup L, l \cup I, Elems \ E)
  BY <1>2, AccountsShare DEF Data
<1> QED BY <1>2, <1>3 DEF Data

(* What is set aside is given up.                                          *)
LEMMA DataForget ==
  ASSUME NEW s, NEW c, NEW d, NEW l, NEW I, NEW b, NEW E, NEW X, Data(s, c, d, l, I, b, E, X),
         NEW F, F = E \cup X
  PROVE  Data(s, c, d, l, I, b, F, {})
<1> DEFINE L == Left(s, I, b)
           D == d \cup L
<1>1. D \cap X = {} /\ d \cup X \cup L = D \cup X /\ (Elems \ E) \ X = Elems \ (E \cup X)
      /\ d \cup {} \cup L = D
  BY DEF Data
<1>2. Accounts(Mask(s, I), c, D \cup X, l \cup I, Elems \ E)
  BY <1>1 DEF Data
<1> HIDE DEF D
<1>3. Accounts(Mask(s, I), c, D, l \cup I, (Elems \ E) \ X)
  BY <1>1, <1>2, AccountsLess
<1> QED BY <1>1, <1>3 DEF Data

(* h is dropped.                                                           *)
LEMMA DataClose ==
  ASSUME NEW s, NEW c, NEW d, NEW l, NEW I, NEW b, NEW E, NEW X, Data(s, c, d, l, I, b, E, X),
         NEW h \in l, NEW g, g = Released(s, h), NEW m, m = l \ {h},
         NEW D, D = d \cup Owned(s, h)
  PROVE  Data(g, c, D, m, I, b, E, X) /\ Only(s, g, h)
<1> DEFINE M == Mask(s, I)
           G == Mask(g, I)
           L == Left(s, I, b)
           O == Owned(s, h)
<1>1. h \in Handles \ I /\ Shaped(s) /\ Bounded(M) /\ Sound(M) /\ l \cap I = {} /\ s \in Storage
  BY DataFacts
<1>2. G = Released(M, h) /\ OnlyTouches(s, g, {h})
  BY <1>1, MaskReleased, ReleasedFrame DEF Unmasks
<1>3. Owned(M, h) = O /\ O \cap X = {} /\ O \cap L = {}
  <2>1. Owned(M, h) = O /\ O \cap (c \cup d \cup X) = {}
    BY <1>1, DataVector
  <2> QED BY <1>1, <2>1 DEF Data, Accounts, Own
<1> HIDE DEF M, G, L, O
<1>4. Grown(M, G, h) /\ LenOf(G, h) = 0 /\ G.mem[h] = Blank
  BY <1>1, <1>2, ReleasedFits, ReleasedSound DEF Grown
<1>5. Accounts(G, c, (d \cup O) \cup X \cup L, m \cup I, Elems \ E)
  <2>1. l \cup I \subseteq (m \cup I) \cup {h} /\ m \cup I \in SUBSET Handles
    BY DEF Data, Accounts
  <2>2. Accounts(M, c, d \cup X \cup L, l \cup I, Elems \ E)
    BY DEF Data, M, L
  <2>3. Accounts(G, c, (d \cup X \cup L) \cup Owned(M, h), m \cup I, Elems \ E)
    BY <1>1, <1>4, <2>1, <2>2, AccountsEmpty
  <2>4. (d \cup X \cup L) \cup O = (d \cup O) \cup X \cup L
    OBVIOUS
  <2> QED BY <1>3, <2>3, <2>4
<1>6. Only(s, g, h)
  BY <1>1, <1>2, <1>4, MaskSpared DEF M, G
<1>7. Data(g, c, d \cup O, m, I, b, E, X)
  <2>1. s \in Storage /\ IterOK(s, l, I, b) /\ {h} \cap I = {} /\ m \cap I = {} /\ G \in Storage
    BY <1>1, <1>5 DEF Data, Accounts, Bounded, Sound
  <2>2. g \in Storage /\ IterOK(g, m, I, b) /\ Left(g, I, b) = L
    BY <1>6, <2>1, IterStands DEF G, L, Only
  <2>3. (d \cup O) \cap X = {} /\ ((d \cup O) \cup X) \cap L = {}
    BY <1>3 DEF Data, L
  <2> QED BY <1>5, <2>2, <2>3 DEF Data, G
<1> QED BY <1>6, <1>7 DEF O

(* from_vec.                                                               *)
LEMMA DataPass ==
  ASSUME NEW s, NEW c, NEW d, NEW l, NEW I, NEW b, NEW E, NEW X, Data(s, c, d, l, I, b, E, X),
         Std \in l, NEW h \in SmallVecs \ (l \cup I), NEW m, m = (l \ {Std}) \cup {h}, NEW g,
         g = IF Capacity(s, Std) = 0 THEN NewInline(s, h) ELSE HandOver(s, Std, h)
  PROVE  Data(g, c, d, m, I, b, E, X) /\ Spares(s, g, {Std, h})
<1>1. /\ Shaped(s) /\ Bounded(Mask(s, I)) /\ Sound(Mask(s, I)) /\ l \cap I = {} /\ s \in Storage
      /\ Std \in Handles \ I /\ h \in Handles \ I /\ h # Std
  BY DataFacts, StdAssumption DEF SmallVecs
<1>2. CASE Capacity(s, Std) = 0
  <2>1. Data(g, c, d, l \cup {h}, I, b, E, X) /\ Only(s, g, h)
    <3>1. h \in Handles \ (l \cup I) /\ g = NewInline(s, h)
      BY <1>1, <1>2
    <3> QED BY <3>1, DataNew
  <2>2. LenOf(g, Std) = 0 /\ InlineSize[Std] = 0
    <3>1. LenOf(s, Std) = 0
      BY <1>1, <1>2, DataVector
    <3> QED BY <1>1, <2>1, <3>1, UntouchedStays, StdAssumption DEF Spares, Only
  <2> DEFINE G == Mask(g, I)
  <2>3. Accounts(G, c, d \cup X \cup Left(g, I, b), (l \cup {h}) \cup I, Elems \ E)
    BY <2>1 DEF Data
  <2>4. LenOf(G, Std) = 0
    BY <1>1, <2>2, MaskSpares
  <2> HIDE DEF G
  <2>5. G.mem[Std] = Blank
    <3>1. G.mem[Std] \in Block /\ FitIn(G.mem[Std], 0)
      BY <1>1, <2>2, <2>3 DEF Accounts, Bounded, Sound, Storage, Memory, Fits
    <3> QED BY <3>1, RawAssumption DEF Block, Blank, FitIn, Slots
  <2>6. Accounts(G, c, d \cup X \cup Left(g, I, b), m \cup I, Elems \ E)
    BY <1>1, <2>3, <2>4, <2>5 DEF Accounts, Tidy, DeadEmpty
  <2>7. IterOK(g, m, I, b)
    BY <2>1 DEF Data, IterOK, SmallVecs
  <2>8. Spares(s, g, {Std, h})
    BY <2>1 DEF Only, Spares, OnlyTouches
  <2> QED BY <2>1, <2>6, <2>7, <2>8 DEF Data, G
<1>3. CASE Capacity(s, Std) # 0
  <2> DEFINE M == Mask(s, I)
             G == Mask(g, I)
  <2>1. OnHeap(s, Std)
    BY <1>3, StdAssumption DEF Capacity
  <2>2. g = HandOver(s, Std, h)
    BY <1>3
  <2>3. G = HandOver(M, Std, h) /\ OnlyTouches(s, g, {Std, h}) /\ OnHeap(M, Std)
    BY <1>1, <2>1, <2>2, MaskHandOver, HandOverFrame, MaskSpares
  <2>a. Accounts(M, c, d \cup X \cup Left(s, I, b), l \cup I, Elems \ E)
    BY DEF Data
  <2> HIDE DEF M, G
  <2>4. Accounts(G, c, d \cup X \cup Left(s, I, b), m \cup I, Elems \ E)
    <3>1. /\ h \notin l \cup I /\ h \in m \cup I /\ l \cup I \subseteq (m \cup I) \cup {Std}
          /\ m \cup I \in SUBSET Handles
      BY <1>1, <2>a DEF Accounts
    <3> QED BY <1>1, <2>3, <2>a, <3>1, AccountsPass
  <2>5. Spares(s, g, {Std, h})
    <3>1. \A k \in Handles \ {Std, h} : Cells(G, k) = Cells(M, k)
      <4>1. M.mem[h] = Blank /\ Bounded(M)
        BY <1>1, <2>a DEF Accounts, Tidy
      <4> QED BY <1>1, <2>3, <4>1, HandOverFits
    <3>2. ASSUME NEW k \in Handles \ {Std, h}
          PROVE  Cells(g, k) = Cells(s, k)
      <4>1. M.mem = s.mem /\ G.mem = g.mem /\ M.ptr = s.ptr /\ G.ptr = g.ptr
        BY DEF Mask, M, G
      <4>2. Cells(G, k) = Cells(M, k)
        BY <3>1
      <4>3. g.word[k] = s.word[k] /\ g.ptr[k] = s.ptr[k]
        BY <2>3 DEF OnlyTouches
      <4>4. G.word[k] = IF k \in I THEN g.word[k] % 2 ELSE g.word[k]
        BY DEF Mask, G
      <4>5. M.word[k] = IF k \in I THEN s.word[k] % 2 ELSE s.word[k]
        BY DEF Mask, M
      <4>6. Cells(M, k) = Cells(s, k)
        BY <1>1, MaskFacts DEF M
      <4>7. g.word[k] \in 0 .. UMax
        BY <1>1, <4>3 DEF Storage
      <4>8. Cells(G, k) = Cells(g, k)
        <5>1. (g.word[k] % 2) % 2 = g.word[k] % 2
          BY <4>7, RawAssumption
        <5> QED BY <4>1, <4>4, <5>1 DEF Cells, AsPtr, OnHeap
      <4> QED BY <4>2, <4>6, <4>8
    <3> QED BY <2>3, <3>2 DEF Spares
  <2>6. s \in Storage /\ IterOK(s, l, I, b) /\ {Std, h} \cap I = {} /\ m \cap I = {} /\ G \in Storage
    BY <1>1, <2>4 DEF Data, Accounts, Bounded, Sound
  <2>7. g \in Storage /\ IterOK(g, m, I, b) /\ Left(g, I, b) = Left(s, I, b)
    BY <2>5, <2>6, IterStands DEF G
  <2> QED BY <2>4, <2>5, <2>7 DEF Data, G
<1> QED BY <1>2, <1>3
----------------------------------------------------------------------------
(* Iterators.                                                              *)

(* It has its items to itself.                                             *)
LEMMA IterFacts ==
  ASSUME NEW s, NEW c, NEW d, NEW l, NEW I, NEW b, NEW E, NEW X, Data(s, c, d, l, I, b, E, X),
         NEW k \in I
  PROVE  /\ k \in SmallVecs \ l /\ k \in Handles
         /\ b \in [Handles -> 0 .. MaxCap] /\ b[k] \in 0 .. MaxCap
         /\ LenOf(s, k) \in 0 .. MaxCap /\ Capacity(s, k) \in 0 .. MaxCap
         /\ b[k] <= LenOf(s, k) /\ LenOf(s, k) <= Capacity(s, k)
         /\ Rest(s, k, b) \subseteq Left(s, I, b)
         /\ Holds(Cells(s, k), b[k], LenOf(s, k), Rest(s, k, b))
         /\ Rest(s, k, b) \subseteq Elems \ E
         /\ Rest(s, k, b) \cap (c \cup d \cup X) = {}
         /\ Cells(s, k) \in Block /\ FitIn(Cells(s, k), Capacity(s, k))
         /\ LenOf(Mask(s, I), k) = 0 /\ AsPtr(s, k) \in Handles \cup Ptrs
<1>1. /\ k \in SmallVecs \ l /\ k \in Handles
      /\ b \in [Handles -> 0 .. MaxCap] /\ b[k] <= LenOf(s, k) /\ LenOf(s, k) <= Capacity(s, k)
      /\ Holds(Cells(s, k), b[k], LenOf(s, k), Rest(s, k, b))
  BY DEF Data, IterOK, SmallVecs
<1>2. Rest(s, k, b) \subseteq Left(s, I, b)
  BY DEF Left
<1>3. s \in Storage /\ Sound(Mask(s, I)) /\ Bounded(Mask(s, I))
  BY DataFacts
<1>4. /\ Capacity(Mask(s, I), k) = Capacity(s, k) /\ Cells(Mask(s, I), k) = Cells(s, k)
      /\ LenOf(Mask(s, I), k) = 0 /\ AsPtr(Mask(s, I), k) = AsPtr(s, k)
  BY <1>1, <1>3, MaskFacts
<1>5. /\ Capacity(s, k) \in 0 .. MaxCap /\ Cells(s, k) \in Block /\ FitIn(Cells(s, k), Capacity(s, k))
      /\ AsPtr(s, k) \in Handles \cup Ptrs
  BY <1>1, <1>3, <1>4, SoundLen, CellsFit
<1>6. LenOf(s, k) \in 0 .. MaxCap /\ b[k] \in 0 .. MaxCap
  <2>1. LenOf(s, k) \in Nat
    BY <1>1, <1>3, LenType
  <2> QED BY <1>1, <1>5, <2>1, RawAssumption
<1>7. Left(s, I, b) \subseteq Elems \ E /\ Left(s, I, b) \cap (c \cup d \cup X) = {}
  BY DEF Data, Accounts, Own
<1>8. Rest(s, k, b) \subseteq Elems \ E /\ Rest(s, k, b) \cap (c \cup d \cup X) = {}
  BY <1>2, <1>7
<1> QED BY <1>1, <1>2, <1>4, <1>5, <1>6, <1>8

MovedTo(b, k, a) == [b EXCEPT ![k] = a]

(* What leaves its slice is set aside.                                     *)
LEMMA IterShrinks ==
  ASSUME NEW s, NEW c, NEW d, NEW l, NEW I, NEW b, NEW E, NEW X, Data(s, c, d, l, I, b, E, X),
         NEW k \in I, NEW x \in Storage, Only(s, x, k),
         Accounts(Mask(x, I), c, d \cup X \cup Left(s, I, b), l \cup I, Elems \ E),
         NEW a \in Nat, b[k] <= a, a <= LenOf(x, k), LenOf(x, k) <= LenOf(s, k),
         Capacity(x, k) = Capacity(s, k),
         \A i \in a .. LenOf(x, k) - 1 : Cells(x, k)[i] = Cells(s, k)[i],
         NEW e, e = MovedTo(b, k, a)
  PROVE  Data(x, c, d, l, I, e, E, X \cup (Rest(s, k, b) \ Rest(x, k, e)))
<1> DEFINE L == Left(s, I, b)
           F == Left(x, I, e)
           O == Rest(s, k, b)
           R == Rest(x, k, e)
           len == LenOf(s, k)
           n == LenOf(x, k)
<1>1. /\ k \in SmallVecs \ l /\ k \in Handles /\ b \in [Handles -> 0 .. MaxCap]
      /\ b[k] \in 0 .. MaxCap /\ len \in 0 .. MaxCap /\ len <= Capacity(s, k)
      /\ O \subseteq L /\ Holds(Cells(s, k), b[k], len, O)
  BY IterFacts
<1>2. n \in Nat /\ MaxCap \in Nat
  BY <1>1, LenType, RawAssumption
<1>3. e[k] = a /\ e \in [Handles -> 0 .. MaxCap] /\ \A h \in Handles \ I : e[h] = 0
  <2>1. a \in 0 .. MaxCap
    BY <1>1, <1>2
  <2> QED BY <1>1, <2>1 DEF Data, IterOK, MovedTo
<1>4. Holds(Cells(x, k), a, n, R) /\ R \subseteq O
  <2>1. R = ItemsFrom(Cells(x, k), a, n)
    BY <1>3 DEF Rest
  <2> DEFINE p == b[k]
  <2>a. p \in Int /\ a \in Int /\ len \in Int /\ p <= a /\ a <= len /\ Holds(Cells(s, k), p, len, O)
    BY <1>1, <1>2
  <2> HIDE DEF R, O, p, len
  <2>b. /\ Holds(Cells(s, k), a, len, ItemsFrom(Cells(s, k), a, len))
        /\ ItemsFrom(Cells(s, k), p, a) \cup ItemsFrom(Cells(s, k), a, len) = O
    BY <2>a, HoldsCut
  <2>2. Holds(Cells(s, k), a, len, ItemsFrom(Cells(s, k), a, len)) /\ ItemsFrom(Cells(s, k), a, len) \subseteq O
    BY <2>b
  <2>3. \A i \in a .. n - 1 : i \in a .. len - 1
    BY <1>1, <1>2 DEF len
  <2> QED BY <2>1, <2>2, <2>3 DEF Holds, ItemsFrom
<1>5. \A h \in I \ {k} : /\ e[h] = b[h] /\ LenOf(x, h) = LenOf(s, h) /\ Capacity(x, h) = Capacity(s, h)
                        /\ Cells(x, h) = Cells(s, h) /\ Rest(x, h, e) = Rest(s, h, b)
  <2>1. I \subseteq Handles
    BY DataFacts
  <2>2. \A h \in I \ {k} : e[h] = b[h]
    BY <1>1, <2>1 DEF MovedTo
  <2>3. \A h \in I \ {k} : LenOf(x, h) = LenOf(s, h) /\ Capacity(x, h) = Capacity(s, h)
    <3> DEFINE H == {k}
    <3>1. OnlyTouches(s, x, H)
      BY DEF Only, Spares
    <3>2. \A h \in I \ {k} : h \in Handles \ H
      BY <2>1
    <3> HIDE DEF H
    <3> QED BY <3>1, <3>2, UntouchedStays DEF SamePlace
  <2>4. \A h \in I \ {k} : Cells(x, h) = Cells(s, h)
    BY <2>1 DEF Only, Spares
  <2> QED BY <2>2, <2>3, <2>4 DEF Rest
<1>6. IterOK(x, l, I, e)
  <2>1. n <= Capacity(x, k)
    <3>1. Capacity(s, k) \in 0 .. MaxCap
      BY IterFacts
    <3> QED BY <1>1, <1>2, <3>1
  <2>2. I \subseteq SmallVecs \ l
    BY DEF Data, IterOK
  <2> HIDE DEF n, R, L, O
  <2>3. \A h \in I : /\ e[h] <= LenOf(x, h) /\ LenOf(x, h) <= Capacity(x, h)
                     /\ Holds(Cells(x, h), e[h], LenOf(x, h), Rest(x, h, e))
    <3>1. /\ e[k] <= LenOf(x, k) /\ LenOf(x, k) <= Capacity(x, k)
          /\ Holds(Cells(x, k), e[k], LenOf(x, k), Rest(x, k, e))
      BY <1>3, <1>4, <2>1 DEF n, R
    <3>2. \A h \in I \ {k} : /\ e[h] <= LenOf(x, h) /\ LenOf(x, h) <= Capacity(x, h)
                             /\ Holds(Cells(x, h), e[h], LenOf(x, h), Rest(x, h, e))
      BY <1>5 DEF Data, IterOK
    <3> QED BY <3>1, <3>2
  <2>4. \A h, j \in I : h # j => Rest(x, h, e) \cap Rest(x, j, e) = {}
    <3>1. \A h \in I : Rest(x, h, e) \subseteq Rest(s, h, b)
      BY <1>4, <1>5 DEF R, O
    <3>2. \A h, j \in I : h # j => Rest(s, h, b) \cap Rest(s, j, b) = {}
      BY DEF Data, IterOK
    <3> QED BY <3>1, <3>2
  <2> QED BY <1>3, <2>2, <2>3, <2>4 DEF IterOK
<1>7. L = F \cup (O \ R) /\ F \cap (O \ R) = {}
  <2> DEFINE Q == UNION {Rest(s, h, b) : h \in I \ {k}}
  <2>1. L = O \cup Q
    BY DEF Left
  <2>2. F = R \cup Q
    BY <1>5 DEF Left
  <2>3. O \cap Q = {}
    BY DEF Data, IterOK
  <2> HIDE DEF L, F, O, R, Q
  <2> QED BY <1>4, <2>1, <2>2, <2>3
<1> DEFINE X2 == X \cup (O \ R)
<1>8. d \cup X2 \cup F = d \cup X \cup L /\ d \cap X2 = {} /\ (d \cup X2) \cap F = {}
  <2>1. d \cap X = {} /\ (d \cup X) \cap L = {}
    BY DEF Data
  <2> HIDE DEF L, F, O, R
  <2> QED BY <1>7, <2>1
<1> HIDE DEF F, L, X2
<1>9. Data(x, c, d, l, I, e, E, X2)
  BY <1>6, <1>8 DEF Data, F, L
<1> QED BY <1>9 DEF X2

(* It gives up all that it has left.                                       *)
LEMMA IterLetsGo ==
  ASSUME NEW s, NEW c, NEW d, NEW l, NEW I, NEW b, NEW E, NEW X, Data(s, c, d, l, I, b, E, X),
         NEW k \in I, NEW e, e = MovedTo(b, k, LenOf(s, k)), NEW Y, Y = X \cup Rest(s, k, b)
  PROVE  Data(s, c, d, l, I, e, E, Y) /\ Rest(s, k, e) = {}
<1>1. /\ k \in Handles /\ b \in [Handles -> 0 .. MaxCap] /\ b[k] <= LenOf(s, k)
      /\ LenOf(s, k) \in Nat /\ s \in Storage
  <2>1. s \in Storage
    BY DataFacts
  <2>2. MaxCap \in Nat
    BY RawAssumption
  <2> QED BY <2>1, <2>2, IterFacts
<1>2. Accounts(Mask(s, I), c, d \cup X \cup Left(s, I, b), l \cup I, Elems \ E)
  BY DEF Data
<1> DEFINE a == LenOf(s, k)
<1>3. a \in Nat /\ b[k] <= a /\ a <= LenOf(s, k) /\ e = MovedTo(b, k, a) /\ LenOf(s, k) <= LenOf(s, k)
      /\ \A i \in a .. LenOf(s, k) - 1 : Cells(s, k)[i] = Cells(s, k)[i]
  BY <1>1
<1> HIDE DEF a
<1>4. Data(s, c, d, l, I, e, E, X \cup (Rest(s, k, b) \ Rest(s, k, e)))
  <2>1. Only(s, s, k)
    BY DataFacts, OnlyItself
  <2> QED BY <1>1, <1>2, <1>3, <2>1, IterShrinks
<1>5. Rest(s, k, e) = {}
  BY <1>1 DEF Rest, ItemsFrom, MovedTo
<1>6. X \cup (Rest(s, k, b) \ {}) = X \cup Rest(s, k, b)
  OBVIOUS
<1> QED BY <1>4, <1>5, <1>6

(* It is dropped, or forgotten.                                            *)
LEMMA IterCloses ==
  ASSUME NEW s, NEW c, NEW d, NEW l, NEW I, NEW b, NEW E, NEW X, Data(s, c, d, l, I, b, E, X),
         NEW k \in I, Rest(s, k, b) = {}, NEW g, g = Released(s, k) \/ g = NewInline(s, k),
         NEW J, J = I \ {k}, NEW e, e = MovedTo(b, k, 0)
  PROVE  Data(g, c, d, l, J, e, E, X) /\ Only(s, g, k)
<1> DEFINE M == Mask(s, I)
           G == Mask(g, J)
<1>1. /\ k \in SmallVecs \ l /\ k \in Handles /\ J \subseteq I
      /\ b \in [Handles -> 0 .. MaxCap] /\ LenOf(M, k) = 0 /\ MaxCap \in Nat
  BY IterFacts, RawAssumption
<1>2. Shaped(s) /\ s \in Storage /\ Bounded(M) /\ Sound(M) /\ d \cap X = {}
  BY DataFacts
<1>3. (G = Released(M, k) \/ G = NewInline(M, k)) /\ OnlyTouches(s, g, {k})
  <2>1. Unmasks(I, J, k)
    BY <1>1 DEF Unmasks
  <2>2. g = Released(s, k) => G = Released(M, k)
    BY <1>1, <1>2, <2>1, MaskReleased
  <2>3. g = NewInline(s, k) => G = NewInline(M, k)
    BY <1>1, <1>2, <2>1, MaskSetInline
  <2> QED BY <1>1, <1>2, <2>2, <2>3, ReleasedFrame, NewFrame
<1> HIDE DEF M, G
<1>4. Grown(M, G, k) /\ LenOf(G, k) = 0 /\ G.mem[k] = Blank
  <2>1. CASE G = Released(M, k)
    BY <1>1, <1>2, <2>1, ReleasedFits, ReleasedSound DEF Grown
  <2>2. CASE G = NewInline(M, k)
    BY <1>1, <1>2, <2>2, NewInlineFits, NewInlineSound DEF Grown
  <2> QED BY <1>3, <2>1, <2>2
<1>5. Accounts(G, c, d \cup X \cup Left(s, I, b), l \cup J, Elems \ E)
  <2> DEFINE D == d \cup X \cup Left(s, I, b)
             m == l \cup J
  <2>1. Accounts(M, c, D, l \cup I, Elems \ E)
    BY DEF Data, M
  <2>2. /\ l \cup I \subseteq m \cup {k} /\ m \in SUBSET Handles /\ k \notin m
        /\ Owned(M, k) = {}
    <3>1. l \subseteq Handles /\ I \subseteq Handles
      BY DataFacts
    <3> QED BY <1>1, <2>1, <3>1, EmptyOwns DEF Accounts
  <2>a. D \cup {} = D
    OBVIOUS
  <2> HIDE DEF D, m
  <2>3. Accounts(G, c, D \cup Owned(M, k), m, Elems \ E)
    BY <1>1, <1>4, <2>1, <2>2, AccountsEmpty
  <2> QED BY <2>2, <2>3, <2>a DEF D, m
<1>6. Only(s, g, k)
  <2>1. ASSUME NEW h \in Handles \ {k}
        PROVE  Cells(g, h) = Cells(s, h)
    <3>1. M.mem = s.mem /\ G.mem = g.mem /\ M.ptr = s.ptr /\ G.ptr = g.ptr
      BY DEF Mask, M, G
    <3>2. Cells(G, h) = Cells(M, h)
      BY <1>4 DEF Grown, BoundedStep
    <3>3. g.word[h] = s.word[h] /\ g.ptr[h] = s.ptr[h] /\ (h \in J <=> h \in I)
      BY <1>3 DEF OnlyTouches
    <3>4. G.word[h] = IF h \in J THEN g.word[h] % 2 ELSE g.word[h]
      BY DEF Mask, G
    <3>5. M.word[h] = IF h \in I THEN s.word[h] % 2 ELSE s.word[h]
      BY DEF Mask, M
    <3>6. OnHeap(G, h) = OnHeap(M, h) /\ G.word[h] = M.word[h]
      BY <3>3, <3>4, <3>5 DEF OnHeap
    <3>7. Cells(M, h) = Cells(s, h)
      BY <1>2, MaskFacts DEF M
    <3>8. s.word[h] \in 0 .. UMax
      BY <1>2 DEF Storage
    <3>9. Cells(G, h) = Cells(g, h)
      <4>1. (g.word[h] % 2) % 2 = g.word[h] % 2
        BY <3>3, <3>8, RawAssumption
      <4> QED BY <3>1, <3>4, <4>1 DEF Cells, AsPtr, OnHeap
    <3> QED BY <3>2, <3>7, <3>9
  <2> QED BY <1>3, <2>1 DEF Spares, Only
<1>7. G \in Storage /\ I \subseteq Handles
  BY <1>5, DataFacts DEF Accounts, Bounded, Sound
<1>8. /\ g \in Storage
      /\ \A h \in J : /\ LenOf(g, h) = LenOf(s, h) /\ Capacity(g, h) = Capacity(s, h)
                      /\ Cells(g, h) = Cells(s, h) /\ e[h] = b[h]
                      /\ Rest(g, h, e) = Rest(s, h, b)
  <2> DEFINE H == {k}
  <2>1. OnlyTouches(s, g, H) /\ H \cap J = {}
    BY <1>3
  <2>2. \A h \in J : h \in Handles \ H /\ e[h] = b[h]
    BY <1>1, <1>7 DEF MovedTo
  <2>3. \A h \in J : Cells(g, h) = Cells(s, h)
    BY <1>6, <2>2 DEF Only, Spares
  <2> HIDE DEF H
  <2>4. g \in Storage
    BY <1>2, <1>7, <2>1, MaskStorage DEF G
  <2>5. \A h \in J : LenOf(g, h) = LenOf(s, h) /\ Capacity(g, h) = Capacity(s, h)
    BY <2>1, <2>2, UntouchedStays DEF SamePlace
  <2> QED BY <2>2, <2>3, <2>4, <2>5 DEF Rest
<1>9. IterOK(g, l, J, e)
  <2>1. e \in [Handles -> 0 .. MaxCap] /\ \A h \in Handles \ J : e[h] = 0
    BY <1>1 DEF Data, IterOK, MovedTo
  <2> QED BY <1>8, <2>1 DEF Data, IterOK
<1>10. Left(g, J, e) = Left(s, I, b)
  <2>1. Left(g, J, e) = UNION {Rest(s, h, b) : h \in J}
    BY <1>8 DEF Left
  <2> QED BY <2>1 DEF Left
<1>11. Data(g, c, d, l, J, e, E, X)
  BY <1>5, <1>8, <1>9, <1>10 DEF Data, G
<1> QED BY <1>6, <1>11
(* A write to an iterator's vector is one of the cells only.               *)
LEMMA MaskEdited ==
  ASSUME NEW s \in Storage, NEW I, NEW k \in Handles, k \in I, Sound(Mask(s, I)),
         NEW n \in 0 .. MaxCap, NEW cells
  PROVE  Mask(Edited(s, k, cells, n), I) = Edited(Mask(s, I), k, cells, 0)
<1> DEFINE m == [s EXCEPT !.mem[AsPtr(s, k)] = cells]
           w == TaggedLen(n, OnHeap(m, k))
           x == [m EXCEPT !.word[k] = w]
           f == Mask(m, I).word
<1>1. Shaped(s)
  BY DEF Storage, Shaped
<1>2. /\ m = [word |-> s.word, ptr |-> s.ptr, cap |-> s.cap, mem |-> m.mem, size |-> s.size]
      /\ Shaped(m) /\ Mask(m, I) = [Mask(s, I) EXCEPT !.mem[AsPtr(s, k)] = cells]
  <2>1. s = [word |-> s.word, ptr |-> s.ptr, cap |-> s.cap, mem |-> s.mem, size |-> s.size]
    BY DEF Storage
  <2>2. m = [word |-> s.word, ptr |-> s.ptr, cap |-> s.cap, mem |-> m.mem, size |-> s.size]
    BY <2>1
  <2>3. Shaped(m)
    BY <1>1, MemoryFrame DEF OnlyTouches
  <2>4. Mask(WithCells(s, AsPtr(s, k), cells), I) = WithCells(Mask(s, I), AsPtr(s, k), cells)
    BY <1>1, MaskMemory
  <2>5. Mask(m, I) = [Mask(s, I) EXCEPT !.mem[AsPtr(s, k)] = cells]
    BY <2>4 DEF WithCells
  <2> QED BY <2>2, <2>3, <2>5
<1>3. Edited(s, k, cells, n) = x
  BY DEF Edited, SetLen
<1> HIDE DEF m
<1>4. m.word = s.word /\ s.word[k] \in 0 .. UMax
  <2>1. m.word = s.word
    BY <1>2
  <2> QED BY <2>1 DEF Storage
<1>5. w % 2 = m.word[k] % 2
  <2>1. OnHeap(m, k) \in BOOLEAN
    BY DEF OnHeap
  <2>2. w \in 0 .. UMax /\ (w % 2 = 1 <=> OnHeap(m, k))
    BY <2>1, TaggedLenRoundTrip
  <2> HIDE DEF w
  <2> QED BY <1>4, <2>2, RawAssumption DEF OnHeap
<1>6. x = [word |-> [m.word EXCEPT ![k] = w], ptr |-> m.ptr, cap |-> m.cap, mem |-> m.mem,
           size |-> m.size]
  <2>1. m = [word |-> m.word, ptr |-> m.ptr, cap |-> m.cap, mem |-> m.mem, size |-> m.size]
    BY <1>2 DEF Shaped
  <2> QED BY <2>1
<1>7. f = [h \in Handles |-> f[h]]
      /\ \A h \in Handles : f[h] = IF h \in I THEN m.word[h] % 2 ELSE m.word[h]
  BY DEF Mask
<1>8. DOMAIN m.word = Handles
  BY <1>2 DEF Shaped
<1> HIDE DEF x, w, f
<1>9. \A h \in Handles : f[h] = IF h \in I THEN x.word[h] % 2 ELSE x.word[h]
  BY <1>5, <1>6, <1>7, <1>8
<1>10. Mask(x, I) = [word |-> f, ptr |-> x.ptr, cap |-> x.cap, mem |-> x.mem, size |-> x.size]
  BY <1>7, <1>9, MaskIs
<1>11. Mask(m, I) = [word |-> f, ptr |-> m.ptr, cap |-> m.cap, mem |-> m.mem, size |-> m.size]
  BY <1>7, MaskIs
<1>12. x.ptr = m.ptr /\ x.cap = m.cap /\ x.mem = m.mem /\ x.size = m.size
  BY <1>6
<1>13. Mask(x, I) = Mask(m, I)
  BY <1>10, <1>11, <1>12
<1>14. [Mask(s, I) EXCEPT !.mem[AsPtr(s, k)] = cells] = Edited(Mask(s, I), k, cells, 0)
  <2> DEFINE M == Mask(s, I)
  <2>1. AsPtr(M, k) = AsPtr(s, k) /\ LenOf(M, k) = 0
    BY MaskFacts
  <2> HIDE DEF M
  <2>2. [M EXCEPT !.mem[AsPtr(M, k)] = cells] = Edited(M, k, cells, LenOf(M, k))
    BY InPlaceWrites DEF M
  <2> QED BY <2>1, <2>2 DEF M
<1> QED BY <1>2, <1>3, <1>13, <1>14

LEMMA IterWrites ==
  ASSUME NEW s, NEW c, NEW d, NEW l, NEW I, NEW b, NEW E, NEW X, Data(s, c, d, l, I, b, E, X),
         NEW k \in I, NEW cells \in Block, FitIn(cells, Capacity(s, k)),
         NEW n \in Nat, n <= LenOf(s, k), NEW x, x = Edited(s, k, cells, n),
         NEW a \in Nat, b[k] <= a, a <= n, \A i \in a .. n - 1 : cells[i] = Cells(s, k)[i],
         NEW e, e = MovedTo(b, k, a), NEW Y, Y = X \cup (Rest(s, k, b) \ Rest(x, k, e))
  PROVE  /\ Data(x, c, d, l, I, e, E, Y) /\ Only(s, x, k)
         /\ Rest(x, k, e) = ItemsFrom(cells, a, n) /\ Cells(x, k) = cells /\ LenOf(x, k) = n
<1> DEFINE M == Mask(s, I)
           G == Mask(x, I)
<1>1. /\ k \in Handles /\ LenOf(s, k) \in 0 .. MaxCap
      /\ Capacity(s, k) \in 0 .. MaxCap /\ LenOf(M, k) = 0 /\ AsPtr(s, k) \in Handles \cup Ptrs
      /\ b \in [Handles -> 0 .. MaxCap]
  BY IterFacts
<1>2. Shaped(s) /\ s \in Storage /\ Bounded(M) /\ Sound(M)
  BY DataFacts
<1>3. n \in 0 .. MaxCap
  BY <1>1, RawAssumption
<1>4. /\ LenOf(x, k) = n /\ SamePlace(s, x, k) /\ Shaped(x)
  <2>1. OnHeap(s, k) \in BOOLEAN
    BY DEF OnHeap
  <2> QED BY <1>1, <1>2, <1>3, <2>1, EditedStays
<1>5. Cells(x, k) = cells
  <2>1. x.mem = [s.mem EXCEPT ![AsPtr(s, k)] = cells] /\ s.mem \in Memory
    BY <1>1, <1>2, EditedMem DEF Storage
  <2> QED BY <1>1, <1>4, <2>1 DEF Cells, SamePlace, Memory
<1>6. G = Edited(M, k, cells, 0)
  BY <1>1, <1>2, <1>3, MaskEdited
<1>7. Capacity(M, k) = Capacity(s, k)
  BY <1>1, <1>2, MaskFacts
<1> DEFINE D == d \cup X \cup Left(s, I, b)
<1>8. Accounts(M, c, D, l \cup I, Elems \ E) /\ k \in l \cup I
  BY DEF Data
<1> HIDE DEF M, G, D
<1>9. Accounts(G, c, D, l \cup I, Elems \ E) /\ Only(s, x, k)
  <2>1. Lays(M, k, cells, 0, {}) /\ Grown(M, M, k)
    <3>1. Holds(cells, 0, 0, {})
      BY HoldsEmpty
    <3> QED BY <1>1, <1>2, <1>7, <3>1, GrownStays DEF Lays
  <2>2. Owned(M, k) = {}
    BY <1>1, EmptyOwns
  <2>3. Shares({}, c, D, Owned(M, k) \cup c \cup D)
    BY <1>8, <2>2 DEF Shares, Accounts, Own
  <2>4. Accounts(G, c, D, l \cup I, Elems \ E)
    BY <1>6, <1>8, <2>1, <2>3, AccountsWrite
  <2> DEFINE z == 0
  <2>5. z \in 0 .. MaxCap /\ (\A i \in 0 .. z - 1 : cells[i] \in Elems) /\ G = Edited(M, k, cells, z)
        /\ Lays(M, k, cells, z, {})
    BY <1>6, <2>1, RawAssumption
  <2> HIDE DEF z
  <2>6. Grown(M, G, k)
    BY <1>1, <1>2, <2>1, <2>5, WriteGrows DEF Lays
  <2>7. OnlyTouches(s, x, {k})
    BY <1>1, <1>2, SetFrame
  <2>8. Only(s, x, k)
    BY <1>1, <2>6, <2>7, MaskSpared DEF M, G
  <2> QED BY <2>4, <2>8
<1>10. x \in Storage
  <2>1. G \in Storage
    BY <1>9 DEF Accounts, Bounded, Sound
  <2>2. G = [word |-> G.word, ptr |-> x.ptr, cap |-> x.cap, mem |-> x.mem, size |-> x.size]
    BY DEF G, Mask
  <2>3. OnlyTouches(s, x, {k})
    BY <1>1, <1>2, SetFrame
  <2>4. x.word[k] \in 0 .. UMax
    <3> DEFINE m == [s EXCEPT !.mem[AsPtr(s, k)] = cells]
               w == TaggedLen(n, OnHeap(m, k))
    <3>1. x = [m EXCEPT !.word[k] = w]
      BY DEF Edited, SetLen
    <3>2. w \in 0 .. UMax
      BY <1>3, TaggedLenRoundTrip DEF OnHeap
    <3>3. Shaped(m)
      BY <1>2, MemoryFrame DEF OnlyTouches
    <3> HIDE DEF m, w
    <3>4. DOMAIN m.word = Handles
      BY <3>3 DEF Shaped
    <3>5. x.word = [m.word EXCEPT ![k] = w]
      <4>1. m = [word |-> m.word, ptr |-> m.ptr, cap |-> m.cap, mem |-> m.mem, size |-> m.size]
        BY <3>3 DEF Shaped
      <4> QED BY <3>1, <4>1
    <3> QED BY <1>1, <3>2, <3>4, <3>5
  <2>5. \A h \in Handles : x.word[h] \in 0 .. UMax
    BY <1>2, <2>3, <2>4 DEF OnlyTouches, Storage
  <2>6. x = [word |-> x.word, ptr |-> x.ptr, cap |-> x.cap, mem |-> x.mem, size |-> x.size]
        /\ x.word \in [Handles -> 0 .. UMax]
    BY <1>4, <2>5 DEF Shaped
  <2>7. /\ x.ptr \in [Handles -> Ptrs \cup {NullPtr}] /\ x.cap \in [Handles -> 0 .. MaxCap]
        /\ x.mem \in Memory /\ x.size \in BlockSizes
    BY <2>1, <2>2 DEF Storage
  <2> QED BY <2>6, <2>7 DEF Storage
<1>11. Data(x, c, d, l, I, e, E, X \cup (Rest(s, k, b) \ Rest(x, k, e)))
  <2>1. /\ Accounts(Mask(x, I), c, d \cup X \cup Left(s, I, b), l \cup I, Elems \ E)
        /\ a <= LenOf(x, k) /\ LenOf(x, k) <= LenOf(s, k) /\ Capacity(x, k) = Capacity(s, k)
        /\ \A i \in a .. LenOf(x, k) - 1 : Cells(x, k)[i] = Cells(s, k)[i]
    BY <1>4, <1>5, <1>9 DEF G, D, SamePlace
  <2> QED BY <1>9, <1>10, <2>1, IterShrinks
<1>12. Rest(x, k, e) = ItemsFrom(cells, a, n)
  BY <1>1, <1>4, <1>5 DEF Rest, MovedTo
<1> QED BY <1>4, <1>5, <1>9, <1>11, <1>12

(* A vector becomes an iterator.                                           *)
LEMMA IterMade ==
  ASSUME NEW s, NEW c, NEW d, NEW l, NEW I, NEW b, NEW E, NEW X, Data(s, c, d, l, I, b, E, X),
         NEW h \in l \cap SmallVecs, NEW m, m = l \ {h}, NEW J, J = I \cup {h}
  PROVE  Data(s, c, d, m, J, b, E, X)
<1> DEFINE M == Mask(s, I)
           G == Mask(s, J)
           O == Owned(s, h)
           L == Left(s, I, b)
<1>1. Shaped(s) /\ s \in Storage /\ Bounded(M) /\ Sound(M) /\ h \in Handles \ I /\ d \cap X = {}
  BY DataFacts DEF SmallVecs
<1>2. /\ LenOf(s, h) \in 0 .. MaxCap /\ LenOf(s, h) <= Capacity(s, h)
      /\ Holds(Cells(s, h), 0, LenOf(s, h), O) /\ O \cap (c \cup d \cup X) = {}
      /\ Owned(M, h) = O /\ Capacity(s, h) \in 0 .. MaxCap /\ Cells(s, h) \in Block
      /\ FitIn(Cells(s, h), Capacity(s, h))
  BY <1>1, DataVector
<1>3. b \in [Handles -> 0 .. MaxCap] /\ b[h] = 0 /\ \A k \in Handles \ J : b[k] = 0
  BY <1>1 DEF Data, IterOK
<1>4. G = SetLen(M, h, 0)
  <2> DEFINE w == TaggedLen(0, OnHeap(M, h))
             f == [M.word EXCEPT ![h] = w]
  <2>1. /\ \A k \in Handles : s.word[k] \in 0 .. UMax
        /\ \A k \in Handles : M.word[k] = IF k \in I THEN s.word[k] % 2 ELSE s.word[k]
        /\ M.word[h] = s.word[h]
    BY <1>1 DEF Mask, Storage
  <2>2. w = s.word[h] % 2
    <3>1. UMax \in Nat /\ 0 < UMax
      BY RawAssumption
    <3> QED BY <1>1, <2>1, <3>1 DEF TaggedLen, OnHeap
  <2>3. f = [k \in Handles |-> f[k]] /\ \A k \in Handles : f[k] = IF k \in J THEN s.word[k] % 2 ELSE s.word[k]
    <3>1. M.word = [k \in Handles |-> M.word[k]]
      BY DEF Mask
    <3> HIDE DEF M, w
    <3> QED BY <1>1, <2>1, <2>2, <3>1
  <2> HIDE DEF f
  <2>4. G = [word |-> f, ptr |-> s.ptr, cap |-> s.cap, mem |-> s.mem, size |-> s.size]
    BY <2>3, MaskIs
  <2>5. SetLen(M, h, 0) = [word |-> f, ptr |-> s.ptr, cap |-> s.cap, mem |-> s.mem, size |-> s.size]
    BY MaskRecord DEF SetLen, f
  <2> QED BY <2>4, <2>5
<1>5. Capacity(M, h) = Capacity(s, h) /\ Cells(M, h) = Cells(s, h)
  BY <1>1, MaskSpares
<1>6. Accounts(M, c, d \cup X \cup L, l \cup I, Elems \ E) /\ (d \cup X) \cap L = {}
  BY DEF Data
<1> HIDE DEF M, G, L
<1>7. G = Edited(M, h, Cells(s, h), 0)
  BY <1>1, <1>4, <1>5, SetLenWrites
<1>8. O \cap L = {} /\ O \cap (d \cup X \cup L) = {}
  BY <1>2, <1>6 DEF Accounts, Own
<1> DEFINE D == d \cup X \cup L \cup O
<1>9. Accounts(G, c, D, l \cup I, Elems \ E)
  <2> HIDE DEF O
  <2>1. Lays(M, h, Cells(s, h), 0, {}) /\ Grown(M, M, h)
    <3>1. Holds(Cells(s, h), 0, 0, {})
      BY HoldsEmpty
    <3> QED BY <1>1, <1>2, <1>5, <3>1, GrownStays DEF Lays
  <2>2. Shares({}, c, D, Owned(M, h) \cup c \cup (d \cup X \cup L))
    BY <1>2, <1>6, <1>8 DEF Shares, Accounts, Own
  <2>3. h \in l \cup I
    OBVIOUS
  <2> HIDE DEF D
  <2> QED BY <1>6, <1>7, <2>1, <2>2, <2>3, AccountsWrite
<1>10. Rest(s, h, b) = O
  BY <1>3 DEF Rest, ItemsFrom, Owned, Item
<1>11. Left(s, J, b) = L \cup O
  BY <1>10 DEF Left, L
<1>12. IterOK(s, m, J, b)
  <2> HIDE DEF O
  <2>1. J \subseteq SmallVecs \ m
    BY DEF Data, IterOK
  <2>2. \A k \in J : /\ b[k] <= LenOf(s, k) /\ LenOf(s, k) <= Capacity(s, k)
                     /\ Holds(Cells(s, k), b[k], LenOf(s, k), Rest(s, k, b))
    <3>1. /\ b[h] <= LenOf(s, h) /\ LenOf(s, h) <= Capacity(s, h)
          /\ Holds(Cells(s, h), b[h], LenOf(s, h), Rest(s, h, b))
      BY <1>2, <1>3, <1>10
    <3> QED BY <3>1 DEF Data, IterOK
  <2>3. \A k \in I : Rest(s, k, b) \cap O = {}
    BY <1>8 DEF Left, L
  <2>4. \A k, j \in J : k # j => Rest(s, k, b) \cap Rest(s, j, b) = {}
    <3>1. \A k, j \in I : k # j => Rest(s, k, b) \cap Rest(s, j, b) = {}
      BY DEF Data, IterOK
    <3> QED BY <1>10, <2>3, <3>1
  <2> QED BY <1>3, <2>1, <2>2, <2>4 DEF IterOK
<1>13. /\ m \cup J = l \cup I /\ d \cup X \cup (L \cup O) = D
       /\ (d \cup X) \cap (L \cup O) = {}
  BY <1>6, <1>8
<1> HIDE DEF O, D
<1>14. Data(s, c, d, m, J, b, E, X)
  BY <1>1, <1>9, <1>11, <1>12, <1>13 DEF Data, G
<1> QED BY <1>14
----------------------------------------------------------------------------
(* What the calls write.                                                   *)

(* One element goes behind the others.                                     *)
LEMMA DataPush ==
  ASSUME NEW s, NEW c, NEW d, NEW l, NEW I, NEW b, NEW E, NEW X, Data(s, c, d, l, I, b, E, X),
         NEW h \in l, NEW e \in c, LenOf(s, h) < Capacity(s, h), NEW n, n = LenOf(s, h) + 1,
         NEW x, x = Edited(s, h, PutAt(Cells(s, h), LenOf(s, h), e), n), NEW c2, c2 = c \ {e}
  PROVE  /\ Data(x, c2, d, l, I, b, E, X) /\ Only(s, x, h)
         /\ LenOf(x, h) = n /\ Capacity(x, h) = Capacity(s, h)
<1> DEFINE len == LenOf(s, h)
           O == Owned(s, h)
           src == Cells(s, h)
           cap == Capacity(s, h)
           cells == PutAt(src, len, e)
           Y == O \cup {e}
           W == O \cup c \cup d \cup X
<1>1. h \in Handles \ I /\ c \subseteq Elems \ E /\ d \cap X = {} /\ c \cap (d \cup X) = {}
  BY DataFacts
<1>2. /\ len \in Nat /\ cap \in Nat /\ cap <= MaxCap /\ len < cap /\ src \in Block /\ FitIn(src, cap)
      /\ Holds(src, 0, len, O) /\ O \cap (c \cup d \cup X) = {} /\ MaxCap \in Nat
  BY <1>1, DataVector, RawAssumption
<1> HIDE DEF len, O, src, cap
<1>3. e \in Elems /\ e \notin O /\ len < MaxCap
  BY <1>1, <1>2
<1>4. cells \in Block /\ FitIn(cells, cap)
  BY <1>2, <1>3, PutType
<1>5. Holds(cells, 0, n, Y)
  BY <1>2, <1>3, PutJoins DEF len
<1>6. Lays(s, h, cells, n, Y)
  BY <1>2, <1>4, <1>5 DEF Lays, cap, len
<1>7. Splits(W, Y, c2, d, X) /\ W = Owned(s, h) \cup c \cup d \cup X
  BY <1>1, <1>2 DEF Splits, O
<1> HIDE DEF cells, Y, W
<1>8. x = Edited(s, h, cells, n)
  BY DEF cells, src, len
<1> QED BY <1>6, <1>7, <1>8, DataWrite

(* An array of the program's elements.                                     *)
LEMMA ArrayHolds ==
  ASSUME caller \subseteq Elems, NEW n \in Nat, n <= MaxCap, NEW f \in Arrays(n)
  PROVE  /\ Taken(f, n) \subseteq caller /\ Filled(f, n) \in Block
         /\ Holds(Filled(f, n), 0, n, Taken(f, n))
<1>1. Taken(f, n) \subseteq caller
  BY ArrayFacts
<1>2. Filled(f, n) \in Block /\ \A i \in 0 .. n - 1 : Filled(f, n)[i] = f[i]
  BY FilledType
<1>3. \A i, j \in 0 .. n - 1 : f[i] = f[j] => i = j
  BY DEF Arrays
<1> QED BY <1>1, <1>2, <1>3 DEF Holds, Taken

(* The elements Y go to the cells from index on, where open has none.      *)
LEMMA DataFill ==
  ASSUME NEW s, NEW c, NEW d, NEW l, NEW I, NEW b, NEW E, NEW X, Data(s, c, d, l, I, b, E, X),
         NEW h \in l, NEW open \in Block, FitIn(open, Capacity(s, h)),
         NEW n \in Nat, NEW index \in Nat, index <= LenOf(s, h),
         NEW m, m = LenOf(s, h) + n, m <= Capacity(s, h),
         NEW A, NEW B, A \cap B = {}, A \cup B = Owned(s, h),
         Holds(open, 0, index, A), Holds(open, index + n, m, B),
         NEW src \in Block, NEW from \in Nat, NEW to, to = from + n, to <= MaxCap,
         NEW Y \in SUBSET c, Holds(src, from, to, Y), NEW c2, c2 = c \ Y,
         NEW x, x = Edited(s, h, Copy(src, from, open, index, n), m)
  PROVE  /\ Data(x, c2, d, l, I, b, E, X) /\ Only(s, x, h)
         /\ LenOf(x, h) = m /\ Capacity(x, h) = Capacity(s, h)
<1> DEFINE len == LenOf(s, h)
           O == Owned(s, h)
           cap == Capacity(s, h)
           cells == Copy(src, from, open, index, n)
           Z == O \cup Y
           W == O \cup c \cup d \cup X
           p == index + n
<1>1. h \in Handles \ I /\ c \subseteq Elems \ E /\ d \cap X = {} /\ c \cap (d \cup X) = {}
  BY DataFacts
<1>2. /\ len \in Nat /\ cap \in Nat /\ cap <= MaxCap /\ O \cap (c \cup d \cup X) = {}
      /\ MaxCap \in Nat
  BY <1>1, DataVector, RawAssumption
<1> HIDE DEF len, O, cap
<1>3. /\ m = len + n /\ index <= len /\ m <= cap /\ FitIn(open, cap) /\ A \cup B = O
      /\ p \in Nat /\ p <= m /\ m \in Nat /\ n <= MaxCap /\ p <= cap /\ m <= MaxCap
  BY <1>2 DEF len, O, cap
<1>4. cells \in Block /\ FitIn(cells, cap)
  <2>1. from + n <= MaxCap /\ index + n <= cap /\ n \in Int
    BY <1>3
  <2> QED BY <1>2, <1>3, <2>1, CopyType, CopyFits
<1>5. Holds(cells, 0, m, Z)
  <2> HIDE DEF p
  <2>1. Holds(cells, 0, index, A)
    <3>1. /\ 0 \in Nat /\ from + n <= MaxCap /\ index \in Int /\ index <= MaxCap
          /\ (index <= index \/ index + n <= 0)
      BY <1>2, <1>3 DEF p
    <3> QED BY <3>1, CopyHolds
  <2>2. Holds(cells, p, m, B)
    <3>1. /\ from + n <= MaxCap /\ m \in Int /\ m <= MaxCap /\ p \in Nat
          /\ (m <= index \/ index + n <= p) /\ Holds(open, p, m, B)
      BY <1>2, <1>3 DEF p
    <3> QED BY <3>1, CopyHolds
  <2>3. Holds(cells, index, p, Y)
    <3>1. from + n <= MaxCap /\ p = index + n /\ p <= MaxCap
      BY <1>2, <1>3 DEF p
    <3> QED BY <3>1, CopyBrings
  <2> HIDE DEF cells
  <2>4. Holds(cells, 0, p, A \cup Y)
    <3>1. 0 \in Int /\ index \in Int /\ p \in Int /\ 0 <= index /\ index <= p /\ A \cap Y = {}
      BY <1>2, <1>3 DEF p
    <3> QED BY <2>1, <2>3, <3>1, HoldsJoin
  <2>5. Holds(cells, 0, m, (A \cup Y) \cup B)
    <3>1. 0 \in Int /\ p \in Int /\ m \in Int /\ 0 <= p /\ p <= m /\ (A \cup Y) \cap B = {}
      BY <1>2, <1>3 DEF p
    <3> QED BY <2>2, <2>4, <3>1, HoldsJoin
  <2>6. (A \cup Y) \cup B = Z
    BY <1>3
  <2> QED BY <2>5, <2>6
<1>6. Lays(s, h, cells, m, Z)
  BY <1>3, <1>4, <1>5 DEF Lays, cap, len
<1>7. Splits(W, Z, c2, d, X) /\ W = Owned(s, h) \cup c \cup d \cup X
  BY <1>1, <1>2 DEF Splits, O
<1> HIDE DEF cells, Z, W
<1>8. x = Edited(s, h, cells, m)
  BY DEF cells
<1> QED BY <1>6, <1>7, <1>8, DataWrite

(* Behind the others, and between them.                                    *)
LEMMA DataAppend ==
  ASSUME NEW s, NEW c, NEW d, NEW l, NEW I, NEW b, NEW E, NEW X, Data(s, c, d, l, I, b, E, X),
         NEW h \in l, NEW n \in Nat, NEW m, m = LenOf(s, h) + n, m <= Capacity(s, h),
         NEW src \in Block, NEW from \in Nat, NEW to, to = from + n, to <= MaxCap,
         NEW Y \in SUBSET c, Holds(src, from, to, Y), NEW c2, c2 = c \ Y,
         NEW x, x = Edited(s, h, Copy(src, from, Cells(s, h), LenOf(s, h), n), m)
  PROVE  /\ Data(x, c2, d, l, I, b, E, X) /\ Only(s, x, h)
         /\ LenOf(x, h) = m /\ Capacity(x, h) = Capacity(s, h)
<1> DEFINE index == LenOf(s, h)
           open == Cells(s, h)
           A == Owned(s, h)
<1>1. h \in Handles \ I
  BY DataFacts
<1>2. /\ open \in Block /\ FitIn(open, Capacity(s, h)) /\ index \in Nat /\ Holds(open, 0, index, A)
  BY <1>1, DataVector
<1>3. index <= LenOf(s, h) /\ Holds(open, index + n, m, {}) /\ A \cap {} = {} /\ A \cup {} = Owned(s, h)
  BY <1>2, HoldsEmpty
<1>4. x = Edited(s, h, Copy(src, from, open, index, n), m)
  OBVIOUS
<1> HIDE DEF index, open, A
<1>5. /\ open \in Block /\ FitIn(open, Capacity(s, h)) /\ index \in Nat /\ index <= LenOf(s, h)
      /\ Holds(open, 0, index, A) /\ Holds(open, index + n, m, {})
      /\ A \cap {} = {} /\ A \cup {} = Owned(s, h)
  BY <1>2, <1>3
<1> QED BY <1>4, <1>5, DataFill, SMTT(30)

LEMMA DataInsert ==
  ASSUME NEW s, NEW c, NEW d, NEW l, NEW I, NEW b, NEW E, NEW X, Data(s, c, d, l, I, b, E, X),
         NEW h \in l, NEW n \in Nat, NEW index \in Nat, index <= LenOf(s, h),
         NEW m, m = LenOf(s, h) + n, m <= Capacity(s, h),
         NEW src \in Block, NEW Y \in SUBSET c, Holds(src, 0, n, Y), NEW c2, c2 = c \ Y, NEW open,
         open = Shift(Cells(s, h), index, index + n, LenOf(s, h) - index),
         NEW x, x = Edited(s, h, Copy(src, 0, open, index, n), m)
  PROVE  /\ Data(x, c2, d, l, I, b, E, X) /\ Only(s, x, h)
         /\ LenOf(x, h) = m /\ Capacity(x, h) = Capacity(s, h)
<1> DEFINE len == LenOf(s, h)
           old == Cells(s, h)
           O == Owned(s, h)
           cap == Capacity(s, h)
           A == ItemsFrom(old, 0, index)
           B == ItemsFrom(old, index, len)
           p == index + n
           t == len - index
<1>1. h \in Handles \ I /\ MaxCap \in Nat
  BY DataFacts, RawAssumption
<1>2. /\ old \in Block /\ FitIn(old, cap) /\ len \in Nat /\ Holds(old, 0, len, O)
      /\ cap \in Nat /\ cap <= MaxCap
  BY <1>1, DataVector
<1> HIDE DEF len, old, O, cap
<1>3. /\ index <= len /\ m = len + n /\ m <= cap /\ open = Shift(old, index, p, t)
      /\ t \in Nat /\ p \in Nat /\ index + t = len /\ p + t = m /\ p <= MaxCap /\ m <= MaxCap
      /\ index + t <= MaxCap /\ p + t <= cap
  BY <1>1, <1>2 DEF len, old, cap
<1> HIDE DEF p, t
<1>4. Holds(old, 0, index, A) /\ Holds(old, index, len, B) /\ A \cap B = {} /\ A \cup B = O
  <2>1. 0 \in Int /\ index \in Int /\ len \in Int /\ 0 <= index /\ index <= len
    BY <1>2, <1>3
  <2> QED BY <1>2, <2>1, HoldsCut
<1>5. open \in Block /\ FitIn(open, cap)
  <2>1. t \in Int
    BY <1>3
  <2> QED BY <1>2, <1>3, <2>1, ShiftType, ShiftFits
<1>6. Holds(open, 0, index, A)
  <2>1. 0 \in Nat /\ index \in Int /\ index <= MaxCap /\ (index <= index \/ index + t <= 0)
        /\ (index <= p \/ p + t <= 0)
    BY <1>1, <1>2, <1>3 DEF p
  <2> QED BY <1>2, <1>3, <1>4, <2>1, ShiftHolds
<1>7. Holds(open, p, m, B)
  <2>1. m = p + t /\ len = index + t
    BY <1>3
  <2> QED BY <1>2, <1>3, <1>4, <2>1, ShiftBrings
<1>8. /\ FitIn(open, Capacity(s, h)) /\ A \cup B = Owned(s, h) /\ Holds(open, index + n, m, B)
  BY <1>4, <1>5, <1>7 DEF cap, O, p
<1>9. A \cap B = {} /\ Holds(open, 0, index, A) /\ open \in Block
  BY <1>4, <1>5, <1>6
<1> HIDE DEF A, B
<1>10. 0 \in Nat /\ n = 0 + n /\ n <= MaxCap
  BY <1>1, <1>2, <1>3
<1> QED BY <1>8, <1>9, <1>10, DataFill, SMTT(30)
----------------------------------------------------------------------------
(* How a call begins.                                                      *)

LEMMA ApartEmpty ==
  ASSUME call.how # "guard"
  PROVE  Apart = {}
  BY DEF Apart, Guarded

(* A step after which no call has set anything aside.                      *)
LEMMA QuietStep ==
  ASSUME CInv, call' \in Calls, ~Calling', call'.n = 0, val' \in [Elems -> Elems], leaked' \subseteq Elems,
         Data(store', caller', dropped', live', iters', begin', leaked', {})
  PROVE  CInv'
<1>1. Apart' = {}
  BY DEF Calling, Apart, Guarded
<1> QED BY <1>1 DEF CInv

(* Fields of a call.                                                       *)
LEMMA FreshFields ==
  ASSUME NEW c \in Calls, NEW k, k = [c EXCEPT !.fresh = TRUE]
  PROVE  /\ k \in Calls /\ k.how = c.how /\ k.give = c.give
         /\ k.open = c.open /\ k.src = c.src /\ k.at = c.at
         /\ k.n = c.n /\ k.made = c.made /\ k.value = c.value
  BY DEF Calls

LEMMA NoCallFields ==
  /\ NoCall \in Calls /\ NoCall.how = "none" /\ NoCall.give = "item" /\ ~NoCall.open
  /\ NoCall.made = 0 /\ NoCall.n = 0
  BY RawAssumption, StdAssumption DEF NoCall, Calls, Cell

LEMMA CloningFields ==
  ASSUME NEW how \in {"push", "guard", "assign"}, NEW src \in Handles, NEW at \in 0 .. MaxCap,
         NEW n \in 0 .. MaxCap + 1, NEW k, k = Cloning(how, src, at, n)
  PROVE  /\ k \in Calls /\ k.how = how /\ k.give = "clone" /\ k.src = src /\ k.at = at
         /\ k.n = n /\ k.made = 0 /\ ~k.open /\ k.base = 0
  BY RawAssumption, StdAssumption DEF Cloning, NoCall, Calls, Cell

LEMMA RepeatingFields ==
  ASSUME NEW how \in Ways, NEW e \in Elems, NEW n \in 0 .. MaxCap + 1, NEW k,
         k = Repeating(how, e, n)
  PROVE  /\ k \in Calls /\ k.how = how /\ k.give = "repeat" /\ k.value = e
         /\ k.n = n /\ k.made = 0 /\ ~k.open
  BY RawAssumption, StdAssumption DEF Repeating, NoCall, Calls, Cell, Ways

LEMMA DrawingFields ==
  ASSUME NEW how \in Ways, NEW open \in BOOLEAN, NEW n \in 0 .. MaxCap + 1, NEW k,
         k = Drawing(how, open, n)
  PROVE  /\ k \in Calls /\ k.how = how /\ k.give = "item" /\ k.open = open
         /\ k.n = n /\ k.made = 0
  BY RawAssumption, StdAssumption DEF Drawing, NoCall, Calls, Cell, Ways

(* c may begin on h, in the state the call finds.                          *)
MayBegin(c, h) ==
  /\ c.made = 0 /\ c.how \in Ways
  /\ c.give = "clone" =>
       ~c.open /\ Slice(c.src, c.at, c.n) /\ (c.how # "guard" => c.src # h)
  /\ c.give = "repeat" => ~c.open /\ c.value \in caller

(* The call has begun, its vector is in state s and has room.              *)
(* Every iterator that stays has the slice that it had.                    *)
ItersStand ==
  \A k \in iters \cap iters' : /\ begin'[k] = begin[k] /\ LenOf(store', k) = LenOf(store, k)
                               /\ Cells(store', k) = Cells(store, k)

LEMMA OnlyStays ==
  ASSUME NEW s, NEW g, NEW h, Only(s, g, h), NEW k \in Handles, k # h
  PROVE  LenOf(g, k) = LenOf(s, k) /\ Cells(g, k) = Cells(s, k)
<1>1. OnlyTouches(s, g, {h}) /\ k \in Handles \ {h} /\ Cells(g, k) = Cells(s, k)
  BY DEF Only, Spares
<1>2. LenOf(g, k) = LenOf(s, k)
  BY <1>1, UntouchedStays
<1> QED BY <1>1, <1>2

LEMMA OnlyStands ==
  ASSUME CInv, NEW h, Only(store, store', h), h \notin iters \cap iters',
         \A k \in iters \cap iters' : begin'[k] = begin[k]
  PROVE  ItersStand
<1>1. iters \subseteq Handles
  BY DataFacts DEF CInv
<1>2. ASSUME NEW k \in iters \cap iters'
      PROVE  LenOf(store', k) = LenOf(store, k) /\ Cells(store', k) = Cells(store, k)
  <2>1. k \in Handles /\ k # h
    BY <1>1
  <2> QED BY <2>1, OnlyStays
<1> QED BY <1>2 DEF ItersStand

LEMMA SparesStand ==
  ASSUME CInv, NEW x, NEW y, Spares(store, store', {x, y}), x \notin iters, y \notin iters,
         iters' = iters, begin' = begin
  PROVE  ItersStand
<1> DEFINE H == {x, y}
<1>1. OnlyTouches(store, store', H) /\ \A k \in Handles \ H : Cells(store', k) = Cells(store, k)
  BY DEF Spares
<1>2. iters \subseteq Handles \ H
  BY DataFacts DEF CInv
<1> HIDE DEF H
<1>3. \A k \in iters : LenOf(store', k) = LenOf(store, k)
  BY <1>1, <1>2, UntouchedStays
<1> QED BY <1>1, <1>2, <1>3 DEF ItersStand

LEMMA Begun ==
  ASSUME CInv, NEW h \in SmallVecs, NEW s, NEW c \in Calls, NEW want, Begin(h, s, c, want),
         MayBegin(c, h), live \subseteq live', h \in live',
         Data(s, caller, dropped, live', iters, begin, leaked, {}),
         \A k \in live \cup iters : LenOf(s, k) = LenOf(store, k),
         c.how = "guard" => Capacity(s, h) >= LenOf(s, h) + c.n
  PROVE  CInv'
<1> DEFINE k == [c EXCEPT !.vec = h, !.base = LenOf(s, h)]
<1>1. /\ store' = s /\ call' = k /\ caller' = caller /\ dropped' = dropped /\ val' = val
      /\ iters' = iters /\ begin' = begin /\ leaked' = leaked
  BY DEF Begin, ivars
<1>2. h \in Handles \ iters
  BY DataFacts DEF SmallVecs
<1>3. LenOf(s, h) \in 0 .. MaxCap /\ MaxCap \in Nat
  BY <1>2, DataVector, RawAssumption
<1>4. /\ k \in Calls /\ k.vec = h /\ k.base = LenOf(s, h) /\ k.how = c.how /\ k.give = c.give
      /\ k.open = c.open /\ k.src = c.src /\ k.at = c.at /\ k.n = c.n /\ k.made = 0
      /\ k.value = c.value
  <2>1. c.made = 0 /\ h \in Handles
    BY <1>2 DEF MayBegin
  <2> DEFINE m == LenOf(s, h)
  <2>2. m \in 0 .. MaxCap
    BY <1>3
  <2> HIDE DEF m
  <2>3. LET x == [c EXCEPT !.vec = h, !.base = m]
        IN  /\ x \in Calls /\ x.vec = h /\ x.base = m /\ x.how = c.how /\ x.give = c.give
            /\ x.open = c.open /\ x.src = c.src /\ x.at = c.at /\ x.n = c.n
            /\ x.made = c.made /\ x.value = c.value
    BY <2>1, <2>2 DEF Calls
  <2> QED BY <2>1, <2>3 DEF m
<1> HIDE DEF k
<1>5. caller \subseteq Elems
  BY DataFacts
<1>6. SourceOK(k, s, caller, live' \cup iters, begin)
  BY <1>4, <1>5 DEF MayBegin, Slice, SourceOK
<1>7. Guarded' = {} /\ Apart' = {}
  <2>1. k.base .. k.base + k.made - 1 = {}
    BY <1>3, <1>4
  <2> QED BY <1>1, <2>1 DEF Guarded, Apart
<1>8. TargetOK(k, s, live', {})
  <2>1. Holds(Cells(s, h), k.base, k.base + k.made, {})
    BY <1>3, <1>4, HoldsEmpty
  <2>2. k.n \in Nat
    BY <1>3, <1>4 DEF Calls
  <2>3. k.how \in Ways
    BY <1>4 DEF MayBegin
  <2> QED BY <1>3, <1>4, <2>1, <2>2, <2>3 DEF TargetOK, Ways
<1>9. Calling'
  BY <1>1, <1>4 DEF MayBegin, Ways, Calling
<1> QED BY <1>1, <1>4, <1>6, <1>7, <1>8, <1>9 DEF CInv

(* A live vector, which reserves room for n.                               *)
LEMMA BegunInPlace ==
  ASSUME CInv, NEW h, NEW n \in Nat, NEW c \in Calls, NEW want,
         Begins(h, Reserve(store, h, n), c, want), MayBegin(c, h), c.how = "guard" => c.n = n
  PROVE  CInv' /\ ItersStand
<1>1. PICK s \in Reserve(store, h, n) : Begin(h, s, c, want)
  BY DEF Begins
<1>2. h \in SmallVecs /\ h \in live /\ live' = live /\ Idle
  BY <1>1 DEF Begins, Begin
<1>3. Data(store, caller, dropped, live, iters, begin, leaked, {})
  BY <1>2, ApartEmpty DEF CInv, Idle
<1>4. /\ Data(s, caller, dropped, live, iters, begin, leaked, {}) /\ Only(store, s, h)
      /\ LenOf(s, h) = LenOf(store, h) /\ Capacity(s, h) >= LenOf(s, h) + n
  BY <1>1, <1>2, <1>3, DataReserve
<1>5. live \cup iters \subseteq Handles
  BY <1>3, DataFacts
<1>6. \A k \in live \cup iters : LenOf(s, k) = LenOf(store, k)
  <2>1. OnlyTouches(store, s, {h})
    BY <1>4 DEF Only, Spares
  <2> QED BY <1>4, <1>5, <2>1, UntouchedStays
<1>7. Data(s, caller, dropped, live', iters, begin, leaked, {}) /\ live \subseteq live' /\ h \in live'
  BY <1>2, <1>4
<1>8. c.how = "guard" => Capacity(s, h) >= LenOf(s, h) + c.n
  BY <1>4
<1>9. ItersStand
  <2>1. store' = s /\ iters' = iters /\ begin' = begin /\ live \cap iters = {}
    BY <1>1, <1>3, DataFacts DEF Begin, ivars
  <2> QED BY <1>2, <1>4, <2>1, OnlyStands
<1> QED BY <1>1, <1>2, <1>6, <1>7, <1>8, <1>9, Begun

(* A vector that the call makes.                                           *)
LEMMA BegunFresh ==
  ASSUME CInv, NEW h, NEW n \in Nat, NEW c \in Calls, NEW want, NEW outcomes,
         Constructs(h, outcomes, c, want), MayBegin(c, h), c.how = "guard" => c.n = n,
         \/ outcomes = WithCapacity(store, h, n)
         \/ c.how = "push" /\ outcomes = Reserve(NewInline(store, h), h, n)
  PROVE  CInv' /\ ItersStand
<1> DEFINE k == [c EXCEPT !.fresh = TRUE]
<1>1. PICK s \in outcomes : Begin(h, s, k, want)
  BY DEF Constructs
<1>2. h \in SmallVecs \ (live \cup iters) /\ live' = live \cup {h} /\ Idle /\ h \in Handles
  BY <1>1 DEF Constructs, Construct, Begin, SmallVecs
<1>3. Data(store, caller, dropped, live, iters, begin, leaked, {})
  BY <1>2, ApartEmpty DEF CInv, Idle
<1>4. /\ Data(s, caller, dropped, live', iters, begin, leaked, {}) /\ Only(store, s, h)
      /\ c.how = "guard" => Capacity(s, h) >= LenOf(s, h) + n
  <2>1. CASE outcomes = WithCapacity(store, h, n)
    <3>1. /\ Data(s, caller, dropped, live', iters, begin, leaked, {}) /\ Only(store, s, h)
          /\ LenOf(s, h) = 0 /\ Capacity(s, h) >= n
      BY <1>1, <1>2, <1>3, <2>1, DataMake
    <3>2. Capacity(s, h) \in Int
      <4>1. h \in Handles \ iters
        BY <1>2
      <4> QED BY <3>1, <4>1, DataVector
    <3> QED BY <3>1, <3>2
  <2>2. CASE c.how = "push" /\ outcomes = Reserve(NewInline(store, h), h, n)
    <3> DEFINE m == NewInline(store, h)
    <3>1. Data(m, caller, dropped, live', iters, begin, leaked, {}) /\ Only(store, m, h)
      BY <1>2, <1>3, DataNew
    <3>2. s \in Reserve(m, h, n) /\ h \in live'
      BY <1>1, <1>2, <2>2
    <3> HIDE DEF m
    <3>3. Data(s, caller, dropped, live', iters, begin, leaked, {}) /\ Only(m, s, h)
      BY <3>1, <3>2, DataReserve
    <3>4. Only(store, s, h)
      BY <3>1, <3>3, OnlyCompose
    <3> QED BY <2>2, <3>3, <3>4
  <2> QED BY <2>1, <2>2
<1>5. live \cup iters \subseteq Handles \ {h}
  BY <1>2, <1>3, DataFacts
<1>6. \A l \in live \cup iters : LenOf(s, l) = LenOf(store, l)
  BY <1>4, <1>5, OnlyStays
<1>7. /\ k \in Calls /\ k.how = c.how /\ k.give = c.give
      /\ k.open = c.open /\ k.src = c.src /\ k.at = c.at
      /\ k.n = c.n /\ k.made = c.made /\ k.value = c.value
  BY FreshFields
<1> HIDE DEF k
<1>8. MayBegin(k, h) /\ (k.how = "guard" => Capacity(s, h) >= LenOf(s, h) + k.n)
  BY <1>4, <1>7 DEF MayBegin
<1>9. live \subseteq live' /\ h \in live'
  BY <1>2
<1>10. ItersStand
  <2>1. store' = s /\ iters' = iters /\ begin' = begin
    BY <1>1 DEF Begin, ivars
  <2> QED BY <1>2, <1>4, <2>1, OnlyStands
<1> QED BY <1>1, <1>2, <1>4, <1>6, <1>7, <1>8, <1>9, <1>10, Begun
----------------------------------------------------------------------------
(* Steps of the program.                                                   *)

LEMMA IdleData ==
  ASSUME CInv, ~Calling
  PROVE  /\ Data(store, caller, dropped, live, iters, begin, leaked, {})
         /\ leaked \subseteq Elems /\ val \in [Elems -> Elems]
  BY ApartEmpty DEF CInv, Calling

LEMMA StillIdle ==
  ASSUME CInv, Idle, UNCHANGED cvars, leaked' \subseteq Elems,
         Data(store', caller', dropped', live', iters', begin', leaked', {})
  PROVE  CInv'
<1>1. call' = call /\ val' = val /\ call.how = "none"
  BY DEF cvars, Idle
<1>2. call' \in Calls /\ ~Calling' /\ call'.n = 0 /\ val' \in [Elems -> Elems]
  BY <1>1 DEF CInv, Calling
<1> QED BY <1>2, QuietStep

LEMMA PushData ==
  ASSUME NEW I, NEW b, NEW E, NEW X, Data(store, caller, dropped, live, I, b, E, X),
         NEW h, Push(h)
  PROVE  /\ Data(store', caller', dropped', live', I, b, E, X)
         /\ Only(store, store', h) /\ LenOf(store', h) = LenOf(store, h) + 1
         /\ live' = live /\ \E e \in caller : caller' = caller \ {e}
<1> DEFINE len == LenOf(store, h)
           grown == IF len = Capacity(store, h) THEN Reserve(store, h, 1) ELSE {store}
<1>1. PICK e \in caller, s \in grown :
        /\ store' = Edited(s, h, [Cells(s, h) EXCEPT ![len] = e], len + 1)
        /\ caller' = caller \ {e}
  BY DEF Push
<1>2. h \in live /\ live' = live /\ dropped' = dropped /\ h \in Handles \ I
  BY DataFacts DEF Push
<1>3. len \in Nat /\ len <= Capacity(store, h) /\ Capacity(store, h) \in Nat
  <2>1. MaxCap \in Nat
    BY RawAssumption
  <2> QED BY <1>2, <2>1, DataVector
<1>4. /\ Data(s, caller, dropped, live, I, b, E, X) /\ Only(store, s, h)
      /\ LenOf(s, h) = len /\ len < Capacity(s, h)
  <2>1. CASE len = Capacity(store, h)
    <3>1. s \in Reserve(store, h, 1) /\ 1 \in Nat
      BY <1>1, <2>1
    <3>2. /\ Data(s, caller, dropped, live, I, b, E, X) /\ Only(store, s, h)
          /\ LenOf(s, h) = len /\ Capacity(s, h) >= LenOf(s, h) + 1
      BY <1>2, <3>1, DataReserve
    <3>3. Capacity(s, h) \in Int
      BY <1>2, <3>2, DataVector
    <3> QED BY <1>3, <3>2, <3>3
  <2>2. CASE len # Capacity(store, h)
    <3>1. s = store
      BY <1>1, <2>2
    <3>2. Only(store, store, h)
      BY DataFacts, OnlyItself
    <3> QED BY <1>3, <2>2, <3>1, <3>2
  <2> QED BY <2>1, <2>2
<1> HIDE DEF len, grown
<1>5. store' = Edited(s, h, PutAt(Cells(s, h), LenOf(s, h), e), len + 1) /\ len + 1 = LenOf(s, h) + 1
  BY <1>1, <1>4 DEF PutAt
<1>6. /\ Data(store', caller', dropped, live, I, b, E, X) /\ Only(s, store', h)
      /\ LenOf(store', h) = len + 1
  <2> DEFINE n == len + 1
  <2>1. n = LenOf(s, h) + 1 /\ store' = Edited(s, h, PutAt(Cells(s, h), LenOf(s, h), e), n)
    BY <1>5
  <2> HIDE DEF n
  <2>2. /\ Data(store', caller', dropped, live, I, b, E, X) /\ Only(s, store', h)
        /\ LenOf(store', h) = n
    BY <1>1, <1>2, <1>4, <2>1, DataPush
  <2> QED BY <2>2 DEF n
<1>7. Only(store, store', h)
  BY <1>4, <1>6, OnlyCompose
<1> QED BY <1>1, <1>2, <1>6, <1>7 DEF len

(* An item at either end goes from the iterator to the program.            *)
LEMMA Yields ==
  ASSUME NEW s, NEW c, NEW d, NEW l, NEW I, NEW b, NEW E, Data(s, c, d, l, I, b, E, {}),
         NEW k \in I, b[k] # LenOf(s, k), NEW i, NEW n, NEW a,
         \/ i = b[k] /\ n = LenOf(s, k) /\ a = b[k] + 1
         \/ i = LenOf(s, k) - 1 /\ n = LenOf(s, k) - 1 /\ a = b[k],
         NEW x, x = Edited(s, k, Wipe(Cells(s, k), i, 1), n), NEW e, e = MovedTo(b, k, a),
         NEW c2, c2 = c \cup {Item(s, k, i)}
  PROVE  /\ Data(x, c2, d, l, I, e, E, {}) /\ Only(s, x, k)
         /\ Cells(x, k) = Wipe(Cells(s, k), i, 1) /\ LenOf(x, k) = n
<1> DEFINE src == Cells(s, k)
           cells == Wipe(src, i, 1)
           len == LenOf(s, k)
           at == b[k]
           L == Rest(s, k, b)
           Y == L \ Rest(x, k, e)
<1>1. /\ at \in Nat /\ len \in Nat /\ at < len /\ len <= MaxCap /\ MaxCap \in Nat /\ src \in Block
      /\ FitIn(src, Capacity(s, k)) /\ Capacity(s, k) \in Nat /\ Holds(src, at, len, L)
      /\ L \cap (c \cup d) = {}
  <2>1. MaxCap \in Nat
    BY RawAssumption
  <2> QED BY <2>1, IterFacts
<1>2. /\ i \in Nat /\ n \in Nat /\ a \in Nat /\ at <= a /\ a <= n /\ n <= len
      /\ \/ i = at /\ n = len /\ a = at + 1
         \/ i = len - 1 /\ n = len - 1 /\ a = at
  BY <1>1
<1>3. cells \in Block /\ FitIn(cells, Capacity(s, k))
  <2>1. i \in Int /\ 1 \in Int
    BY <1>2
  <2>2. cells \in Block
    BY <1>1, <2>1, WipeType
  <2>3. FitIn(cells, Capacity(s, k))
    BY <1>1, <1>2, <2>1, WipeFits
  <2> QED BY <2>2, <2>3
<1>4. \A j \in a .. n - 1 : cells[j] = src[j]
  <2>1. n \in Int /\ n <= MaxCap /\ 1 \in Int
    BY <1>1, <1>2
  <2>2. n <= i \/ i + 1 <= a
    BY <1>1, <1>2
  <2>3. src \in Block /\ i \in Nat /\ a \in Nat
    BY <1>1, <1>2
  <2> HIDE DEF src
  <2> QED BY <2>1, <2>2, <2>3, WipeSpares
<1> HIDE DEF src, cells, len, at, L
<1>5. /\ x = Edited(s, k, cells, n) /\ n <= LenOf(s, k) /\ b[k] <= a
      /\ \A j \in a .. n - 1 : cells[j] = Cells(s, k)[j]
  BY <1>2, <1>4 DEF cells, src, len, at
<1>6. Y = {} \cup (Rest(s, k, b) \ Rest(x, k, e))
  BY DEF L
<1> HIDE DEF Y
<1>7. /\ Data(x, c, d, l, I, e, E, Y) /\ Rest(x, k, e) = ItemsFrom(cells, a, n) /\ Only(s, x, k)
      /\ Cells(x, k) = cells /\ LenOf(x, k) = n
  BY <1>2, <1>3, <1>5, <1>6, IterWrites
<1>8. ItemsFrom(cells, a, n) = ItemsFrom(src, a, n)
  BY <1>4 DEF ItemsFrom
<1>9. Y = {src[i]}
  <2>1. CASE i = at /\ n = len /\ a = at + 1
    <3>1. /\ ItemsFrom(src, at, a) \cap ItemsFrom(src, a, len) = {}
          /\ ItemsFrom(src, at, a) \cup ItemsFrom(src, a, len) = L
      <4>1. at \in Int /\ a \in Int /\ len \in Int /\ at <= a /\ a <= len
        BY <1>1, <1>2, <2>1
      <4> QED BY <1>1, <4>1, HoldsCut
    <3>2. ItemsFrom(src, at, a) = {src[i]}
      <4>1. at .. a - 1 = {at}
        BY <1>1, <2>1
      <4> QED BY <2>1, <4>1 DEF ItemsFrom
    <3> QED BY <1>7, <1>8, <2>1, <3>1, <3>2 DEF Y
  <2>2. CASE i = len - 1 /\ n = len - 1 /\ a = at
    <3>1. /\ ItemsFrom(src, at, n) \cap ItemsFrom(src, n, len) = {}
          /\ ItemsFrom(src, at, n) \cup ItemsFrom(src, n, len) = L
      <4>1. at \in Int /\ n \in Int /\ len \in Int /\ at <= n /\ n <= len
        BY <1>1, <1>2, <2>2
      <4> QED BY <1>1, <4>1, HoldsCut
    <3>2. ItemsFrom(src, n, len) = {src[i]}
      <4>1. n .. len - 1 = {n} /\ n = i
        BY <1>1, <2>2
      <4> QED BY <4>1 DEF ItemsFrom
    <3> QED BY <1>7, <1>8, <2>2, <3>1, <3>2 DEF Y
  <2> QED BY <1>2, <2>1, <2>2
<1>10. c2 = c \cup Y /\ Y \subseteq L
  BY <1>9 DEF Item, src, Y
<1> DEFINE W == c \cup d \cup Y
<1>11. Splits(W, {}, c2, d, {})
  <2>1. c \cap d = {}
    BY DataFacts
  <2> QED BY <1>1, <1>10, <2>1 DEF Splits
<1>12. W = c \cup d \cup Y
  OBVIOUS
<1> HIDE DEF W
<1> QED BY <1>7, <1>11, <1>12, DataShare DEF cells, src
(* What an iterator has left is dropped with it, or leaked.                *)
LEMMA IterEnds ==
  ASSUME NEW s, NEW c, NEW d, NEW l, NEW I, NEW b, NEW E, Data(s, c, d, l, I, b, E, {}),
         NEW k \in I, NEW J, J = I \ {k}, NEW e, e = MovedTo(b, k, 0), NEW g
  PROVE  /\ g = Released(s, k) => \A D : D = d \cup Rest(s, k, b) => Data(g, c, D, l, J, e, E, {})
         /\ g = NewInline(s, k) => \A F : F = E \cup Rest(s, k, b) => Data(g, c, d, l, J, e, F, {})
         /\ g = Released(s, k) \/ g = NewInline(s, k) => Only(s, g, k)
<1> DEFINE L == Rest(s, k, b)
           m == MovedTo(b, k, LenOf(s, k))
<1>1. /\ L \cap (c \cup d) = {} /\ c \cap d = {} /\ b \in [Handles -> 0 .. MaxCap] /\ k \in Handles
  BY IterFacts, DataFacts
<1>2. Data(s, c, d, l, I, m, E, L) /\ Rest(s, k, m) = {}
  <2>1. m = MovedTo(b, k, LenOf(s, k)) /\ L = {} \cup Rest(s, k, b)
    OBVIOUS
  <2> HIDE DEF m, L
  <2> QED BY <2>1, IterLetsGo
<1>3. e = MovedTo(m, k, 0)
  BY <1>1 DEF MovedTo
<1>4. L = Rest(s, k, b)
  OBVIOUS
<1> HIDE DEF m, L
<1>5. ASSUME g = Released(s, k), NEW D, D = d \cup L
      PROVE  Data(g, c, D, l, J, e, E, {})
  <2> DEFINE W == c \cup d \cup L
  <2>1. Splits(W, {}, c, D, {}) /\ W = c \cup d \cup L
    BY <1>1, <1>5 DEF Splits
  <2> HIDE DEF W
  <2>2. Data(s, c, D, l, I, m, E, {})
    BY <1>2, <2>1, DataShare
  <2> QED BY <1>2, <1>3, <1>5, <2>2, IterCloses
<1>6. ASSUME g = NewInline(s, k), NEW F, F = E \cup L
      PROVE  Data(g, c, d, l, J, e, F, {})
  <2>1. Data(s, c, d, l, I, m, F, {})
    BY <1>2, <1>6, DataForget
  <2> QED BY <1>2, <1>3, <1>6, <2>1, IterCloses
<1>7. ASSUME g = Released(s, k) \/ g = NewInline(s, k)
      PROVE  Only(s, g, k)
  BY <1>2, <1>3, <1>7, IterCloses
<1> QED BY <1>4, <1>5, <1>6, <1>7

LEMMA DropIterStep ==
  ASSUME CInv, Idle, UNCHANGED cvars, NEW h, DropIter(h)
  PROVE  CInv' /\ ItersStand
<1>1. ~Calling
  BY DEF Idle, Calling
<1>2. Data(store, caller, dropped, live, iters, begin, leaked, {}) /\ leaked \subseteq Elems
  BY <1>1, IdleData
<1> DEFINE L == Rest(store, h, begin)
           J == iters \ {h}
           e == MovedTo(begin, h, 0)
           D == dropped \cup L
<1>3. h \in iters /\ Remaining(h) = L
  BY DEF DropIter, Remaining, Rest, ItemsFrom, Item
<1>4. /\ store' = Released(store, h) /\ caller' = caller /\ dropped' = D /\ live' = live
      /\ iters' = J /\ begin' = e /\ leaked' = leaked
  BY <1>3 DEF DropIter, IterGone, MovedTo
<1>5. J = iters \ {h} /\ e = MovedTo(begin, h, 0) /\ D = dropped \cup Rest(store, h, begin)
  OBVIOUS
<1> HIDE DEF J, e, D
<1>6. Data(store', caller, D, live, J, e, leaked, {})
  BY <1>2, <1>3, <1>4, <1>5, IterEnds
<1>7. Only(store, store', h)
  BY <1>2, <1>3, <1>4, <1>5, IterEnds
<1>8. ItersStand
  BY <1>4, <1>5, <1>7, OnlyStands DEF MovedTo
<1> QED BY <1>2, <1>4, <1>6, <1>8, StillIdle

LEMMA ForgetIterStep ==
  ASSUME CInv, Idle, UNCHANGED cvars, NEW h, ForgetIter(h)
  PROVE  CInv' /\ ItersStand
<1>1. ~Calling
  BY DEF Idle, Calling
<1>2. Data(store, caller, dropped, live, iters, begin, leaked, {}) /\ leaked \subseteq Elems
  BY <1>1, IdleData
<1> DEFINE L == Rest(store, h, begin)
           J == iters \ {h}
           e == MovedTo(begin, h, 0)
           F == leaked \cup L
<1>3. h \in iters /\ Remaining(h) = L /\ L \subseteq Elems
  <2>1. h \in iters
    BY DEF ForgetIter
  <2>2. L \subseteq Elems
    BY <1>2, <2>1, IterFacts
  <2> QED BY <2>1, <2>2 DEF Remaining, Rest, ItemsFrom, Item
<1>4. /\ store' = NewInline(store, h) /\ caller' = caller /\ dropped' = dropped /\ live' = live
      /\ iters' = J /\ begin' = e /\ leaked' = F
  BY <1>3 DEF ForgetIter, IterGone, MovedTo
<1>5. /\ J = iters \ {h} /\ e = MovedTo(begin, h, 0) /\ F = leaked \cup Rest(store, h, begin)
      /\ F \subseteq Elems
  BY <1>2, <1>3
<1> HIDE DEF J, e, F
<1>6. Data(store', caller, dropped, live, J, e, F, {})
  BY <1>2, <1>3, <1>4, <1>5, IterEnds
<1>7. Only(store, store', h)
  BY <1>2, <1>3, <1>4, <1>5, IterEnds
<1>8. ItersStand
  BY <1>4, <1>5, <1>7, OnlyStands DEF MovedTo
<1> QED BY <1>4, <1>5, <1>6, <1>8, StillIdle

LEMMA YieldStep ==
  ASSUME CInv, Idle, UNCHANGED cvars, NEW h, NextItem(h) \/ NextBackItem(h)
  PROVE  CInv'
<1>1. ~Calling
  BY DEF Idle, Calling
<1>2. Data(store, caller, dropped, live, iters, begin, leaked, {}) /\ leaked \subseteq Elems
  BY <1>1, IdleData
<1>3. /\ h \in iters /\ begin[h] # LenOf(store, h) /\ live' = live /\ dropped' = dropped
      /\ iters' = iters /\ leaked' = leaked
  BY DEF NextItem, NextBackItem, YieldItem
<1>4. begin \in [Handles -> 0 .. MaxCap] /\ h \in Handles
  BY <1>2, <1>3, IterFacts
<1>5. CASE NextItem(h)
  <2> DEFINE i == begin[h]
             n == LenOf(store, h)
             a == begin[h] + 1
  <2>1. /\ store' = Edited(store, h, Wipe(Cells(store, h), i, 1), n)
        /\ caller' = caller \cup {Item(store, h, i)} /\ begin' = MovedTo(begin, h, a)
    BY <1>5 DEF NextItem, YieldItem, MovedTo
  <2>2. i = begin[h] /\ n = LenOf(store, h) /\ a = begin[h] + 1
    OBVIOUS
  <2> HIDE DEF i, n, a
  <2>3. Data(store', caller', dropped, live, iters, begin', leaked, {})
    BY <1>2, <1>3, <2>1, <2>2, Yields
  <2> QED BY <1>2, <1>3, <2>3, StillIdle
<1>6. CASE NextBackItem(h)
  <2> DEFINE i == LenOf(store, h) - 1
             a == begin[h]
  <2>1. /\ store' = Edited(store, h, Wipe(Cells(store, h), i, 1), i)
        /\ caller' = caller \cup {Item(store, h, i)} /\ begin' = MovedTo(begin, h, a)
    BY <1>4, <1>6 DEF NextBackItem, YieldItem, MovedTo
  <2>2. i = LenOf(store, h) - 1 /\ a = begin[h]
    OBVIOUS
  <2> HIDE DEF i, a
  <2>3. Data(store', caller', dropped, live, iters, begin', leaked, {})
    BY <1>2, <1>3, <2>1, <2>2, Yields
  <2> QED BY <1>2, <1>3, <2>3, StillIdle
<1> QED BY <1>5, <1>6

LEMMA IntoIterStep ==
  ASSUME CInv, Idle, UNCHANGED cvars, NEW h, IntoIterCall(h)
  PROVE  CInv' /\ ItersStand
<1>1. ~Calling
  BY DEF Idle, Calling
<1>2. Data(store, caller, dropped, live, iters, begin, leaked, {}) /\ leaked \subseteq Elems
  BY <1>1, IdleData
<1>3. /\ h \in live \cap SmallVecs /\ live' = live \ {h} /\ iters' = iters \cup {h}
      /\ store' = store /\ caller' = caller /\ dropped' = dropped /\ begin' = begin
      /\ leaked' = leaked
  BY DEF IntoIterCall
<1>4. Data(store, caller, dropped, live', iters', begin, leaked, {})
  BY <1>2, <1>3, IterMade
<1>5. ItersStand
  BY <1>3 DEF ItersStand
<1> QED BY <1>2, <1>3, <1>4, <1>5, StillIdle

LEMMA ProgramStep ==
  ASSUME CInv, Program
  PROVE  CInv' /\ (ItersStand \/ \E h : NextItem(h) \/ NextBackItem(h))
<1>1. Idle /\ ~Calling /\ live' \cap iters' = {} /\ UNCHANGED cvars
  BY DEF Program, Idle, Calling
<1>2. Data(store, caller, dropped, live, iters, begin, leaked, {}) /\ leaked \subseteq Elems
  BY <1>1, IdleData
<1>9. live \cap iters = {}
  BY <1>2, DataFacts
<1>3. ASSUME UNCHANGED ivars, NEW h \in Handles, FromVec(h) \/ New(h)
      PROVE  CInv' /\ ItersStand
  <2>1. iters' = iters /\ begin' = begin /\ leaked' = leaked /\ caller' = caller /\ dropped' = dropped
    BY <1>3 DEF ivars, FromVec, New
  <2>2. h \in live' /\ h \notin live \cup iters /\ h \in Handles
    BY <1>1, <1>3, <2>1 DEF FromVec, New, Construct, SmallVecs
  <2>3. CASE FromVec(h)
    <3>1. /\ Std \in live /\ live' = (live \ {Std}) \cup {h}
          /\ store' = IF Capacity(store, Std) = 0 THEN NewInline(store, h) ELSE HandOver(store, Std, h)
      BY <2>3 DEF FromVec
    <3>2. h \in SmallVecs \ (live \cup iters)
      BY <2>2, <2>3 DEF FromVec
    <3>3. Data(store', caller, dropped, live', iters, begin, leaked, {})
      BY <1>2, <3>1, <3>2, DataPass
    <3>5. Spares(store, store', {Std, h})
      <4> DEFINE H == {Std, h}
      <4>1. Spares(store, store', H)
        BY <1>2, <3>1, <3>2, DataPass
      <4> QED BY <4>1
    <3>4. ItersStand
      <4>1. Std \notin iters /\ h \notin iters
        BY <1>9, <3>1, <3>2
      <4> QED BY <2>1, <3>5, <4>1, SparesStand
    <3> QED BY <1>1, <1>2, <2>1, <3>3, <3>4, StillIdle
  <2>4. CASE New(h)
    <3>1. live' = live \cup {h} /\ store' = NewInline(store, h)
      BY <2>4 DEF New, Construct
    <3>2. h \in Handles \ (live \cup iters)
      BY <2>2
    <3>3. Data(store', caller, dropped, live', iters, begin, leaked, {}) /\ Only(store, store', h)
      BY <1>2, <3>1, <3>2, DataNew
    <3>4. ItersStand
      BY <2>1, <3>2, <3>3, OnlyStands
    <3> QED BY <1>1, <1>2, <2>1, <3>3, <3>4, StillIdle
  <2> QED BY <1>3, <2>3, <2>4
<1>4. ASSUME UNCHANGED ivars, NEW h \in Handles, Push(h)
      PROVE  CInv' /\ ItersStand
  <2>1. iters' = iters /\ begin' = begin /\ leaked' = leaked
    BY <1>4 DEF ivars
  <2>2. /\ Data(store', caller', dropped', live', iters, begin, leaked, {})
        /\ Only(store, store', h)
    BY <1>2, <1>4, PushData
  <2>3. ItersStand
    <3>1. h \in live
      BY <1>4 DEF Push
    <3> QED BY <1>9, <2>1, <2>2, <3>1, OnlyStands
  <2> QED BY <1>1, <1>2, <2>1, <2>2, <2>3, StillIdle
<1>5. ASSUME UNCHANGED ivars, NEW h \in Handles, NEW c \in Sizes, NewWithCapacity(h, c)
      PROVE  CInv' /\ ItersStand
  <2>1. /\ iters' = iters /\ begin' = begin /\ leaked' = leaked /\ caller' = caller
        /\ dropped' = dropped /\ live' = live \cup {h} /\ store' \in WithCapacity(store, h, c)
    BY <1>5 DEF ivars, NewWithCapacity, Construct
  <2>2. h \in Handles \ (live \cup iters) /\ c \in Nat
    <3>1. h \notin live /\ h \in live'
      BY <1>5 DEF NewWithCapacity, Construct
    <3> QED BY <1>1, <2>1, <3>1, RawAssumption DEF Sizes
  <2>3. Data(store', caller, dropped, live', iters, begin, leaked, {}) /\ Only(store, store', h)
    BY <1>2, <2>1, <2>2, DataMake
  <2>4. ItersStand
    BY <2>1, <2>2, <2>3, OnlyStands
  <2> QED BY <1>1, <1>2, <2>1, <2>3, <2>4, StillIdle
<1>6. ASSUME UNCHANGED ivars, NEW k \in Sizes, NEW n \in Sizes, VecNew(k, n)
      PROVE  CInv' /\ ItersStand
  <2>1. /\ iters' = iters /\ begin' = begin /\ leaked' = leaked /\ dropped' = dropped
        /\ live' = live \cup {Std} /\ Std \notin live /\ n <= k
    BY <1>6 DEF ivars, VecNew
  <2>2. PICK f \in Arrays(n) :
          /\ store' \in {Edited(s, Std, Filled(f, n), n) : s \in WithCapacity(store, Std, k)}
          /\ caller' = caller \ Taken(f, n)
    BY <1>6 DEF VecNew
  <2>3. PICK s \in WithCapacity(store, Std, k) : store' = Edited(s, Std, Filled(f, n), n)
    BY <2>2
  <2>4. Std \in Handles \ (live \cup iters) /\ k \in Nat /\ n \in Nat /\ MaxCap \in Nat
    <3>1. Std \in Handles /\ k \in Nat /\ n \in Nat /\ MaxCap \in Nat
      BY StdAssumption, RawAssumption DEF Sizes
    <3> QED BY <1>1, <2>1, <3>1
  <2>5. /\ Data(s, caller, dropped, live', iters, begin, leaked, {}) /\ LenOf(s, Std) = 0
        /\ Capacity(s, Std) >= k /\ Only(store, s, Std)
    BY <1>2, <2>1, <2>3, <2>4, DataMake
  <2>6. caller \subseteq Elems /\ Std \in Handles \ iters /\ Std \in live'
    BY <1>2, <2>1, <2>4, DataFacts
  <2> DEFINE cells == Filled(f, n)
             O == Taken(f, n)
             W == Owned(s, Std) \cup caller \cup dropped \cup {}
  <2>7. Lays(s, Std, cells, n, O) /\ O \subseteq caller
    <3>1. Capacity(s, Std) \in 0 .. MaxCap
      BY <2>5, <2>6, DataVector
    <3>2. n <= Capacity(s, Std) /\ n <= MaxCap
      BY <2>1, <2>4, <2>5, <3>1
    <3>3. O \subseteq caller /\ cells \in Block /\ Holds(cells, 0, n, O)
      BY <2>2, <2>4, <2>6, <3>2, ArrayHolds
    <3>4. FitIn(cells, Capacity(s, Std))
      BY <2>4, <3>1, <3>2, FilledFits
    <3> QED BY <2>4, <3>2, <3>3, <3>4 DEF Lays
  <2>8. Splits(W, O, caller', dropped, {}) /\ W = Owned(s, Std) \cup caller \cup dropped \cup {}
    <3>1. Owned(s, Std) = {}
      BY <2>5 DEF Owned
    <3>2. caller \cap dropped = {}
      BY <1>2, DataFacts
    <3> QED BY <2>2, <2>7, <3>1, <3>2 DEF Splits
  <2>9. store' = Edited(s, Std, cells, n)
    BY <2>3
  <2> HIDE DEF cells, O, W
  <2>10. Data(store', caller', dropped, live', iters, begin, leaked, {}) /\ Only(s, store', Std)
    BY <2>5, <2>6, <2>7, <2>8, <2>9, DataWrite
  <2>11. ItersStand
    <3>1. Only(store, store', Std)
      BY <2>5, <2>10, OnlyCompose
    <3> QED BY <2>1, <2>4, <3>1, OnlyStands
  <2> QED BY <1>1, <1>2, <2>1, <2>10, <2>11, StillIdle
<1>7. ASSUME UNCHANGED ivars, NEW h \in Handles, DropVec(h)
      PROVE  CInv' /\ ItersStand
  <2>1. /\ iters' = iters /\ begin' = begin /\ leaked' = leaked /\ caller' = caller
        /\ h \in live /\ live' = live \ {h} /\ store' = Released(store, h)
        /\ dropped' = dropped \cup Owned(store, h)
    BY <1>7 DEF ivars, DropVec, Discard
  <2>2. Data(store', caller, dropped', live', iters, begin, leaked, {}) /\ Only(store, store', h)
    BY <1>2, <2>1, DataClose
  <2>3. ItersStand
    BY <1>9, <2>1, <2>2, OnlyStands
  <2> QED BY <1>1, <1>2, <2>1, <2>2, <2>3, StillIdle
<1>8. ASSUME IterNext
      PROVE  CInv' /\ (ItersStand \/ \E h : NextItem(h) \/ NextBackItem(h))
  <2>1. PICK h \in Handles : \/ IntoIterCall(h) \/ NextItem(h) \/ NextBackItem(h)
                             \/ DropIter(h) \/ ForgetIter(h)
    BY <1>8 DEF IterNext
  <2> QED BY <1>1, <1>8, <2>1, IntoIterStep, YieldStep, DropIterStep, ForgetIterStep
<1> QED BY <1>3, <1>4, <1>5, <1>6, <1>7, <1>8 DEF Program
----------------------------------------------------------------------------
(* The calls begin.                                                        *)

LEMMA MakesStep ==
  ASSUME CInv, NEW h \in Handles, NEW n \in Sizes,
         \/ FromElem(h, n) \/ FromIter(h, n) \/ SpecFromIter(h, n) \/ VisitSeq(h, n)
         \/ \E k \in Handles, at \in Slots : FromSlice(h, k, at, n)
  PROVE  CInv' /\ ItersStand
<1>1. n \in Nat /\ n \in 0 .. MaxCap + 1 /\ 0 \in 0 .. MaxCap + 1
  BY RawAssumption DEF Sizes
<1>2. CASE FromElem(h, n)
  <2>1. PICK e \in caller :
          Constructs(h, WithCapacity(store, h, n), Repeating("guard", e, n), [i \in 1 .. n |-> val[e]])
    BY <1>2 DEF FromElem
  <2> DEFINE c == Repeating("guard", e, n)
             want == [i \in 1 .. n |-> val[e]]
             outcomes == WithCapacity(store, h, n)
  <2>2. e \in Elems /\ "guard" \in Ways
    BY DataFacts DEF CInv, Ways
  <2>3. c \in Calls /\ c.how = "guard" /\ c.give = "repeat" /\ c.value = e /\ c.n = n /\ c.made = 0 /\ ~c.open
    BY <1>1, <2>2, RepeatingFields
  <2>4. Constructs(h, outcomes, c, want) /\ outcomes = WithCapacity(store, h, n)
    BY <2>1
  <2> HIDE DEF c, want, outcomes
  <2>5. MayBegin(c, h)
    BY <2>2, <2>3 DEF MayBegin
  <2> QED BY <1>1, <2>3, <2>4, <2>5, BegunFresh
<1>3. ASSUME NEW how \in Ways, NEW open \in BOOLEAN, NEW m \in 0 .. MaxCap + 1,
             NEW outcomes, Constructs(h, outcomes, Drawing(how, open, m), <<>>),
             how = "guard" => m = n,
             \/ outcomes = WithCapacity(store, h, n)
             \/ how = "push" /\ outcomes = Reserve(NewInline(store, h), h, n)
      PROVE  CInv' /\ ItersStand
  <2> DEFINE c == Drawing(how, open, m)
             want == <<>>
  <2>1. c \in Calls /\ c.how = how /\ c.give = "item" /\ c.n = m /\ c.made = 0
    BY DrawingFields
  <2>2. Constructs(h, outcomes, c, want)
    BY <1>3
  <2> HIDE DEF c, want
  <2>3. MayBegin(c, h)
    BY <2>1 DEF MayBegin
  <2>4. c.how = "guard" => c.n = n
    BY <1>3, <2>1
  <2>5. \/ outcomes = WithCapacity(store, h, n)
        \/ c.how = "push" /\ outcomes = Reserve(NewInline(store, h), h, n)
    BY <1>3, <2>1
  <2> QED BY <1>1, <2>1, <2>2, <2>3, <2>4, <2>5, BegunFresh
<1>4. "push" \in Ways /\ "guard" \in Ways /\ "push" # "guard"
  BY DEF Ways
<1>5. CASE FromIter(h, n)
  BY <1>1, <1>3, <1>4, <1>5 DEF FromIter
<1>6. CASE SpecFromIter(h, n)
  BY <1>1, <1>3, <1>4, <1>6 DEF SpecFromIter
<1>7. CASE VisitSeq(h, n)
  BY <1>1, <1>3, <1>4, <1>7 DEF VisitSeq
<1>8. ASSUME NEW k \in Handles, NEW at \in Slots, FromSlice(h, k, at, n)
      PROVE  CInv' /\ ItersStand
  <2> DEFINE c == Cloning("guard", k, at, n)
             want == SliceValues(k, at, n)
             outcomes == WithCapacity(store, h, n)
  <2>1. at \in 0 .. MaxCap
    BY RawAssumption DEF Slots
  <2>2. /\ c \in Calls /\ c.how = "guard" /\ c.give = "clone" /\ c.src = k /\ c.at = at /\ c.n = n
        /\ c.made = 0 /\ ~c.open
    BY <1>1, <2>1, CloningFields
  <2>3. Constructs(h, outcomes, c, want) /\ outcomes = WithCapacity(store, h, n) /\ Slice(k, at, n)
    BY <1>8 DEF FromSlice
  <2> HIDE DEF c, want, outcomes
  <2>4. MayBegin(c, h)
    BY <2>2, <2>3 DEF MayBegin, Ways
  <2> QED BY <1>1, <2>2, <2>3, <2>4, BegunFresh
<1> QED BY <1>2, <1>5, <1>6, <1>7, <1>8

LEMMA ExtendsStep ==
  ASSUME CInv, NEW h \in Handles, NEW n \in Sizes,
         \/ Extend(h, n) \/ SpecExtend(h, n) \/ ResizeUp(h, n) \/ ResizeWith(h, n)
         \/ \E at \in Slots : ExtendFromWithin(h, at, n)
         \/ \E k \in Handles, at \in Slots : ExtendFromSlice(h, k, at, n)
  PROVE  CInv' /\ ItersStand
<1>1. n \in Nat /\ n \in 0 .. MaxCap + 1 /\ 0 \in 0 .. MaxCap + 1 /\ MaxCap \in Nat
  BY RawAssumption DEF Sizes
<1>2. ASSUME NEW how \in Ways, NEW open \in BOOLEAN, NEW m \in 0 .. MaxCap + 1, NEW r \in Nat,
             Begins(h, Reserve(store, h, r), Drawing(how, open, m), <<>>), how = "guard" => m = r
      PROVE  CInv' /\ ItersStand
  <2> DEFINE c == Drawing(how, open, m)
             want == <<>>
  <2>1. c \in Calls /\ c.how = how /\ c.give = "item" /\ c.n = m /\ c.made = 0
    BY DrawingFields
  <2>2. Begins(h, Reserve(store, h, r), c, want)
    BY <1>2
  <2> HIDE DEF c, want
  <2>3. MayBegin(c, h) /\ (c.how = "guard" => c.n = r)
    BY <1>2, <2>1 DEF MayBegin
  <2> QED BY <2>1, <2>2, <2>3, BegunInPlace
<1>3. "push" \in Ways /\ "guard" \in Ways /\ "push" # "guard"
  BY DEF Ways
<1>4. CASE Extend(h, n)
  BY <1>1, <1>2, <1>3, <1>4 DEF Extend
<1>5. CASE SpecExtend(h, n)
  BY <1>1, <1>2, <1>3, <1>5 DEF SpecExtend
<1>6. ASSUME h \in live
      PROVE  LenOf(store, h) \in Nat
  <2>1. h \in Handles \ iters
    BY <1>6, DataFacts DEF CInv
  <2>2. LenOf(store, h) \in 0 .. MaxCap
    BY <2>1, DataVector DEF CInv
  <2> QED BY <1>1, <2>2
<1>7. CASE ResizeWith(h, n)
  <2> DEFINE r == n - LenOf(store, h)
  <2>1. r > 0 /\ Begins(h, Reserve(store, h, r), Drawing("push", FALSE, r), <<>>)
    BY <1>7 DEF ResizeWith
  <2>2. r \in Nat /\ r \in 0 .. MaxCap + 1
    <3>1. LenOf(store, h) \in Nat
      BY <1>6, <2>1 DEF Begins
    <3> QED BY <1>1, <2>1, <3>1
  <2> HIDE DEF r
  <2> QED BY <1>2, <1>3, <2>1, <2>2
<1>8. CASE ResizeUp(h, n)
  <2> DEFINE r == n - LenOf(store, h)
  <2>1. PICK how \in Ways, e \in caller :
          r > 0 /\ Begins(h, Reserve(store, h, r), Repeating(how, e, r), [i \in 1 .. r |-> val[e]])
    BY <1>8 DEF ResizeUp
  <2>2. r \in Nat /\ r \in 0 .. MaxCap + 1
    <3>1. LenOf(store, h) \in Nat
      BY <1>6, <2>1 DEF Begins
    <3> QED BY <1>1, <2>1, <3>1
  <2> HIDE DEF r
  <2> DEFINE c == Repeating(how, e, r)
             want == [i \in 1 .. r |-> val[e]]
  <2>3. e \in Elems
    BY DataFacts DEF CInv
  <2>4. c \in Calls /\ c.how = how /\ c.give = "repeat" /\ c.value = e /\ c.n = r /\ c.made = 0 /\ ~c.open
    BY <2>2, <2>3, RepeatingFields
  <2>5. Begins(h, Reserve(store, h, r), c, want)
    BY <2>1
  <2> HIDE DEF c, want
  <2>6. MayBegin(c, h)
    BY <2>4 DEF MayBegin
  <2> QED BY <2>2, <2>4, <2>5, <2>6, BegunInPlace
<1>9. ASSUME NEW how \in Ways, NEW k \in Handles, NEW at \in Slots, Slice(k, at, n),
             how # "guard" => h # k,
             Begins(h, Reserve(store, h, n), Cloning(how, k, at, n), SliceValues(k, at, n))
      PROVE  CInv' /\ ItersStand
  <2> DEFINE c == Cloning(how, k, at, n)
             want == SliceValues(k, at, n)
  <2>1. at \in 0 .. MaxCap /\ how \in {"push", "guard", "assign"}
    BY <1>1 DEF Slots, Ways
  <2>2. /\ c \in Calls /\ c.how = how /\ c.give = "clone" /\ c.src = k /\ c.at = at /\ c.n = n
        /\ c.made = 0 /\ ~c.open
    BY <1>1, <2>1, CloningFields
  <2>3. Begins(h, Reserve(store, h, n), c, want)
    BY <1>9
  <2> HIDE DEF c, want
  <2>4. MayBegin(c, h)
    BY <1>9, <2>2 DEF MayBegin
  <2> QED BY <1>1, <2>2, <2>3, <2>4, BegunInPlace
<1>10. ASSUME NEW at \in Slots, ExtendFromWithin(h, at, n)
       PROVE  CInv' /\ ItersStand
  BY <1>3, <1>9, <1>10 DEF ExtendFromWithin
<1>11. ASSUME NEW k \in Handles, NEW at \in Slots, ExtendFromSlice(h, k, at, n)
       PROVE  CInv' /\ ItersStand
  BY <1>9, <1>11 DEF ExtendFromSlice
<1> QED BY <1>4, <1>5, <1>7, <1>8, <1>10, <1>11

(* What is behind n is dropped.                                            *)
LEMMA DataCut ==
  ASSUME NEW s, NEW c, NEW d, NEW l, NEW I, NEW b, NEW E, NEW X, Data(s, c, d, l, I, b, E, X),
         NEW h \in l, NEW n \in Nat, n <= LenOf(s, h), NEW x,
         x = Edited(s, h, Wipe(Cells(s, h), n, LenOf(s, h) - n), n),
         NEW D, D = d \cup {Item(s, h, i) : i \in n .. LenOf(s, h) - 1}
  PROVE  /\ Data(x, c, D, l, I, b, E, X) /\ Only(s, x, h)
         /\ LenOf(x, h) = n /\ Capacity(x, h) = Capacity(s, h)
<1> DEFINE len == LenOf(s, h)
           src == Cells(s, h)
           O == Owned(s, h)
           cells == Wipe(src, n, len - n)
           A == ItemsFrom(src, 0, n)
           B == ItemsFrom(src, n, len)
           W == Owned(s, h) \cup c \cup d \cup X
<1>1. h \in Handles \ I /\ c \cap (d \cup X) = {} /\ d \cap X = {} /\ MaxCap \in Nat
  BY DataFacts, RawAssumption
<1>2. /\ len \in Nat /\ len <= MaxCap /\ src \in Block /\ FitIn(src, Capacity(s, h))
      /\ Capacity(s, h) \in Nat /\ len <= Capacity(s, h) /\ Holds(src, 0, len, O)
      /\ O \cap (c \cup d \cup X) = {}
  BY <1>1, DataVector
<1>3. D = d \cup B
  BY DEF ItemsFrom, Item
<1> HIDE DEF len, src, O
<1>4. n <= len /\ Holds(src, 0, n, A) /\ A \cap B = {} /\ A \cup B = O
  <2>1. 0 \in Int /\ n \in Int /\ len \in Int /\ 0 <= n /\ n <= len
    BY <1>2 DEF len
  <2> QED BY <1>2, <2>1, HoldsCut
<1>5. cells \in Block /\ FitIn(cells, Capacity(s, h)) /\ Holds(cells, 0, n, A)
  <2>1. n \in Int /\ len - n \in Int /\ 0 \in Nat /\ n <= MaxCap
    BY <1>1, <1>2, <1>4
  <2>2. cells \in Block
    BY <1>2, <2>1, WipeType
  <2>3. FitIn(cells, Capacity(s, h))
    BY <1>2, <2>1, WipeFits
  <2>4. n <= n \/ n + (len - n) <= 0
    OBVIOUS
  <2>5. Holds(cells, 0, n, A)
    BY <1>2, <1>4, <2>1, <2>4, WipeHolds
  <2> QED BY <2>2, <2>3, <2>5
<1>6. Lays(s, h, cells, n, A)
  BY <1>2, <1>4, <1>5 DEF Lays
<1>7. Splits(W, A, c, D, X) /\ W = Owned(s, h) \cup c \cup d \cup X
  BY <1>1, <1>2, <1>3, <1>4 DEF Splits, O
<1>8. x = Edited(s, h, cells, n)
  BY DEF src, len
<1> HIDE DEF cells, A, W
<1> QED BY <1>6, <1>7, <1>8, DataWrite
(* An element goes from the program to the dropped ones.                   *)
LEMMA DataDrop ==
  ASSUME NEW s, NEW c, NEW d, NEW l, NEW I, NEW b, NEW E, NEW X, Data(s, c, d, l, I, b, E, X),
         NEW Y \in SUBSET c, NEW c2, c2 = c \ Y, NEW d2, d2 = d \cup Y
  PROVE  Data(s, c2, d2, l, I, b, E, X)
<1> DEFINE W == c \cup d \cup X
<1>1. c \cap (d \cup X) = {} /\ d \cap X = {}
  BY DataFacts
<1>2. Splits(W, {}, c2, d2, X) /\ W = c \cup d \cup X
  BY <1>1 DEF Splits
<1> HIDE DEF W
<1> QED BY <1>2, DataShare

LEMMA LengthType ==
  ASSUME NEW s, NEW c, NEW d, NEW l, NEW I, NEW b, NEW E, NEW X, Data(s, c, d, l, I, b, E, X),
         NEW h \in l
  PROVE  /\ h \in Handles \ I /\ LenOf(s, h) \in Nat /\ LenOf(s, h) <= MaxCap /\ b[h] = 0
         /\ Capacity(s, h) \in Nat /\ LenOf(s, h) <= Capacity(s, h) /\ Capacity(s, h) <= MaxCap
<1>1. h \in Handles \ I /\ MaxCap \in Nat
  BY DataFacts, RawAssumption
<1>2. b[h] = 0
  BY <1>1 DEF Data, IterOK
<1>3. LenOf(s, h) \in 0 .. MaxCap /\ Capacity(s, h) \in 0 .. MaxCap /\ LenOf(s, h) <= Capacity(s, h)
  BY <1>1, DataVector
<1> QED BY <1>1, <1>2, <1>3

LEMMA ResizeDownStep ==
  ASSUME CInv, NEW h, NEW n \in Sizes, ResizeDown(h, n)
  PROVE  CInv' /\ ItersStand
<1>1. Idle /\ ~Calling /\ UNCHANGED cvars /\ h \in live /\ n <= LenOf(store, h) /\ n \in Nat
  BY RawAssumption DEF ResizeDown, Idle, Calling, Sizes
<1>2. Data(store, caller, dropped, live, iters, begin, leaked, {}) /\ leaked \subseteq Elems
  BY <1>1, IdleData
<1> DEFINE D == dropped \cup {Item(store, h, i) : i \in n .. LenOf(store, h) - 1}
<1>3. PICK e \in caller : caller' = caller \ {e} /\ dropped' = D \cup {e}
  BY DEF ResizeDown
<1>4. /\ store' = Edited(store, h, Wipe(Cells(store, h), n, LenOf(store, h) - n), n)
      /\ live' = live /\ iters' = iters /\ begin' = begin /\ leaked' = leaked
  BY DEF ResizeDown, ivars
<1>5. D = dropped \cup {Item(store, h, i) : i \in n .. LenOf(store, h) - 1}
  OBVIOUS
<1> HIDE DEF D
<1>6. Data(store', caller, D, live, iters, begin, leaked, {}) /\ Only(store, store', h)
  BY <1>1, <1>2, <1>4, <1>5, DataCut
<1>9. ItersStand
  <2>2. live \cap iters = {}
    BY <1>2, DataFacts
  <2> QED BY <1>1, <1>4, <1>6, <2>2, OnlyStands
<1> DEFINE Y == {e}
<1>7. Y \in SUBSET caller /\ caller' = caller \ Y /\ dropped' = D \cup Y
  BY <1>3
<1> HIDE DEF Y
<1>8. Data(store', caller', dropped', live, iters, begin, leaked, {})
  BY <1>6, <1>7, DataDrop
<1> QED BY <1>1, <1>2, <1>4, <1>8, <1>9, StillIdle

LEMMA ArgumentStep ==
  ASSUME CInv, NEW h, NEW n, ArgumentDropped(h, n)
  PROVE  CInv' /\ ItersStand
<1>1. Idle /\ ~Calling /\ UNCHANGED cvars
  BY DEF ArgumentDropped, Idle, Calling
<1>2. Data(store, caller, dropped, live, iters, begin, leaked, {}) /\ leaked \subseteq Elems
  BY <1>1, IdleData
<1>3. PICK e \in caller : caller' = caller \ {e} /\ dropped' = dropped \cup {e}
  BY DEF ArgumentDropped, DropArgument
<1>4. store' = store /\ live' = live /\ iters' = iters /\ begin' = begin /\ leaked' = leaked
  BY DEF ArgumentDropped, DropArgument, ivars
<1> DEFINE Y == {e}
<1>5. Y \in SUBSET caller /\ caller' = caller \ Y /\ dropped' = dropped \cup Y
  BY <1>3
<1> HIDE DEF Y
<1>6. Data(store, caller', dropped', live, iters, begin, leaked, {})
  BY <1>2, <1>5, DataDrop
<1>7. ItersStand
  BY <1>4 DEF ItersStand
<1> QED BY <1>1, <1>2, <1>4, <1>6, <1>7, StillIdle

(* The call k runs on the vector h, of which it is now known.              *)
LEMMA CloneFromStep ==
  ASSUME CInv, NEW h, NEW k, CloneFrom(h, k)
  PROVE  CInv' /\ ItersStand
<1> DEFINE n == IF LenOf(store, h) < LenOf(store, k) THEN LenOf(store, h) ELSE LenOf(store, k)
           c == [Cloning("assign", k, 0, n) EXCEPT !.vec = h]
<1>1. /\ ~Calling /\ h \in live /\ h \in SmallVecs /\ k \in live /\ k # h /\ CutTo(h, n)
      /\ call' = c /\ val' = val /\ iters' = iters /\ begin' = begin /\ leaked' = leaked
  BY DEF CloneFrom, Idle, Calling, ivars
<1>2. /\ Data(store, caller, dropped, live, iters, begin, leaked, {}) /\ leaked \subseteq Elems
      /\ val \in [Elems -> Elems]
  BY <1>1, IdleData
<1>3. /\ LenOf(store, h) \in Nat /\ LenOf(store, k) \in Nat /\ LenOf(store, h) <= MaxCap
      /\ h \in Handles /\ k \in Handles /\ begin[k] = 0 /\ MaxCap \in Nat
  BY <1>1, <1>2, LengthType, RawAssumption
<1>4. n \in Nat /\ n <= LenOf(store, h) /\ n <= LenOf(store, k) /\ n \in 0 .. MaxCap + 1
  BY <1>3
<1>5. /\ store' = Edited(store, h, Wipe(Cells(store, h), n, LenOf(store, h) - n), n)
      /\ dropped' = dropped \cup {Item(store, h, i) : i \in n .. LenOf(store, h) - 1}
      /\ live' = live /\ caller' = caller
  BY <1>1 DEF CutTo
<1> HIDE DEF n
<1>6. /\ Data(store', caller, dropped', live, iters, begin, leaked, {}) /\ Only(store, store', h)
      /\ LenOf(store', h) = n
  BY <1>1, <1>2, <1>4, <1>5, DataCut
<1>7. LenOf(store', k) = LenOf(store, k)
  <2>1. OnlyTouches(store, store', {h}) /\ k \in Handles \ {h}
    BY <1>1, <1>3, <1>6 DEF Only, Spares
  <2> QED BY <2>1, UntouchedStays
<1>8. /\ c \in Calls /\ c.how = "assign" /\ c.give = "clone" /\ c.src = k /\ c.at = 0 /\ c.n = n
      /\ c.made = 0 /\ ~c.open /\ c.vec = h
  <2> DEFINE x == Cloning("assign", k, 0, n)
  <2>1. /\ x \in Calls /\ x.how = "assign" /\ x.give = "clone" /\ x.src = k /\ x.at = 0 /\ x.n = n
        /\ x.made = 0 /\ ~x.open
    <3>1. 0 \in 0 .. MaxCap /\ "assign" \in {"push", "guard", "assign"}
      BY <1>3
    <3> QED BY <1>3, <1>4, <3>1, CloningFields
  <2> HIDE DEF x
  <2> QED BY <1>3, <2>1 DEF Calls, x
<1> HIDE DEF c
<1>9. Apart' = {}
  BY <1>1, <1>8 DEF Apart, Guarded
<1>10. SourceOK(c, store', caller, live \cup iters, begin)
  BY <1>1, <1>3, <1>4, <1>7, <1>8 DEF SourceOK
<1>11. TargetOK(c, store', live, {})
  BY <1>1, <1>4, <1>6, <1>8 DEF TargetOK
<1>12. ItersStand
  <2>1. live \cap iters = {}
    BY <1>2, DataFacts
  <2> QED BY <1>1, <1>6, <2>1, OnlyStands
<1>13. CInv'
  BY <1>1, <1>2, <1>5, <1>6, <1>8, <1>9, <1>10, <1>11 DEF CInv, Calling
<1> QED BY <1>12, <1>13

LEMMA StartStep ==
  ASSUME CInv, Start
  PROVE  CInv' /\ ItersStand
<1>1. PICK h \in Handles, n \in Sizes :
    \/ \E k \in Handles, at \in Slots : FromSlice(h, k, at, n)
    \/ \/ FromElem(h, n) \/ Extend(h, n) \/ SpecExtend(h, n) \/ FromIter(h, n)
       \/ SpecFromIter(h, n) \/ VisitSeq(h, n) \/ ResizeUp(h, n) \/ ResizeDown(h, n)
       \/ ResizeWith(h, n) \/ ArgumentDropped(h, n)
       \/ \E at \in Slots : ExtendFromWithin(h, at, n)
       \/ \E k \in Handles, at \in Slots : ExtendFromSlice(h, k, at, n)
       \/ \E k \in Handles : CloneFrom(h, k)
  BY DEF Start
<1>2. CASE \/ FromElem(h, n) \/ FromIter(h, n) \/ SpecFromIter(h, n) \/ VisitSeq(h, n)
           \/ \E k \in Handles, at \in Slots : FromSlice(h, k, at, n)
  BY <1>2, MakesStep
<1>3. CASE \/ Extend(h, n) \/ SpecExtend(h, n) \/ ResizeUp(h, n) \/ ResizeWith(h, n)
           \/ \E at \in Slots : ExtendFromWithin(h, at, n)
           \/ \E k \in Handles, at \in Slots : ExtendFromSlice(h, k, at, n)
  BY <1>3, ExtendsStep
<1>4. CASE ResizeDown(h, n)
  BY <1>4, ResizeDownStep
<1>5. CASE ArgumentDropped(h, n)
  BY <1>5, ArgumentStep
<1>6. ASSUME NEW k \in Handles, CloneFrom(h, k)
      PROVE  CInv' /\ ItersStand
  BY <1>6, CloneFromStep
<1> QED BY <1>1, <1>2, <1>3, <1>4, <1>5, <1>6
----------------------------------------------------------------------------
(* The calls go on.                                                        *)

LEMMA SourceItem ==
  ASSUME NEW s, NEW c, NEW d, NEW l, NEW I, NEW b, NEW E, NEW X, Data(s, c, d, l, I, b, E, X),
         NEW k \in l \cup I, NEW j \in Nat, b[k] <= j, j < LenOf(s, k)
  PROVE  Item(s, k, j) \in Elems
<1>1. CASE k \in l
  <2>1. k \in Handles \ I
    BY <1>1, DataFacts
  <2>2. /\ Holds(Cells(s, k), 0, LenOf(s, k), Owned(s, k)) /\ Owned(s, k) \subseteq Elems
        /\ LenOf(s, k) \in 0 .. MaxCap
    BY <2>1, DataVector
  <2>3. j \in 0 .. LenOf(s, k) - 1
    BY <2>2, RawAssumption
  <2> QED BY <2>2, <2>3 DEF Holds, Item
<1>2. CASE k \in I
  <2>1. /\ Holds(Cells(s, k), b[k], LenOf(s, k), Rest(s, k, b)) /\ Rest(s, k, b) \subseteq Elems
        /\ b[k] \in 0 .. MaxCap /\ LenOf(s, k) \in 0 .. MaxCap
    BY <1>2, IterFacts
  <2>2. j \in b[k] .. LenOf(s, k) - 1
    BY <2>1, RawAssumption
  <2> QED BY <2>1, <2>2 DEF Holds, Item
<1> QED BY <1>1, <1>2

LEMMA CallTypes ==
  ASSUME CInv
  PROVE  /\ call.made \in Nat /\ call.n \in Nat /\ call.base \in Nat /\ call.at \in Nat
         /\ call.made <= MaxCap /\ call.base <= MaxCap /\ call.n <= MaxCap + 1
         /\ call.vec \in Handles /\ call.src \in Handles /\ MaxCap \in Nat
         /\ call.open \in BOOLEAN /\ call.fresh \in BOOLEAN
         /\ call.how \in {"none", "push", "guard", "assign", "copy"}
         /\ call.give \in {"item", "clone", "repeat"}
  BY RawAssumption DEF CInv, Calls

(* The element given is the program's, and leaves it the value to repeat.  *)
LEMMA GivenFacts ==
  ASSUME CInv, Calling, Due, NEW g \in Given
  PROVE  /\ g.elem \in caller /\ g.vals \in [Elems -> Elems]
         /\ call.give # "item" => call.made < call.n
         /\ call.give = "repeat" /\ call.made + 1 < call.n => call.value \in caller \ {g.elem}
<1>1. /\ val \in [Elems -> Elems] /\ SourceOK(call, store, caller, live \cup iters, begin)
      /\ Data(store, caller, dropped, live, iters, begin, leaked, Apart)
  BY DEF CInv
<1>2. caller \subseteq Elems
  BY <1>1, DataFacts
<1>3. ASSUME NEW e \in Elems, g \in CloneOf(e)
      PROVE  g.elem \in caller \ {call.value} /\ g.vals \in [Elems -> Elems]
  <2>1. PICK c \in caller \ {call.value} : g = [elem |-> c, vals |-> [val EXCEPT ![c] = val[e]]]
    BY <1>3 DEF CloneOf
  <2>2. g.elem = c /\ g.vals = [val EXCEPT ![c] = val[e]]
    BY <2>1
  <2> QED BY <1>1, <1>2, <2>2
<1>4. CASE call.give = "item"
  <2>1. PICK e \in caller : g = [elem |-> e, vals |-> val]
    BY <1>4 DEF Given
  <2>2. g.elem = e /\ g.vals = val
    BY <2>1
  <2> QED BY <1>1, <1>4, <2>2
<1>5. CASE call.give = "clone"
  <2> DEFINE j == call.at + call.made
  <2>1. /\ ~call.open /\ call.src \in live \cup iters /\ begin[call.src] <= call.at
        /\ call.at + call.n <= LenOf(store, call.src)
    BY <1>1, <1>5 DEF SourceOK
  <2>2. call.made < call.n
    BY <2>1 DEF Due
  <2>3. begin \in [Handles -> 0 .. MaxCap] /\ LenOf(store, call.src) \in Nat
    <3>1. begin \in [Handles -> 0 .. MaxCap]
      BY <1>1 DEF Data, IterOK
    <3>2. MaxCap \in Nat
      BY RawAssumption
    <3>3. CASE call.src \in live
      <4>1. Data(store, caller, dropped, live, iters, begin, leaked, Apart)
        BY <1>1
      <4>2. ASSUME NEW k \in live
            PROVE  LenOf(store, k) \in Nat
        BY <4>1, <4>2, LengthType
      <4> QED BY <3>1, <3>3, <4>2
    <3>4. CASE call.src \in iters
      BY <1>1, <3>2, <3>4, IterFacts
    <3> QED BY <2>1, <3>1, <3>3, <3>4
  <2>4. j \in Nat /\ begin[call.src] <= j /\ j < LenOf(store, call.src)
    <3>1. begin[call.src] \in Nat
      BY <2>3, CallTypes
    <3> QED BY <2>1, <2>2, <2>3, <3>1, CallTypes
  <2>5. Item(store, call.src, j) \in Elems
    <3> HIDE DEF j
    <3> QED BY <1>1, <2>1, <2>4, SourceItem
  <2>6. g \in CloneOf(Item(store, call.src, j))
    BY <1>5 DEF Given
  <2> QED BY <1>3, <1>5, <2>2, <2>5, <2>6
<1>6. CASE call.give = "repeat"
  <2>1. ~call.open /\ call.value \in Elems /\ (call.made < call.n => call.value \in caller)
    BY <1>1, <1>6 DEF SourceOK
  <2>2. call.made < call.n /\ call.value \in caller
    BY <2>1 DEF Due
  <2>3. CASE call.made = call.n - 1
    <3>1. g \in {[elem |-> call.value, vals |-> val]}
      BY <1>6, <2>3 DEF Given
    <3>2. g.elem = call.value /\ g.vals = val
      BY <3>1
    <3>3. ~(call.made + 1 < call.n)
      BY <2>3, CallTypes
    <3> QED BY <1>1, <2>2, <3>2, <3>3
  <2>4. CASE call.made # call.n - 1
    <3>1. g \in CloneOf(call.value)
      BY <1>6, <2>4 DEF Given
    <3> QED BY <1>3, <2>1, <2>2, <3>1
  <2> QED BY <2>3, <2>4
<1> QED BY <1>4, <1>5, <1>6, CallTypes

(* The call goes on with one element more.                                 *)
LEMMA MadeMore ==
  ASSUME CInv, Calling, Due, NEW g \in Given, Take(g), call.made < MaxCap,
         call.give = "clone" => LenOf(store', call.src) = LenOf(store, call.src)
  PROVE  /\ call' \in Calls /\ call'.how = call.how /\ call'.give = call.give
         /\ call'.open = call.open /\ call'.vec = call.vec /\ call'.src = call.src
         /\ call'.n = call.n /\ call'.base = call.base /\ call'.made = call.made + 1
         /\ caller' = caller \ {g.elem} /\ live' = live /\ iters' = iters /\ begin' = begin
         /\ leaked' = leaked /\ val' \in [Elems -> Elems]
         /\ SourceOK(call', store', caller', live \cup iters, begin)
<1>1. /\ caller' = caller \ {g.elem} /\ live' = live /\ iters' = iters /\ begin' = begin
      /\ leaked' = leaked /\ val' = g.vals /\ call' = [call EXCEPT !.made = @ + 1]
  BY DEF Take, ivars
<1>2. call \in Calls /\ SourceOK(call, store, caller, live \cup iters, begin)
  BY DEF CInv
<1>3. call.made + 1 \in 0 .. MaxCap
  BY CallTypes
<1>4. /\ call' \in Calls /\ call'.how = call.how /\ call'.give = call.give
      /\ call'.open = call.open /\ call'.vec = call.vec /\ call'.src = call.src
      /\ call'.at = call.at /\ call'.n = call.n /\ call'.base = call.base
      /\ call'.made = call.made + 1 /\ call'.value = call.value
  BY <1>1, <1>2, <1>3 DEF Calls
<1>5. /\ g.vals \in [Elems -> Elems]
      /\ call.give = "repeat" /\ call.made + 1 < call.n => call.value \in caller \ {g.elem}
  BY GivenFacts
<1>6. SourceOK(call', store', caller', live \cup iters, begin)
  BY <1>1, <1>2, <1>4, <1>5 DEF SourceOK
<1> QED BY <1>1, <1>4, <1>5, <1>6

LEMMA PushStepKeeps ==
  ASSUME CInv, PushStep
  PROVE  CInv' /\ Only(store, store', v)
<1>1. PICK g \in Given : Push(v) /\ Take(g)
  BY DEF PushStep
<1>2. call.how = "push" /\ Due /\ Calling
  BY DEF PushStep, Calling
<1>3. /\ Data(store, caller, dropped, live, iters, begin, leaked, {}) /\ leaked \subseteq Elems
      /\ SourceOK(call, store, caller, live \cup iters, begin)
      /\ TargetOK(call, store, live, Apart)
  BY <1>2, ApartEmpty DEF CInv
<1>4. /\ v \in live \cap SmallVecs /\ LenOf(store, v) = call.base + call.made
      /\ ~call.open => call.made <= call.n
  BY <1>2, <1>3 DEF TargetOK, v
<1>5. /\ Data(store', caller', dropped', live', iters, begin, leaked, {})
      /\ Only(store, store', v) /\ LenOf(store', v) = LenOf(store, v) + 1 /\ live' = live
  BY <1>1, <1>3, PushData
<1>6. call.made < MaxCap
  <2>1. v \in Handles \ iters
    BY <1>3, <1>4, DataFacts
  <2>2. LenOf(store', v) \in 0 .. MaxCap
    BY <1>5, <2>1, DataVector
  <2> QED BY <1>4, <1>5, <2>2, CallTypes
<1>7. call.give = "clone" => LenOf(store', call.src) = LenOf(store, call.src)
  <2>1. ASSUME call.give = "clone"
        PROVE  call.src \in Handles \ {v}
    <3>1. call.src \in Handles /\ call.src # call.vec
      BY <1>2, <1>3, <2>1, CallTypes DEF SourceOK
    <3> QED BY <3>1 DEF v
  <2> QED BY <1>5, <2>1, UntouchedStays DEF Only, Spares
<1>8. /\ call' \in Calls /\ call'.how = "push" /\ call'.open = call.open /\ call'.vec = v
      /\ call'.n = call.n /\ call'.base = call.base /\ call'.made = call.made + 1
      /\ iters' = iters /\ begin' = begin /\ leaked' = leaked /\ val' \in [Elems -> Elems]
      /\ SourceOK(call', store', caller', live \cup iters, begin)
  <2>1. v = call.vec
    BY DEF v
  <2> QED BY <1>1, <1>2, <1>6, <1>7, <2>1, MadeMore
<1>9. Apart' = {}
  BY <1>8 DEF Apart, Guarded
<1>10. TargetOK(call', store', live, {})
  <2>1. ~call.open => call.made + 1 <= call.n
    BY <1>2, CallTypes DEF Due
  <2>2. LenOf(store', v) = call.base + (call.made + 1)
    BY <1>4, <1>5, CallTypes
  <2> QED BY <1>4, <1>8, <2>1, <2>2 DEF TargetOK
<1> QED BY <1>3, <1>5, <1>8, <1>9, <1>10 DEF CInv, Calling
(* One cell written is the cells written, the length stays.                *)
LEMMA ItemRewrite ==
  ASSUME NEW s \in Storage, NEW h \in Handles, NEW i, NEW e
  PROVE  [s EXCEPT !.mem[AsPtr(s, h)][i] = e] = Edited(s, h, PutAt(Cells(s, h), i, e), LenOf(s, h))
<1> DEFINE cells == [s.mem[AsPtr(s, h)] EXCEPT ![i] = e]
<1>1. [s EXCEPT !.mem[AsPtr(s, h)][i] = e] = [s EXCEPT !.mem[AsPtr(s, h)] = cells]
  OBVIOUS
<1>2. cells = PutAt(Cells(s, h), i, e)
  BY DEF PutAt, Cells
<1> HIDE DEF cells
<1>3. [s EXCEPT !.mem[AsPtr(s, h)] = cells] = Edited(s, h, cells, LenOf(s, h))
  BY CellsRewrite
<1> QED BY <1>1, <1>2, <1>3

(* A length that is not written is kept.                                   *)
LEMMA OnlyLength ==
  ASSUME NEW s, NEW g, NEW h, Only(s, g, h), LenOf(g, h) = LenOf(s, h)
  PROVE  \A k \in Handles : LenOf(g, k) = LenOf(s, k)
<1>1. OnlyTouches(s, g, {h})
  BY DEF Only, Spares
<1>2. ASSUME NEW k \in Handles, k # h
      PROVE  LenOf(g, k) = LenOf(s, k)
  BY <1>1, <1>2, UntouchedStays
<1> QED BY <1>2

LEMMA GuardStepKeeps ==
  ASSUME CInv, GuardStep
  PROVE  CInv' /\ Only(store, store', v)
<1> DEFINE src == Cells(store, v)
           b == call.base
           n == LenOf(store, v)
           cap == Capacity(store, v)
           i == call.base + call.made
           j == i + 1
           O == Owned(store, v)
           A == Apart
<1>1. PICK g \in Given : /\ Take(g) /\ dropped' = dropped
                         /\ store' = [store EXCEPT !.mem[AsPtr(store, v)][call.base + call.made] = g.elem]
  BY DEF GuardStep
<1> DEFINE e == g.elem
           cells == PutAt(src, i, e)
           X == A \cup {e}
           c == caller \ {e}
           W == O \cup caller \cup dropped \cup A
<1>2. call.how = "guard" /\ Due /\ Calling /\ v = call.vec
  BY DEF GuardStep, Calling, v
<1>3. /\ Data(store, caller, dropped, live, iters, begin, leaked, A) /\ leaked \subseteq Elems
      /\ TargetOK(call, store, live, A)
  BY <1>2 DEF CInv
<1>4. v \in live \cap SmallVecs /\ n = b /\ b + call.n <= cap /\ Holds(src, b, i, A)
  BY <1>2, <1>3 DEF TargetOK
<1>5. call.made < call.n /\ b \in Nat /\ i \in Nat /\ b <= i /\ i < b + call.n /\ j = i + 1
  BY <1>2, CallTypes DEF Due
<1>6. /\ v \in Handles \ iters /\ caller \cap (dropped \cup A) = {} /\ dropped \cap A = {}
      /\ caller \subseteq Elems
  BY <1>3, <1>4, DataFacts
<1>7. /\ cap \in Nat /\ cap <= MaxCap /\ src \in Block /\ FitIn(src, cap) /\ Holds(src, 0, n, O)
      /\ O \cap (caller \cup dropped \cup A) = {} /\ MaxCap \in Nat
  BY <1>3, <1>6, DataVector, RawAssumption
<1>8. e \in caller
  BY <1>2, GivenFacts
<1>9. store' = Edited(store, v, cells, n)
  BY <1>1, <1>3, <1>6, DataFacts, ItemRewrite
<1>10. i < cap /\ i < MaxCap /\ b \in Int /\ i \in Int /\ j \in Int /\ j <= MaxCap
  BY <1>4, <1>5, <1>7, CallTypes
<1> HIDE DEF src, b, n, cap, i, j, O, A, e
<1>11. cells \in Block /\ FitIn(cells, cap) /\ cells[i] = e
  <2>1. cells \in Block /\ FitIn(cells, cap)
    BY <1>5, <1>6, <1>7, <1>8, <1>10, PutType
  <2>2. i \in DOMAIN src
    BY <1>5, <1>7, <1>10 DEF Block, Slots
  <2> QED BY <2>1, <2>2 DEF PutAt
<1>12. Holds(cells, 0, n, O)
  <2>1. 0 \in Nat /\ n \in Int /\ n <= MaxCap /\ n <= i
    BY <1>4, <1>5, <1>7, <1>10
  <2> QED BY <1>5, <1>7, <2>1, PutHolds
<1>13. Holds(cells, b, j, X)
  <2>1. Holds(cells, b, i, A)
    <3>1. i <= MaxCap /\ i <= i
      BY <1>5, <1>7, <1>10
    <3> QED BY <1>4, <1>5, <1>7, <1>10, <3>1, PutHolds
  <2> HIDE DEF cells
  <2>2. Holds(cells, i, j, {e})
    BY <1>5, <1>10, <1>11, HoldsOne
  <2>3. A \cap {e} = {} /\ i <= j
    BY <1>5, <1>6, <1>8
  <2> QED BY <1>5, <1>10, <2>1, <2>2, <2>3, HoldsJoin
<1>14. Lays(store, v, cells, n, O)
  BY <1>4, <1>5, <1>7, <1>10, <1>11, <1>12 DEF Lays, cap
<1>15. Splits(W, O, c, dropped, X) /\ W = Owned(store, v) \cup caller \cup dropped \cup A
  BY <1>6, <1>7, <1>8 DEF Splits, O
<1>16. c = caller \ {e} /\ X = A \cup {e}
  OBVIOUS
<1> HIDE DEF cells, X, c, W
<1>17. /\ Data(store', c, dropped, live, iters, begin, leaked, X) /\ Only(store, store', v)
       /\ LenOf(store', v) = n /\ Cells(store', v) = cells /\ Capacity(store', v) = cap
  BY <1>3, <1>4, <1>9, <1>14, <1>15, DataWrite DEF cap
<1>18. /\ call' \in Calls /\ call'.how = "guard" /\ call'.vec = v /\ v' = v
       /\ call'.n = call.n /\ call'.base = b /\ call'.made = call.made + 1 /\ live' = live
       /\ iters' = iters /\ begin' = begin /\ leaked' = leaked /\ val' \in [Elems -> Elems]
       /\ caller' = c /\ SourceOK(call', store', caller', live \cup iters, begin)
  <2>1. call.made < MaxCap
    BY <1>5, <1>10, CallTypes DEF i
  <2>2. LenOf(store', call.src) = LenOf(store, call.src)
    BY <1>17, CallTypes, OnlyLength DEF n
  <2> QED BY <1>1, <1>2, <1>16, <2>1, <2>2, MadeMore DEF e, b, v
<1>19. Apart' = X
  <2> DEFINE R == b .. j - 1
  <2>1. Guarded' = R
    BY <1>5, <1>18, CallTypes DEF Guarded, i, b
  <2> HIDE DEF R
  <2>2. Apart' = {cells[k] : k \in R}
    BY <1>17, <1>18, <2>1 DEF Apart, Item
  <2>3. X = ItemsFrom(cells, b, j)
    BY <1>13, HoldsItems
  <2> QED BY <2>2, <2>3 DEF ItemsFrom, R
<1>20. TargetOK(call', store', live, X)
  <2>1. call'.made <= call'.n /\ call'.base + call'.made = j
    BY <1>5, <1>18, CallTypes DEF i, b
  <2>2. call'.base + call'.n <= Capacity(store', call'.vec) /\ LenOf(store', call'.vec) = call'.base
    BY <1>4, <1>17, <1>18
  <2>3. Holds(Cells(store', call'.vec), call'.base, j, X)
    BY <1>13, <1>17, <1>18
  <2> QED BY <1>4, <1>18, <2>1, <2>2, <2>3 DEF TargetOK
<1>21. dropped' = dropped
  BY <1>1
<1> QED BY <1>3, <1>17, <1>18, <1>19, <1>20, <1>21 DEF CInv, Calling
(* One cell gets another element.                                          *)
LEMMA PutReplaces ==
  ASSUME NEW src \in Block, NEW n \in Nat, n <= MaxCap, NEW i \in Nat, i < n,
         NEW O, Holds(src, 0, n, O), NEW e, e \notin O,
         NEW Z, Z = (O \ {src[i]}) \cup {e}
  PROVE  Holds(PutAt(src, i, e), 0, n, Z)
<1> DEFINE cells == PutAt(src, i, e)
<1>1. \A j \in 0 .. n - 1 : cells[j] = IF j = i THEN e ELSE src[j]
  <2>1. \A j \in 0 .. n - 1 : j \in DOMAIN src
    BY RawAssumption DEF Block, Slots
  <2> QED BY <2>1 DEF PutAt
<1>2. i \in 0 .. n - 1
  OBVIOUS
<1> HIDE DEF cells
<1>3. /\ \A j \in 0 .. n - 1 : src[j] \in O
      /\ \A j, k \in 0 .. n - 1 : src[j] = src[k] => j = k
      /\ \A x \in O : \E j \in 0 .. n - 1 : src[j] = x
  BY DEF Holds
<1>4. ASSUME NEW j \in 0 .. n - 1
      PROVE  cells[j] \in Z
  BY <1>1, <1>2, <1>3
<1>5. ASSUME NEW j \in 0 .. n - 1, NEW k \in 0 .. n - 1, cells[j] = cells[k]
      PROVE  j = k
  BY <1>1, <1>2, <1>3, <1>5
<1>6. ASSUME NEW x \in Z
      PROVE  \E j \in 0 .. n - 1 : cells[j] = x
  <2>1. CASE x = e
    BY <1>1, <1>2, <2>1
  <2>2. CASE x \in O /\ x # src[i]
    <3>1. PICK j \in 0 .. n - 1 : src[j] = x
      BY <1>3, <2>2
    <3>2. cells[j] = x
      BY <1>1, <2>2, <3>1
    <3> QED BY <3>2
  <2> QED BY <2>1, <2>2
<1> QED BY <1>4, <1>5, <1>6 DEF Holds, cells

LEMMA AssignStepKeeps ==
  ASSUME CInv, AssignStep
  PROVE  CInv' /\ Only(store, store', v)
<1> DEFINE src == Cells(store, v)
           n == LenOf(store, v)
           cap == Capacity(store, v)
           i == call.made
           O == Owned(store, v)
           old == Item(store, v, call.made)
           D == dropped \cup {Item(store, v, call.made)}
           W == O \cup caller \cup dropped \cup {}
<1>1. PICK g \in Given : /\ Take(g) /\ dropped' = D
                         /\ store' = [store EXCEPT !.mem[AsPtr(store, v)][call.made] = g.elem]
  BY DEF AssignStep
<1> DEFINE e == g.elem
           cells == PutAt(src, i, e)
           Z == (O \ {src[i]}) \cup {e}
           c == caller \ {e}
<1>2. call.how = "assign" /\ Due /\ Calling /\ v = call.vec
  BY DEF AssignStep, Calling, v
<1>3. /\ Data(store, caller, dropped, live, iters, begin, leaked, {}) /\ leaked \subseteq Elems
      /\ TargetOK(call, store, live, Apart)
  BY <1>2, ApartEmpty DEF CInv
<1>4. v \in live \cap SmallVecs /\ n = call.n /\ call.give = "clone" /\ call.src \in live
  BY <1>2, <1>3 DEF TargetOK
<1>5. i < n /\ i \in Nat /\ n \in Nat
  BY <1>2, <1>4, CallTypes DEF Due
<1>6. /\ v \in Handles \ iters /\ caller \cap dropped = {} /\ caller \subseteq Elems
  BY <1>3, <1>4, DataFacts
<1>7. /\ cap \in Nat /\ cap <= MaxCap /\ src \in Block /\ FitIn(src, cap) /\ Holds(src, 0, n, O)
      /\ O \cap (caller \cup dropped) = {} /\ MaxCap \in Nat /\ n <= cap
  BY <1>3, <1>6, DataVector, RawAssumption
<1>8. e \in caller /\ e \in Elems /\ e \notin O
  BY <1>2, <1>6, <1>7, GivenFacts
<1>9. store' = Edited(store, v, cells, n)
  BY <1>1, <1>3, <1>6, DataFacts, ItemRewrite
<1>10. old = src[i] /\ old \in O
  <2>1. i \in 0 .. n - 1
    BY <1>5
  <2> QED BY <1>7, <2>1 DEF Holds, Item
<1>11. c = caller \ {e} /\ Z = (O \ {src[i]}) \cup {e} /\ D = dropped \cup {old}
  OBVIOUS
<1> HIDE DEF src, n, cap, i, O, e, old, D, Z, c
<1>12. cells \in Block /\ FitIn(cells, cap)
  <2>1. i < cap
    BY <1>5, <1>7
  <2> QED BY <1>5, <1>7, <1>8, <2>1, PutType
<1>13. Holds(cells, 0, n, Z)
  <2>1. n <= MaxCap
    BY <1>5, <1>7
  <2> QED BY <1>5, <1>7, <1>8, <1>11, <2>1, PutReplaces
<1>14. Lays(store, v, cells, n, Z)
  BY <1>5, <1>7, <1>12, <1>13 DEF Lays, cap
<1>15. Splits(W, Z, c, D, {}) /\ W = Owned(store, v) \cup caller \cup dropped \cup {}
  BY <1>6, <1>7, <1>8, <1>10, <1>11 DEF Splits, O
<1> HIDE DEF cells, W
<1>16. /\ Data(store', c, D, live, iters, begin, leaked, {}) /\ Only(store, store', v)
       /\ LenOf(store', v) = n
  BY <1>3, <1>4, <1>9, <1>14, <1>15, DataWrite
<1>17. /\ call' \in Calls /\ call'.how = "assign" /\ call'.give = "clone" /\ call'.src = call.src
       /\ call'.vec = v /\ call'.n = call.n /\ call'.made = call.made + 1 /\ live' = live
       /\ iters' = iters /\ begin' = begin /\ leaked' = leaked /\ val' \in [Elems -> Elems]
       /\ caller' = c /\ SourceOK(call', store', caller', live \cup iters, begin)
  <2>1. call.made < MaxCap
    BY <1>5, <1>7, CallTypes DEF i
  <2>2. LenOf(store', call.src) = LenOf(store, call.src)
    BY <1>16, CallTypes, OnlyLength DEF n
  <2> QED BY <1>1, <1>2, <1>4, <1>11, <2>1, <2>2, MadeMore DEF e
<1>18. Apart' = {}
  BY <1>17 DEF Apart, Guarded
<1>19. TargetOK(call', store', live, {})
  <2>1. call'.made <= call'.n
    BY <1>4, <1>5, <1>17 DEF i
  <2> QED BY <1>4, <1>16, <1>17, <2>1 DEF TargetOK
<1> QED BY <1>1, <1>3, <1>16, <1>17, <1>18, <1>19 DEF CInv, Calling
(* The call has ended, and nothing is set aside.                           *)
LEMMA Ended ==
  ASSUME CInv, EndCall, leaked' = leaked,
         Data(store', caller', dropped', live', iters', begin', leaked', {})
  PROVE  CInv'
<1>1. call' = NoCall /\ val' = OwnValues
  BY DEF EndCall
<1>2. call' \in Calls /\ ~Calling' /\ call'.n = 0
  BY <1>1, NoCallFields DEF Calling
<1>3. OwnValues \in [Elems -> Elems]
  BY DEF OwnValues
<1>4. leaked' \subseteq Elems
  BY DEF CInv
<1> QED BY <1>1, <1>2, <1>3, <1>4, QuietStep

LEMMA EndsQuietly ==
  ASSUME CInv, PushEnds \/ AssignTailPanics \/ CopyEnds
  PROVE  CInv'
<1>1. UNCHANGED vars /\ UNCHANGED ivars /\ EndCall /\ call.how # "guard"
  BY DEF PushEnds, AssignTailPanics, CopyEnds
<1>2. Data(store, caller, dropped, live, iters, begin, leaked, {})
  BY <1>1, ApartEmpty DEF CInv
<1>3. /\ store' = store /\ caller' = caller /\ dropped' = dropped /\ live' = live
      /\ iters' = iters /\ begin' = begin /\ leaked' = leaked
  BY <1>1 DEF vars, ivars
<1> QED BY <1>1, <1>2, <1>3, Ended

(* An address the vector of a handle has.                                  *)
LEMMA AddressType ==
  ASSUME NEW s, NEW c, NEW d, NEW l, NEW I, NEW b, NEW E, NEW X, Data(s, c, d, l, I, b, E, X),
         NEW h \in Handles
  PROVE  AsPtr(s, h) \in Handles \cup Ptrs
<1>1. Sound(Mask(s, I)) /\ s \in Storage
  BY DataFacts
<1>2. AsPtr(Mask(s, I), h) \in Handles \cup Ptrs
  BY <1>1, SoundLen DEF Sound
<1> QED BY <1>1, <1>2, MaskFacts

LEMMA GuardEndsKeeps ==
  ASSUME CInv, GuardEnds
  PROVE  CInv' /\ Only(store, store', v)
<1> DEFINE cells == Cells(store, v)
           b == call.base
           n == LenOf(store, v)
           m == call.base + call.n
           O == Owned(store, v)
           A == Apart
           F == {call.value} \cap caller
           c == caller \ F
           D == dropped \cup F
           Z == O \cup A
           W == O \cup caller \cup dropped \cup A
<1>1. /\ store' = SetLen(store, v, m) /\ caller' = c /\ dropped' = D /\ EndCall
      /\ live' = live /\ iters' = iters /\ begin' = begin /\ leaked' = leaked
  BY DEF GuardEnds, ivars
<1>2. call.how = "guard" /\ ~Due /\ Calling /\ v = call.vec
  BY DEF GuardEnds, Calling, v
<1>3. /\ Data(store, caller, dropped, live, iters, begin, leaked, A)
      /\ TargetOK(call, store, live, A)
  BY <1>2 DEF CInv
<1>4. /\ v \in live \cap SmallVecs /\ n = b /\ call.made <= call.n /\ m <= Capacity(store, v)
      /\ Holds(cells, b, b + call.made, A)
  BY <1>2, <1>3 DEF TargetOK
<1>5. b \in Nat /\ m \in Nat /\ b <= m /\ b + call.made = m
  BY <1>2, <1>4, CallTypes DEF Due
<1>6. v \in Handles \ iters /\ caller \cap (dropped \cup A) = {} /\ dropped \cap A = {}
  BY <1>3, <1>4, DataFacts
<1>7. /\ cells \in Block /\ FitIn(cells, Capacity(store, v)) /\ Holds(cells, 0, n, O)
      /\ O \cap (caller \cup dropped \cup A) = {}
  BY <1>3, <1>6, DataVector
<1>8. store' = Edited(store, v, cells, m)
  <2>1. AsPtr(store, v) \in Handles \cup Ptrs /\ store \in Storage
    BY <1>3, <1>6, AddressType, DataFacts
  <2> QED BY <1>1, <1>6, <2>1, SetLenRewrites
<1> HIDE DEF cells, b, n, m, O, A, F
<1>9. Holds(cells, 0, m, Z)
  <2>1. 0 \in Int /\ b \in Int /\ m \in Int /\ 0 <= b /\ O \cap A = {}
    BY <1>5, <1>7
  <2>2. Holds(cells, b, m, A) /\ Holds(cells, 0, b, O)
    BY <1>4, <1>5, <1>7
  <2> QED BY <1>5, <2>1, <2>2, HoldsJoin
<1>10. Lays(store, v, cells, m, Z)
  BY <1>4, <1>5, <1>7, <1>9 DEF Lays
<1>11. F \subseteq caller
  BY DEF F
<1>12. Splits(W, Z, c, D, {}) /\ W = Owned(store, v) \cup caller \cup dropped \cup A
  BY <1>6, <1>7, <1>11 DEF Splits, O
<1> HIDE DEF c, D, Z, W
<1>13. Data(store', c, D, live, iters, begin, leaked, {}) /\ Only(store, store', v)
  BY <1>3, <1>4, <1>8, <1>10, <1>12, DataWrite
<1> QED BY <1>1, <1>13, Ended

(* The program keeps what it still holds, and the guarded cells are empty. *)
LEMMA UnwindsKeeps ==
  ASSUME CInv, Calling, NEW F \in SUBSET caller, Unwinds(F)
  PROVE  CInv' /\ Only(store, store', v)
<1> DEFINE src == Cells(store, v)
           n == LenOf(store, v)
           cap == Capacity(store, v)
           O == Owned(store, v)
           A == Apart
           lost == ({call.value} \cap caller) \cup F
           c == caller \ lost
           D == dropped \cup lost \cup A
           W == O \cup caller \cup dropped \cup A
           cells == [i \in Slots |-> IF i \in Guarded THEN Uninit ELSE src[i]]
           kept == [store EXCEPT !.mem[AsPtr(store, v)] = cells]
<1>1. /\ caller' = c /\ EndCall /\ iters' = iters /\ begin' = begin /\ leaked' = leaked
      /\ IF call.fresh
         THEN store' = Released(kept, v) /\ live' = live \ {v} /\ dropped' = D \cup O
         ELSE store' = kept /\ live' = live /\ dropped' = D
  BY DEF Unwinds, ivars, Apart, Cells
<1>2. call.how \in {"push", "guard", "assign"} /\ v = call.vec
  BY DEF Calling, v
<1>3. /\ Data(store, caller, dropped, live, iters, begin, leaked, A)
      /\ TargetOK(call, store, live, A)
  BY DEF CInv
<1>4. v \in live
  BY <1>2, <1>3 DEF TargetOK
<1>5. \A i \in Guarded : i \in Int /\ i >= n
  <2>1. CASE call.how = "guard"
    <3>1. n = call.base
      BY <1>2, <1>3, <2>1 DEF TargetOK
    <3>2. Guarded = call.base .. call.base + call.made - 1
      BY <2>1 DEF Guarded
    <3> QED BY <3>1, <3>2, CallTypes
  <2>2. CASE call.how # "guard"
    BY <2>2 DEF Guarded
  <2> QED BY <2>1, <2>2
<1>6. v \in Handles \ iters /\ caller \cap (dropped \cup A) = {} /\ dropped \cap A = {}
  BY <1>3, <1>4, DataFacts
<1>7. /\ src \in Block /\ FitIn(src, cap) /\ Holds(src, 0, n, O) /\ n \in Nat /\ n <= cap
      /\ cap \in Nat /\ cap <= MaxCap /\ MaxCap \in Nat /\ O \cap (caller \cup dropped \cup A) = {}
  BY <1>3, <1>6, DataVector, RawAssumption
<1>8. kept = Edited(store, v, cells, n)
  <2> HIDE DEF cells
  <2>1. store \in Storage
    BY <1>3, DataFacts
  <2> QED BY <1>6, <2>1, CellsRewrite
<1> HIDE DEF src, n, cap, O, A, kept
<1>9. cells \in Block /\ FitIn(cells, cap)
  BY <1>7 DEF Block, Cell, FitIn
<1>10. Holds(cells, 0, n, O)
  <2>1. \A i \in 0 .. n - 1 : i \in Slots /\ i \notin Guarded
    BY <1>5, <1>7 DEF Slots
  <2>2. \A i \in 0 .. n - 1 : cells[i] = src[i]
    BY <2>1
  <2> HIDE DEF cells
  <2>3. 0 \in Int /\ n \in Int
    BY <1>7
  <2> QED BY <1>7, <2>2, <2>3, HoldsSame
<1> HIDE DEF cells
<1>11. Lays(store, v, cells, n, O)
  BY <1>7, <1>9, <1>10 DEF Lays, cap
<1>12. lost \subseteq caller
  OBVIOUS
<1> HIDE DEF lost
<1>13. Splits(W, O, c, D, {}) /\ W = Owned(store, v) \cup caller \cup dropped \cup A
  BY <1>6, <1>7, <1>12 DEF Splits, O
<1> HIDE DEF c, D, W
<1>14. /\ Data(kept, c, D, live, iters, begin, leaked, {}) /\ LenOf(kept, v) = n
       /\ Cells(kept, v) = cells /\ Only(store, kept, v)
  BY <1>3, <1>4, <1>8, <1>11, <1>13, DataWrite
<1>15. Owned(kept, v) = O
  BY <1>10, <1>14, OwnedHolds
<1>16. CASE call.fresh
  <2>1. store' = Released(kept, v) /\ live' = live \ {v} /\ dropped' = D \cup Owned(kept, v)
    BY <1>1, <1>15, <1>16
  <2>2. Data(store', c, dropped', live', iters, begin, leaked, {}) /\ Only(kept, store', v)
    BY <1>4, <1>14, <2>1, DataClose
  <2>3. Only(store, store', v)
    BY <1>14, <2>2, OnlyCompose
  <2> QED BY <1>1, <2>2, <2>3, Ended
<1>17. CASE ~call.fresh
  <2>1. store' = kept /\ live' = live /\ dropped' = D
    BY <1>1, <1>17
  <2> QED BY <1>1, <1>14, <2>1, Ended
<1> QED BY <1>16, <1>17

LEMMA PanicsKeep ==
  ASSUME CInv, UserPanics \/ PushOverflows
  PROVE  CInv' /\ Only(store, store', v)
<1>1. CASE UserPanics
  <2>1. ~Idle /\ Due /\ Unwinds({})
    BY <1>1 DEF UserPanics
  <2>2. Calling
    <3>1. call.made < call.n \/ call.how = "push"
      BY <2>1 DEF Due
    <3> QED BY <3>1, CallTypes DEF CInv, Calling
  <2> QED BY <2>1, <2>2, UnwindsKeeps
<1>2. CASE PushOverflows
  <2>1. PICK e \in caller : Unwinds({e})
    BY <1>2 DEF PushOverflows
  <2>2. Calling
    BY <1>2 DEF PushOverflows, Calling
  <2> DEFINE F == {e}
  <2>3. F \in SUBSET caller /\ Unwinds(F)
    BY <2>1
  <2> HIDE DEF F
  <2> QED BY <2>2, <2>3, UnwindsKeeps
<1> QED BY <1>1, <1>2
(* clone_from has overwritten what there was, and goes on as extend does.  *)
LEMMA AssignTailKeeps ==
  ASSUME CInv, AssignTail
  PROVE  CInv' /\ Only(store, store', v)
<1> DEFINE n == call.n
           k == call.src
           rest == LenOf(store, call.src) - call.n
<1>1. PICK how \in Ways, s \in Reserve(store, v, rest) :
        /\ store' = s
        /\ call' = [Cloning(how, k, n, rest) EXCEPT !.vec = v, !.base = n]
  BY DEF AssignTail
<1>2. /\ live' = live /\ caller' = caller /\ dropped' = dropped /\ val' = val
      /\ iters' = iters /\ begin' = begin /\ leaked' = leaked
  BY DEF AssignTail, ivars
<1>3. call.how = "assign" /\ Calling /\ v = call.vec
  BY DEF AssignTail, Calling, v
<1>4. /\ Data(store, caller, dropped, live, iters, begin, leaked, {}) /\ leaked \subseteq Elems
      /\ TargetOK(call, store, live, Apart) /\ val \in [Elems -> Elems]
      /\ SourceOK(call, store, caller, live \cup iters, begin)
  BY <1>3, ApartEmpty DEF CInv
<1>5. /\ v \in live \cap SmallVecs /\ LenOf(store, v) = n /\ call.give = "clone" /\ k \in live
      /\ k # v /\ call.at + n <= LenOf(store, k)
  BY <1>3, <1>4 DEF TargetOK, SourceOK
<1>6. /\ v \in Handles \ iters /\ k \in Handles \ iters /\ LenOf(store, k) \in Nat
      /\ LenOf(store, k) <= MaxCap /\ begin[k] = 0 /\ LenOf(store, v) <= MaxCap
  <2>1. v \in live /\ k \in live
    BY <1>5
  <2> HIDE DEF k
  <2> QED BY <1>4, <2>1, LengthType
<1>7. n \in Nat /\ rest \in Nat /\ rest <= MaxCap /\ n <= MaxCap /\ MaxCap \in Nat
      /\ n + rest = LenOf(store, k)
  BY <1>5, <1>6, CallTypes
<1> HIDE DEF n, k, rest
<1>8. /\ Data(s, caller, dropped, live, iters, begin, leaked, {}) /\ Only(store, s, v)
      /\ LenOf(s, v) = n /\ Capacity(s, v) >= n + rest
  <2>1. v \in live
    BY <1>5
  <2> QED BY <1>4, <1>5, <1>7, <2>1, DataReserve
<1>9. LenOf(s, k) = LenOf(store, k)
  BY <1>5, <1>6, <1>8, OnlyLength
<1> DEFINE c == Cloning(how, k, n, rest)
<1>10. /\ c \in Calls /\ c.how = how /\ c.give = "clone" /\ c.src = k /\ c.at = n
       /\ c.n = rest /\ c.made = 0 /\ ~c.open
  <2>1. how \in {"push", "guard", "assign"} /\ n \in 0 .. MaxCap /\ rest \in 0 .. MaxCap + 1
    BY <1>7 DEF Ways
  <2> QED BY <1>6, <2>1, CloningFields
<1> HIDE DEF c
<1>11. /\ call' \in Calls /\ call'.how = how /\ call'.give = "clone" /\ call'.src = k
       /\ call'.at = n /\ call'.n = rest /\ call'.made = 0 /\ ~call'.open
       /\ call'.vec = v /\ call'.base = n
  <2>1. n \in 0 .. MaxCap /\ v \in Handles /\ call' = [c EXCEPT !.vec = v, !.base = n]
    BY <1>1, <1>6, <1>7 DEF c
  <2> QED BY <1>10, <2>1 DEF Calls
<1>12. SourceOK(call', s, caller, live \cup iters, begin)
  <2>1. begin[k] <= n /\ n + rest <= LenOf(s, k)
    BY <1>6, <1>7, <1>9
  <2> QED BY <1>5, <1>11, <2>1 DEF SourceOK
<1>13. Apart' = {}
  <2>1. n .. n + 0 - 1 = {}
    BY <1>7
  <2>2. Guarded' = {}
    BY <1>11, <2>1 DEF Guarded
  <2> QED BY <2>2 DEF Apart
<1>14. TargetOK(call', s, live, {})
  <2>1. n + 0 = n /\ 0 <= rest /\ how \in {"push", "guard"}
    BY <1>7 DEF Ways
  <2>2. Holds(Cells(s, v), n, n, {})
    BY <1>7, HoldsEmpty
  <2> QED BY <1>5, <1>8, <1>11, <2>1, <2>2 DEF TargetOK
<1>15. Calling'
  BY <1>11 DEF Ways, Calling
<1> QED BY <1>1, <1>2, <1>4, <1>8, <1>11, <1>12, <1>13, <1>14, <1>15 DEF CInv

LEMMA CloneStepKeeps ==
  ASSUME CInv, CloneStep
  PROVE  CInv'
<1>1. CASE PushStep \/ GuardStep \/ AssignStep
  BY <1>1, PushStepKeeps, GuardStepKeeps, AssignStepKeeps
<1>2. CASE AssignTail \/ AssignTailPanics \/ PushEnds \/ GuardEnds
  BY <1>2, AssignTailKeeps, EndsQuietly, GuardEndsKeeps
<1>3. CASE UserPanics \/ PushOverflows
  BY <1>3, PanicsKeep
<1> QED BY <1>1, <1>2, <1>3 DEF CloneStep
----------------------------------------------------------------------------
(* Moves in bulk.                                                          *)

(* An array of the program's is written behind the others.                 *)
LEMMA ArrayAppended ==
  ASSUME CInv, Idle, NEW h \in live, NEW n \in Nat, NEW f \in Arrays(n), NEW s,
         Data(s, caller, dropped, live, iters, begin, leaked, {}),
         Only(store, s, h), n <= Capacity(s, h) - LenOf(s, h),
         store' = Edited(s, h, Copy(Filled(f, n), 0, Cells(s, h), LenOf(s, h), n), LenOf(s, h) + n),
         caller' = caller \ Taken(f, n), UNCHANGED <<live, dropped, ivars, cvars>>
  PROVE  CInv' /\ ItersStand
<1> DEFINE m == LenOf(s, h) + n
           c == caller \ Taken(f, n)
           Y == Taken(f, n)
           src == Filled(f, n)
           to == 0 + n
<1>1. caller \subseteq Elems /\ h \in Handles \ iters /\ MaxCap \in Nat
  BY DataFacts, RawAssumption
<1>2. /\ LenOf(s, h) \in Nat /\ Capacity(s, h) \in Nat /\ Capacity(s, h) <= MaxCap
  BY <1>1, DataVector
<1>3. n <= MaxCap /\ m <= Capacity(s, h) /\ to = n
  BY <1>1, <1>2
<1>4. Y \in SUBSET caller /\ src \in Block /\ Holds(src, 0, to, Y)
  BY <1>1, <1>3, ArrayHolds
<1>5. /\ store' = Edited(s, h, Copy(src, 0, Cells(s, h), LenOf(s, h), n), m)
      /\ m = LenOf(s, h) + n /\ c = caller \ Y /\ 0 \in Nat /\ to = 0 + n /\ to <= MaxCap
  BY <1>3
<1> HIDE DEF m, c, Y, src, to
<1>6. Data(store', c, dropped, live, iters, begin, leaked, {}) /\ Only(s, store', h)
  BY <1>3, <1>4, <1>5, DataAppend
<1>7. /\ caller' = c /\ live' = live /\ dropped' = dropped /\ iters' = iters /\ begin' = begin
      /\ leaked' = leaked /\ UNCHANGED cvars
  BY DEF c, Y, ivars
<1>8. leaked' \subseteq Elems
  BY <1>7 DEF CInv
<1>9. ItersStand
  <2>1. Only(store, store', h)
    BY <1>6, OnlyCompose
  <2> QED BY <1>1, <1>7, <2>1, OnlyStands
<1> QED BY <1>6, <1>7, <1>8, <1>9, StillIdle

LEMMA IdleOwn ==
  ASSUME CInv, Idle
  PROVE  /\ Data(store, caller, dropped, live, iters, begin, leaked, {})
         /\ leaked \subseteq Elems /\ val \in [Elems -> Elems] /\ ~Calling
  BY IdleData DEF Idle, Calling

LEMMA ChunkSteps ==
  ASSUME CInv, NEW h, NEW n \in Sizes, NEW m \in Sizes,
         ChunkMut(h) \/ AdvanceMut(h, n) \/ Put(h, n, m)
  PROVE  CInv' /\ ItersStand
<1>1. Idle /\ h \in live
  BY DEF ChunkMut, AdvanceMut, Put, Resize
<1>2. Data(store, caller, dropped, live, iters, begin, leaked, {})
  BY <1>1, IdleOwn
<1>3. n \in Nat /\ m \in Nat /\ ChunkRoom \in Nat
  BY RawAssumption, ChunkAssumption DEF Sizes
<1>4. CASE ChunkMut(h)
  <2>1. \/ store' = store
        \/ store' \in Reserve(store, h, ChunkRoom)
    BY <1>4 DEF ChunkMut, Resize
  <2>2. Data(store', caller, dropped, live, iters, begin, leaked, {})
    BY <1>1, <1>2, <1>3, <2>1, DataReserve
  <2>3. /\ caller' = caller /\ live' = live /\ dropped' = dropped /\ iters' = iters
        /\ begin' = begin /\ leaked' = leaked /\ UNCHANGED cvars
    BY <1>4 DEF ChunkMut, Resize, ivars
  <2>4. leaked' \subseteq Elems
    BY <2>3 DEF CInv
  <2>5. Only(store, store', h)
    <3>1. Shaped(store)
      BY <1>2, DataFacts
    <3> QED BY <1>1, <1>2, <1>3, <2>1, <3>1, DataReserve, OnlyItself
  <2>6. ItersStand
    <3>1. live \cap iters = {}
      BY <1>2, DataFacts
    <3> QED BY <1>1, <2>3, <2>5, <3>1, OnlyStands
  <2> QED BY <1>1, <2>2, <2>3, <2>4, <2>6, StillIdle
<1>5. CASE AdvanceMut(h, n)
  <2>1. PICK f \in Arrays(n) :
          /\ store' = Edited(store, h, Copy(Filled(f, n), 0, Cells(store, h), LenOf(store, h), n),
                             LenOf(store, h) + n)
          /\ caller' = caller \ Taken(f, n)
    BY <1>5 DEF AdvanceMut
  <2>2. n <= Capacity(store, h) - LenOf(store, h) /\ UNCHANGED <<live, dropped, ivars, cvars>>
    BY <1>5 DEF AdvanceMut
  <2>3. Only(store, store, h)
    <3>1. Shaped(store)
      BY <1>2, DataFacts
    <3> QED BY <3>1, OnlyItself
  <2> QED BY <1>1, <1>2, <1>3, <2>1, <2>2, <2>3, ArrayAppended
<1>6. CASE Put(h, n, m)
  <2>1. PICK s \in Reserve(store, h, n), f \in Arrays(m) :
          /\ store' = Edited(s, h, Copy(Filled(f, m), 0, Cells(s, h), LenOf(s, h), m),
                             LenOf(s, h) + m)
          /\ caller' = caller \ Taken(f, m)
    BY <1>6 DEF Put
  <2>2. m <= n /\ UNCHANGED <<live, dropped, ivars, cvars>>
    BY <1>6 DEF Put
  <2>3. /\ Data(s, caller, dropped, live, iters, begin, leaked, {}) /\ Only(store, s, h)
        /\ Capacity(s, h) >= LenOf(s, h) + n
    BY <1>1, <1>2, <1>3, DataReserve
  <2>4. m <= Capacity(s, h) - LenOf(s, h)
    <3>1. LenOf(s, h) \in Nat /\ Capacity(s, h) \in Nat
      BY <1>1, <2>3, LengthType
    <3> QED BY <1>3, <2>2, <2>3, <3>1
  <2> QED BY <1>1, <1>3, <2>1, <2>2, <2>3, <2>4, ArrayAppended
<1> QED BY <1>4, <1>5, <1>6

(* extend with an IntoIter: the items are set aside, given to the vector,  *)
(* and the iterator closes with none.                                      *)
LEMMA ExtendFromIterKeeps ==
  ASSUME CInv, NEW h, NEW k, ExtendFromIter(h, k)
  PROVE  CInv' /\ ItersStand
<1> DEFINE n == LenOf(store, k) - begin[k]
           a == begin[k]
           to == LenOf(store, k)
           len == LenOf(store, h)
<1>1. PICK s \in Reserve(store, h, n) :
        store' = Released(Edited(s, h, Copy(Cells(s, k), a, Cells(s, h), len, n), len + n), k)
  BY DEF ExtendFromIter
<1>2. /\ Idle /\ h \in live /\ k \in iters /\ iters' = iters \ {k}
      /\ begin' = [begin EXCEPT ![k] = 0]
      /\ live' = live /\ caller' = caller /\ dropped' = dropped /\ leaked' = leaked
      /\ UNCHANGED cvars
  BY DEF ExtendFromIter, IterGone
<1>3. /\ Data(store, caller, dropped, live, iters, begin, leaked, {}) /\ leaked \subseteq Elems
  BY <1>2, IdleOwn
<1>4. /\ k \in Handles /\ k \notin live /\ a \in Nat /\ to \in Nat /\ a <= to /\ to <= MaxCap
      /\ MaxCap \in Nat /\ begin \in [Handles -> 0 .. MaxCap]
  BY <1>2, <1>3, IterFacts, RawAssumption
<1>5. n \in Nat /\ to = a + n /\ n \in Int
  BY <1>4
<1>6. h \in Handles /\ h # k
  BY <1>2, <1>3, <1>4, DataFacts
<1> HIDE DEF n, a, to, len
<1>7. /\ Data(s, caller, dropped, live, iters, begin, leaked, {}) /\ Only(store, s, h)
      /\ LenOf(s, h) = len /\ Capacity(s, h) >= len + n
  BY <1>2, <1>3, <1>5, DataReserve DEF len
<1>8. LenOf(s, k) = to
  BY <1>4, <1>6, <1>7, OnlyLength DEF to, len
<1> DEFINE e == MovedTo(begin, k, LenOf(s, k))
           R == {} \cup Rest(s, k, begin)
           c == caller \cup R
<1>9. Data(s, caller, dropped, live, iters, e, leaked, R)
  <2>1. e = MovedTo(begin, k, LenOf(s, k)) /\ R = {} \cup Rest(s, k, begin)
    OBVIOUS
  <2> HIDE DEF e, R
  <2> QED BY <1>2, <1>7, <2>1, IterLetsGo
<1>10. /\ R \cap caller = {} /\ Cells(s, k) \in Block
       /\ Holds(Cells(s, k), a, to, R)
  BY <1>2, <1>7, <1>8, IterFacts DEF a
<1> HIDE DEF e, R
<1>11. Data(s, c, dropped, live, iters, e, leaked, {})
  <2> DEFINE W == caller \cup dropped \cup R
  <2>1. caller \cap (dropped \cup R) = {} /\ dropped \cap R = {}
    BY <1>9, DataFacts
  <2>2. W = caller \cup dropped \cup R /\ Splits(W, {}, c, dropped, {})
    BY <2>1 DEF Splits
  <2> HIDE DEF W, c
  <2> QED BY <1>9, <2>2, DataShare
<1> DEFINE x == Edited(s, h, Copy(Cells(s, k), a, Cells(s, h), len, n), len + n)
           m == len + n
<1>12. Data(x, caller, dropped, live, iters, e, leaked, {}) /\ Only(s, x, h)
  <2>1. /\ x = Edited(s, h, Copy(Cells(s, k), a, Cells(s, h), LenOf(s, h), n), m)
        /\ m = LenOf(s, h) + n /\ caller = c \ R /\ R \in SUBSET c
    BY <1>7, <1>10
  <2>2. m <= Capacity(s, h)
    <3>1. LenOf(s, h) \in Nat /\ Capacity(s, h) \in Nat
      BY <1>2, <1>7, LengthType
    <3> QED BY <1>5, <1>7, <3>1
  <2> HIDE DEF x, m, c
  <2> QED BY <1>2, <1>4, <1>5, <1>10, <1>11, <2>1, <2>2, DataAppend, SMTT(30)
<1> HIDE DEF x, m, c
<1>13. Rest(x, k, e) = {}
  <2>1. LenOf(x, k) = LenOf(s, k)
    <3>1. OnlyTouches(s, x, {h}) /\ k \in Handles \ {h}
      BY <1>4, <1>6, <1>12 DEF Only, Spares
    <3> QED BY <3>1, UntouchedStays
  <2>2. e[k] = LenOf(s, k)
    BY <1>4 DEF e, MovedTo
  <2>3. ItemsFrom(Cells(x, k), e[k], LenOf(x, k)) = {}
    BY <1>4, <1>8, <2>1, <2>2 DEF ItemsFrom
  <2> QED BY <2>3 DEF Rest
<1> DEFINE J == iters \ {k}
           b == MovedTo(e, k, 0)
<1>14. Data(store', caller, dropped, live, J, b, leaked, {}) /\ Only(x, store', k)
  <2>1. J = iters \ {k} /\ b = MovedTo(e, k, 0) /\ store' = Released(x, k)
    BY <1>1 DEF x
  <2> HIDE DEF J, b
  <2> QED BY <1>2, <1>12, <1>13, <2>1, IterCloses
<1>15. begin' = b
  BY <1>2, <1>4 DEF e, MovedTo
<1>16. ItersStand
  <2>1. /\ begin \in [Handles -> 0 .. MaxCap] /\ iters \subseteq Handles /\ h \notin iters
    BY <1>2, <1>3, <1>4, DataFacts
  <2>2. ASSUME NEW j \in iters, j # k
        PROVE  LenOf(store', j) = LenOf(store, j) /\ Cells(store', j) = Cells(store, j)
    <3>1. j \in Handles /\ j # h
      BY <2>1, <2>2
    <3>2. /\ LenOf(s, j) = LenOf(store, j) /\ Cells(s, j) = Cells(store, j)
          /\ LenOf(x, j) = LenOf(s, j) /\ Cells(x, j) = Cells(s, j)
      BY <1>7, <1>12, <3>1, OnlyStays
    <3>3. LenOf(store', j) = LenOf(x, j) /\ Cells(store', j) = Cells(x, j)
      BY <1>14, <2>2, <3>1, OnlyStays
    <3> QED BY <3>2, <3>3
  <2> QED BY <1>2, <2>1, <2>2 DEF ItersStand
<1> QED BY <1>2, <1>3, <1>14, <1>15, <1>16, StillIdle

LEMMA ExtendFromIterFails ==
  ASSUME CInv, NEW h, NEW k, ExtendFromIterPanics(h, k)
  PROVE  CInv' /\ ItersStand
  BY DropIterStep DEF ExtendFromIterPanics
(* A slice of the program's has as many values as asked for.               *)
LEMMA SliceElems ==
  ASSUME CInv, Idle, NEW k, NEW at \in Nat, NEW n \in Nat, Slice(k, at, n), NEW want,
         want = SliceValues(k, at, n)
  PROVE  Len(want) = n /\ \A i \in 1 .. n : want[i] \in Elems
<1> DEFINE items == Items(store, k, at, n)
<1>1. /\ Data(store, caller, dropped, live, iters, begin, leaked, {})
      /\ val \in [Elems -> Elems]
  BY IdleOwn
<1>2. k \in live \cup iters /\ begin[k] <= at /\ at + n <= LenOf(store, k)
  BY DEF Slice
<1>3. k \in Handles /\ begin[k] \in Nat /\ LenOf(store, k) \in Nat
  <2>1. CASE k \in live
    BY <1>1, <2>1, LengthType
  <2>2. CASE k \in iters
    <3>1. begin[k] \in 0 .. MaxCap /\ LenOf(store, k) \in 0 .. MaxCap /\ k \in Handles
      BY <1>1, <2>2, IterFacts
    <3> QED BY <3>1
  <2> QED BY <1>2, <2>1, <2>2
<1>4. ASSUME NEW i \in 1 .. n
      PROVE  Item(store, k, at + i - 1) \in Elems
  <2> DEFINE j == at + i - 1
  <2>1. j \in Nat /\ begin[k] <= j /\ j < LenOf(store, k)
    BY <1>2, <1>3
  <2> HIDE DEF j
  <2>2. Item(store, k, j) \in Elems
    BY <1>1, <1>2, <2>1, SourceItem
  <2> QED BY <2>2 DEF j
<1>5. items = [i \in 1 .. n |-> Item(store, k, at + i - 1)]
  BY DEF Items
<1>6. Len(items) = n /\ \A i \in 1 .. n : items[i] \in Elems
  BY <1>4, <1>5
<1>7. want = [i \in 1 .. Len(items) |-> val[items[i]]]
  BY DEF SliceValues, ValuesOf
<1> HIDE DEF items
<1> QED BY <1>1, <1>6, <1>7

(* The copies have the values wanted, the other elements their own.        *)
LEMMA CopiedType ==
  ASSUME val \in [Elems -> Elems], NEW n \in Nat, NEW want, Len(want) = n,
         \A i \in 1 .. n : want[i] \in Elems, NEW f
  PROVE  CopiedValues(f, want) \in [Elems -> Elems]
<1>1. ASSUME NEW e \in Taken(f, n)
      PROVE  want[1 + (CHOOSE i \in 0 .. n - 1 : f[i] = e)] \in Elems
  <2> DEFINE j == CHOOSE i \in 0 .. n - 1 : f[i] = e
  <2>1. \E i \in 0 .. n - 1 : f[i] = e
    BY <1>1 DEF Taken
  <2>2. j \in 0 .. n - 1
    BY <2>1
  <2> HIDE DEF j
  <2>3. 1 + j \in 1 .. n
    BY <2>2
  <2>4. want[1 + j] \in Elems
    BY <2>3
  <2> QED BY <2>4 DEF j
<1>2. ASSUME NEW e \in Elems
      PROVE  (IF e \in Taken(f, n) THEN want[1 + (CHOOSE i \in 0 .. n - 1 : f[i] = e)]
              ELSE val[e]) \in Elems
  BY <1>1
<1>3. CopiedValues(f, want) =
        [e \in Elems |-> IF e \in Taken(f, n)
                         THEN want[1 + (CHOOSE i \in 0 .. n - 1 : f[i] = e)] ELSE val[e]]
  BY DEF CopiedValues
<1> QED BY <1>2, <1>3

(* Whatever the outcomes are, there is room for the copies in them.        *)
LEMMA CopiesIn ==
  ASSUME CInv, Idle, NEW outcomes, NEW h, NEW index \in 0 .. MaxCap, NEW want,
         CopyIn(outcomes, h, index, want), NEW n \in Nat, Len(want) = n,
         \A i \in 1 .. n : want[i] \in Elems, NEW d, NEW l, h \in l,
         \A s \in outcomes : /\ Data(s, caller, d, l, iters, begin, leaked, {})
                             /\ index <= LenOf(s, h) /\ Capacity(s, h) >= LenOf(s, h) + n
                             /\ Only(store, s, h),
         dropped' = d, live' = l, UNCHANGED ivars
  PROVE  CInv' /\ ItersStand
<1>1. /\ leaked \subseteq Elems /\ val \in [Elems -> Elems]
      /\ iters' = iters /\ begin' = begin /\ leaked' = leaked
  BY IdleOwn DEF ivars
<1>2. PICK s \in outcomes, f \in Arrays(n) :
        /\ store' = Edited(s, h, Copy(Filled(f, n), 0,
                                      Shift(Cells(s, h), index, index + n, LenOf(s, h) - index),
                                      index, n), LenOf(s, h) + n)
        /\ caller' = caller \ Taken(f, n)
        /\ val' = CopiedValues(f, want)
        /\ call' = [NoCall EXCEPT !.how = "copy", !.vec = h, !.base = index]
  BY DEF CopyIn
<1>3. /\ Data(s, caller, d, l, iters, begin, leaked, {}) /\ Only(store, s, h)
      /\ index <= LenOf(s, h) /\ Capacity(s, h) >= LenOf(s, h) + n
  OBVIOUS
<1>4. /\ caller \subseteq Elems /\ h \in Handles /\ LenOf(s, h) \in Nat /\ Capacity(s, h) \in Nat
      /\ Capacity(s, h) <= MaxCap /\ MaxCap \in Nat /\ caller \subseteq Elems
  BY <1>3, LengthType, DataFacts, RawAssumption
<1> DEFINE m == LenOf(s, h) + n
           c == caller \ Taken(f, n)
           Y == Taken(f, n)
           src == Filled(f, n)
           open == Shift(Cells(s, h), index, index + n, LenOf(s, h) - index)
<1>5. Y \in SUBSET caller /\ src \in Block /\ Holds(src, 0, n, Y) /\ n <= MaxCap
  <2>1. n <= MaxCap
    BY <1>3, <1>4
  <2> QED BY <1>4, <2>1, ArrayHolds
<1>6. /\ store' = Edited(s, h, Copy(src, 0, open, index, n), m)
      /\ m = LenOf(s, h) + n /\ m <= Capacity(s, h) /\ c = caller \ Y /\ index \in Nat
      /\ open = Shift(Cells(s, h), index, index + n, LenOf(s, h) - index)
  BY <1>2, <1>3, <1>4
<1>7. caller' = c
  BY <1>2
<1> HIDE DEF m, c, Y, src, open
<1>8. Data(store', c, d, l, iters, begin, leaked, {}) /\ Only(s, store', h)
  <2>1. Data(store', c, d, l, iters, begin, leaked, {})
    BY <1>3, <1>5, <1>6, DataInsert
  <2>2. Only(s, store', h)
    <3> DEFINE x == store'
               E == leaked
               I == iters
               b == begin
               X == {}
    <3>1. /\ Data(s, caller, d, l, I, b, E, X) /\ h \in l
          /\ x = Edited(s, h, Copy(src, 0, open, index, n), m)
          /\ Data(x, c, d, l, I, b, E, X)
      BY <1>3, <1>6, <2>1
    <3> HIDE DEF x, E, I, b, X
    <3>2. Only(s, x, h)
      BY <1>3, <1>5, <1>6, <3>1, DataInsert
    <3> QED BY <3>2 DEF x
  <2> QED BY <2>1, <2>2
<1>9. call' \in Calls /\ ~Calling' /\ call'.n = 0
  <2>1. /\ call' \in Calls /\ call'.how = "copy" /\ call'.n = 0
    BY <1>2, <1>4, NoCallFields DEF Calls
  <2> QED BY <2>1 DEF Calling
<1>10. val' \in [Elems -> Elems]
  BY <1>1, <1>2, CopiedType
<1>11. ItersStand
  <2>1. Only(store, store', h)
    BY <1>3, <1>8, OnlyCompose
  <2>2. l \cap iters = {}
    BY <1>3, DataFacts
  <2> QED BY <1>1, <2>1, <2>2, OnlyStands
<1> QED BY <1>1, <1>7, <1>8, <1>9, <1>10, <1>11, QuietStep
(* Into a vector that is there.                                            *)
LEMMA CopyCallKeeps ==
  ASSUME CInv, NEW h, NEW index \in 0 .. MaxCap, index <= LenOf(store, h), NEW k,
         NEW at \in Nat, NEW n \in Nat, CopyCall(h, index, k, at, n)
  PROVE  CInv' /\ ItersStand
<1> DEFINE want == SliceValues(k, at, n)
           outcomes == Reserve(store, h, n)
<1>1. /\ Idle /\ h \in live /\ Slice(k, at, n) /\ CopyIn(outcomes, h, index, want)
      /\ dropped' = dropped /\ live' = live /\ UNCHANGED ivars
  BY DEF CopyCall
<1>2. Data(store, caller, dropped, live, iters, begin, leaked, {})
  BY <1>1, IdleOwn
<1>3. Len(want) = n /\ \A i \in 1 .. n : want[i] \in Elems
  <2>1. want = SliceValues(k, at, n)
    OBVIOUS
  <2> HIDE DEF want
  <2> QED BY <1>1, <2>1, SliceElems
<1>4. ASSUME NEW s \in outcomes
      PROVE  /\ Data(s, caller, dropped, live, iters, begin, leaked, {})
             /\ index <= LenOf(s, h) /\ Capacity(s, h) >= LenOf(s, h) + n
             /\ Only(store, s, h)
  BY <1>1, <1>2, DataReserve
<1> HIDE DEF want, outcomes
<1> QED BY <1>1, <1>3, <1>4, CopiesIn

(* A vector that is made for n items has room for them.                    *)
LEMMA MadeRoom ==
  ASSUME CInv, Idle, NEW h \in Handles \ (live \cup iters), NEW l, l = live \cup {h}, NEW n \in Nat,
         NEW s, \/ s \in WithCapacity(store, h, n)
                \/ s = NewInline(store, h) /\ n <= InlineSize[h]
  PROVE  /\ Data(s, caller, dropped, l, iters, begin, leaked, {}) /\ Only(store, s, h)
         /\ 0 <= LenOf(s, h) /\ Capacity(s, h) >= LenOf(s, h) + n
<1>1. Data(store, caller, dropped, live, iters, begin, leaked, {})
  BY IdleOwn
<1>2. /\ Data(s, caller, dropped, l, iters, begin, leaked, {}) /\ LenOf(s, h) = 0
      /\ Capacity(s, h) >= n /\ Only(store, s, h)
  <2>1. CASE s \in WithCapacity(store, h, n)
    <3>1. s \in WithCapacity(store, h, n) \/ (s = NewInline(store, h) /\ n = InlineSize[h])
      BY <2>1
    <3> QED BY <1>1, <3>1, DataMake
  <2>2. CASE s = NewInline(store, h) /\ n <= InlineSize[h]
    <3>1. /\ Data(s, caller, dropped, l, iters, begin, leaked, {}) /\ LenOf(s, h) = 0
          /\ Capacity(s, h) >= InlineSize[h] /\ Only(store, s, h)
      BY <1>1, <2>2, DataNew
    <3>2. Capacity(s, h) \in Nat /\ InlineSize[h] \in Nat
      BY <3>1, LengthType, RawAssumption
    <3> QED BY <2>2, <3>1, <3>2
  <2> QED BY <2>1, <2>2
<1>3. Capacity(s, h) \in Nat
  BY <1>2, LengthType
<1> QED BY <1>2, <1>3

(* Into a new one.                                                         *)
LEMMA CopyMakes ==
  ASSUME CInv, Idle, NEW h, Construct(h), h \notin iters, NEW want, NEW n \in Nat, Len(want) = n,
         \A i \in 1 .. n : want[i] \in Elems, NEW outcomes, CopyIn(outcomes, h, 0, want),
         \A s \in outcomes : \/ s \in WithCapacity(store, h, n)
                             \/ s = NewInline(store, h) /\ n <= InlineSize[h],
         UNCHANGED <<dropped, ivars>>
  PROVE  CInv' /\ ItersStand
<1> DEFINE l == live \cup {h}
<1>1. /\ h \in SmallVecs \ live /\ live' = l /\ dropped' = dropped /\ UNCHANGED ivars
  BY DEF Construct
<1>2. h \in Handles \ (live \cup iters) /\ h \in l /\ l = live \cup {h}
  BY <1>1 DEF SmallVecs
<1> HIDE DEF l
<1>3. ASSUME NEW s \in outcomes
      PROVE  /\ Data(s, caller, dropped, l, iters, begin, leaked, {})
             /\ 0 <= LenOf(s, h) /\ Capacity(s, h) >= LenOf(s, h) + n
             /\ Only(store, s, h)
  BY <1>2, <1>3, MadeRoom
<1>4. 0 \in 0 .. MaxCap
  BY RawAssumption
<1> QED BY <1>1, <1>2, <1>3, <1>4, CopiesIn

(* A vector that is cleared.                                               *)
LEMMA DataCleared ==
  ASSUME NEW s, NEW c, NEW d, NEW l, NEW I, NEW b, NEW E, NEW X, Data(s, c, d, l, I, b, E, X),
         NEW h \in l, NEW x, x = Edited(s, h, Blank, 0), NEW D, D = d \cup Owned(s, h)
  PROVE  Data(x, c, D, l, I, b, E, X) /\ LenOf(x, h) = 0 /\ Only(s, x, h)
<1> DEFINE O == Owned(s, h)
           W == O \cup c \cup d \cup X
<1>1. Lays(s, h, Blank, 0, {})
  <2>1. Blank \in Block /\ FitIn(Blank, Capacity(s, h))
    BY DEF Blank, Block, Cell, FitIn
  <2>2. 0 <= Capacity(s, h) /\ Holds(Blank, 0, 0, {})
    BY LengthType, HoldsEmpty
  <2> QED BY <2>1, <2>2 DEF Lays
<1>2. O \cap (c \cup d \cup X) = {} /\ c \cap (d \cup X) = {} /\ d \cap X = {}
  <2>1. h \in Handles \ I /\ c \cap (d \cup X) = {} /\ d \cap X = {}
    BY DataFacts
  <2> QED BY <2>1, DataVector
<1>3. Splits(W, {}, c, D, X) /\ W = Owned(s, h) \cup c \cup d \cup X
  BY <1>2 DEF Splits
<1> HIDE DEF O, W
<1> QED BY <1>1, <1>3, DataWrite

(* clone_from: into one that has been cleared.                             *)
LEMMA CloneFromCopyKeeps ==
  ASSUME CInv, NEW h, NEW k, CloneFromCopy(h, k)
  PROVE  CInv' /\ ItersStand
<1> DEFINE empty == Edited(store, h, Blank, 0)
           n == LenOf(store, k)
           want == SliceValues(k, 0, n)
           outcomes == Reserve(empty, h, n)
           D == dropped \cup Owned(store, h)
<1>1. /\ Idle /\ h \in live /\ k \in live /\ CopyIn(outcomes, h, 0, want)
      /\ dropped' = D /\ live' = live /\ UNCHANGED ivars
  BY DEF CloneFromCopy
<1>2. Data(store, caller, dropped, live, iters, begin, leaked, {})
  BY <1>1, IdleOwn
<1>3. n \in Nat /\ begin[k] = 0 /\ h \in Handles \ iters
  BY <1>1, <1>2, LengthType
<1>4. Len(want) = n /\ \A i \in 1 .. n : want[i] \in Elems
  <2>1. want = SliceValues(k, 0, n) /\ Slice(k, 0, n) /\ 0 \in Nat
    BY <1>1, <1>3 DEF Slice
  <2> HIDE DEF want
  <2> QED BY <1>1, <1>3, <2>1, SliceElems
<1>5. /\ Data(empty, caller, D, live, iters, begin, leaked, {}) /\ LenOf(empty, h) = 0
      /\ Only(store, empty, h)
  <2>1. empty = Edited(store, h, Blank, 0) /\ D = dropped \cup Owned(store, h)
    OBVIOUS
  <2> HIDE DEF empty, D
  <2> QED BY <1>1, <1>2, <2>1, DataCleared
<1> HIDE DEF empty, D
<1>6. ASSUME NEW s \in outcomes
      PROVE  /\ Data(s, caller, D, live, iters, begin, leaked, {})
             /\ 0 <= LenOf(s, h) /\ Capacity(s, h) >= LenOf(s, h) + n
             /\ Only(store, s, h)
  <2>1. /\ Data(s, caller, D, live, iters, begin, leaked, {}) /\ LenOf(s, h) = 0
        /\ Capacity(s, h) >= LenOf(s, h) + n /\ Only(empty, s, h)
    <3> HIDE DEF n
    <3> QED BY <1>1, <1>3, <1>5, DataReserve
  <2> QED BY <1>5, <2>1, OnlyCompose
<1>7. 0 \in 0 .. MaxCap
  BY RawAssumption
<1> HIDE DEF want, outcomes, n
<1> QED BY <1>1, <1>3, <1>4, <1>6, <1>7, CopiesIn

(* What is left when growth panics is a vector that has been cleared.      *)
LEMMA ClearedWhenPanics ==
  ASSUME CInv, NEW h, NEW k, CloneFromCopyPanics(h, k)
  PROVE  /\ Data(store', caller', dropped', live', iters', begin', leaked', {})
         /\ h \in live /\ LenOf(store', h) = 0 /\ Only(store, store', h)
<1> DEFINE empty == Edited(store, h, Blank, 0)
           D == dropped \cup Owned(store, h)
<1>1. /\ Idle /\ h \in live /\ store' = empty /\ caller' = caller /\ dropped' = D /\ live' = live
      /\ iters' = iters /\ begin' = begin /\ leaked' = leaked
  BY DEF CloneFromCopyPanics, ivars
<1>2. Data(store, caller, dropped, live, iters, begin, leaked, {})
  BY <1>1, IdleOwn
<1>3. empty = Edited(store, h, Blank, 0) /\ D = dropped \cup Owned(store, h)
  OBVIOUS
<1> HIDE DEF empty, D
<1> QED BY <1>1, <1>2, <1>3, DataCleared

LEMMA CloneFromCopyFails ==
  ASSUME CInv, NEW h, NEW k, CloneFromCopyPanics(h, k)
  PROVE  CInv' /\ ItersStand
<1>1. Idle /\ UNCHANGED cvars /\ leaked' = leaked /\ leaked \subseteq Elems
  BY DEF CloneFromCopyPanics, ivars, CInv
<1>2. /\ Data(store', caller', dropped', live', iters', begin', leaked', {})
      /\ h \in live /\ Only(store, store', h)
  BY ClearedWhenPanics
<1>3. ItersStand
  <2>1. iters' = iters /\ begin' = begin /\ live \cap iters = {}
    BY DataFacts DEF CloneFromCopyPanics, ivars, CInv
  <2> QED BY <1>2, <2>1, OnlyStands
<1> QED BY <1>1, <1>2, <1>3, StillIdle

LEMMA FromElemCopyKeeps ==
  ASSUME CInv, NEW h, NEW n \in Sizes, FromElemCopy(h, n)
  PROVE  CInv' /\ ItersStand
<1>1. n \in Nat
  BY RawAssumption DEF Sizes
<1>2. PICK e \in caller : CopyIn({NewInline(store, h)}, h, 0, [i \in 1 .. n |-> val[e]])
  BY DEF FromElemCopy
<1>3. /\ Idle /\ Construct(h) /\ h \notin iters /\ n <= InlineSize[h]
      /\ UNCHANGED <<dropped, ivars>>
  BY DEF FromElemCopy
<1> DEFINE outcomes == {NewInline(store, h)}
           want == [i \in 1 .. n |-> val[e]]
<1>4. \A s \in outcomes : s = NewInline(store, h) /\ n <= InlineSize[h]
  BY <1>3
<1>5. Len(want) = n /\ \A i \in 1 .. n : want[i] \in Elems
  <2>1. val \in [Elems -> Elems] /\ caller \subseteq Elems
    BY <1>3, IdleOwn, DataFacts
  <2>2. val[e] \in Elems
    BY <2>1
  <2> QED BY <1>1, <2>2
<1> HIDE DEF outcomes, want
<1>6. CopyIn(outcomes, h, 0, want)
  BY <1>2 DEF outcomes, want
<1> QED BY <1>1, <1>3, <1>4, <1>5, <1>6, CopyMakes

LEMMA CopyStep ==
  ASSUME CInv, NEW h \in Handles, NEW k \in Handles, NEW n \in Sizes, NEW at \in Slots,
         \/ FromSliceCopy(h, k, at, n)
         \/ ExtendFromSliceCopy(h, k, at, n) \/ ExtendFromWithinCopy(h, at, n)
         \/ \E index \in 0 .. MaxCap : InsertFromSliceCopy(h, index, k, at, n)
  PROVE  CInv' /\ ItersStand
<1>1. n \in Nat /\ at \in Nat
  BY RawAssumption DEF Sizes, Slots
<1>2. CASE FromSliceCopy(h, k, at, n)
  <2> DEFINE outcomes == WithCapacity(store, h, n)
             want == SliceValues(k, at, n)
  <2>1. /\ Idle /\ Construct(h) /\ h \notin iters /\ Slice(k, at, n) /\ CopyIn(outcomes, h, 0, want)
        /\ UNCHANGED <<dropped, ivars>>
    BY <1>2 DEF FromSliceCopy
  <2>2. (\A s \in outcomes : s \in WithCapacity(store, h, n)) /\ want = SliceValues(k, at, n)
    OBVIOUS
  <2> HIDE DEF outcomes, want
  <2>3. Len(want) = n /\ \A i \in 1 .. n : want[i] \in Elems
    BY <1>1, <2>1, <2>2, SliceElems
  <2> QED BY <1>1, <2>1, <2>2, <2>3, CopyMakes
<1>3. ASSUME NEW index \in 0 .. MaxCap, NEW j, index <= LenOf(store, h),
             CopyCall(h, index, j, at, n)
      PROVE  CInv' /\ ItersStand
  BY <1>1, <1>3, CopyCallKeeps
<1>4. ASSUME NEW j, CopyCall(h, LenOf(store, h), j, at, n)
      PROVE  CInv' /\ ItersStand
  <2>1. h \in live /\ Idle
    BY <1>4 DEF CopyCall
  <2>2. LenOf(store, h) \in Nat /\ LenOf(store, h) <= MaxCap
    BY <2>1, IdleOwn, LengthType
  <2> DEFINE index == LenOf(store, h)
  <2>3. index \in 0 .. MaxCap /\ index <= LenOf(store, h) /\ CopyCall(h, index, j, at, n)
    BY <1>4, <2>2, RawAssumption
  <2> HIDE DEF index
  <2> QED BY <1>3, <2>3
<1>5. CASE ExtendFromSliceCopy(h, k, at, n) \/ ExtendFromWithinCopy(h, at, n)
  BY <1>4, <1>5 DEF ExtendFromSliceCopy, ExtendFromWithinCopy
<1>6. CASE \E index \in 0 .. MaxCap : InsertFromSliceCopy(h, index, k, at, n)
  BY <1>3, <1>6 DEF InsertFromSliceCopy
<1> QED BY <1>2, <1>5, <1>6

LEMMA BulkStep ==
  ASSUME CInv, Bulk
  PROVE  CInv' /\ ItersStand
<1>1. PICK h \in Handles, k \in Handles :
        \/ ExtendFromIter(h, k) \/ ExtendFromIterPanics(h, k)
        \/ CloneFromCopy(h, k) \/ CloneFromCopyPanics(h, k) \/ ChunkMut(h)
        \/ \E n \in Sizes :
             \/ AdvanceMut(h, n) \/ FromElemCopy(h, n)
             \/ \E m \in Sizes : Put(h, n, m)
             \/ \E at \in Slots :
                  \/ ExtendFromSliceCopy(h, k, at, n) \/ ExtendFromWithinCopy(h, at, n)
                  \/ FromSliceCopy(h, k, at, n)
                  \/ \E index \in 0 .. MaxCap : InsertFromSliceCopy(h, index, k, at, n)
  BY DEF Bulk
<1>2. CASE \/ ExtendFromIter(h, k) \/ ExtendFromIterPanics(h, k)
           \/ CloneFromCopy(h, k) \/ CloneFromCopyPanics(h, k)
  BY <1>2, ExtendFromIterKeeps, ExtendFromIterFails, CloneFromCopyKeeps, CloneFromCopyFails
<1>3. CASE ChunkMut(h)
  <2>1. 0 \in Sizes
    BY RawAssumption DEF Sizes
  <2> QED BY <1>3, <2>1, ChunkSteps
<1>4. ASSUME NEW n \in Sizes, AdvanceMut(h, n) \/ \E m \in Sizes : Put(h, n, m)
      PROVE  CInv' /\ ItersStand
  BY <1>4, ChunkSteps
<1>5. ASSUME NEW n \in Sizes, FromElemCopy(h, n)
      PROVE  CInv' /\ ItersStand
  BY <1>5, FromElemCopyKeeps
<1>6. ASSUME NEW n \in Sizes, NEW at \in Slots,
             \/ ExtendFromSliceCopy(h, k, at, n) \/ ExtendFromWithinCopy(h, at, n)
             \/ FromSliceCopy(h, k, at, n)
             \/ \E index \in 0 .. MaxCap : InsertFromSliceCopy(h, index, k, at, n)
      PROVE  CInv' /\ ItersStand
  BY <1>6, CopyStep
<1> QED BY <1>1, <1>2, <1>3, <1>4, <1>5, <1>6
----------------------------------------------------------------------------
(* The theorems.                                                           *)

LEMMA InitClones == CloneInit => CInv
<1> SUFFICES ASSUME CloneInit PROVE CInv
  OBVIOUS
<1>1. OInv(Elems) /\ BInv
  BY InitOwns, InitBounded DEF CloneInit
<1>2. Accounts(store, caller, dropped, live, Elems)
  BY <1>1 DEF OInv, BInv, IInv, Accounts
<1>3. /\ call = NoCall /\ val = OwnValues /\ iters = {} /\ leaked = {}
      /\ begin = [h \in Handles |-> 0]
  BY DEF CloneInit, IterInit
<1>4. call \in Calls /\ call.how = "none" /\ call.n = 0
  BY <1>3, NoCallFields
<1>5. Apart = {} /\ ~Calling
  BY <1>4, ApartEmpty DEF Calling
<1>6. val \in [Elems -> Elems]
  BY <1>3 DEF OwnValues
<1>7. store \in Storage /\ Shaped(store)
  BY <1>2, SoundShaped DEF Accounts, Bounded, Sound
<1>8. Mask(store, iters) = store
  <2>1. store.word = [h \in Handles |-> store.word[h]]
    BY <1>7 DEF Shaped
  <2>2. \A h \in Handles : store.word[h] = IF h \in iters THEN store.word[h] % 2 ELSE store.word[h]
    BY <1>3
  <2>3. Mask(store, iters) = [word |-> store.word, ptr |-> store.ptr, cap |-> store.cap,
                              mem |-> store.mem, size |-> store.size]
    BY <2>1, <2>2, MaskIs
  <2> QED BY <1>7, <2>3 DEF Shaped
<1>9. IterOK(store, live, iters, begin) /\ Left(store, iters, begin) = {}
  <2>1. begin \in [Handles -> 0 .. MaxCap] /\ \A h \in Handles : begin[h] = 0
    BY <1>3, RawAssumption
  <2> QED BY <1>3, <2>1 DEF IterOK, Left
<1>10. Data(store, caller, dropped, live, iters, begin, leaked, {})
  <2>1. dropped \cup {} \cup {} = dropped /\ live \cup {} = live /\ Elems \ {} = Elems
    OBVIOUS
  <2> QED BY <1>2, <1>3, <1>7, <1>8, <1>9, <2>1 DEF Data
<1> QED BY <1>3, <1>4, <1>5, <1>6, <1>10 DEF CInv

LEMMA CloneStutters ==
  ASSUME CInv, UNCHANGED allVars
  PROVE  CInv'
<1>1. /\ store' = store /\ live' = live /\ caller' = caller /\ dropped' = dropped
      /\ iters' = iters /\ begin' = begin /\ leaked' = leaked /\ call' = call /\ val' = val
  BY DEF allVars, vars, ivars, cvars
<1>2. Apart' = Apart /\ (Calling' <=> Calling)
  BY <1>1 DEF Apart, Guarded, v, Calling
<1> QED BY <1>1, <1>2 DEF CInv

(* The calls that clone keep every element accounted for between any two   *)
(* steps, whatever user code does.                                         *)
THEOREM CloneInvariant == CloneSpec => []CInv
<1>1. CInv /\ [CloneNext]_allVars => CInv'
  <2> SUFFICES ASSUME CInv, [CloneNext]_allVars PROVE CInv'
    OBVIOUS
  <2>1. CASE Program
    BY <2>1, ProgramStep
  <2>2. CASE Start \/ Bulk
    BY <2>2, StartStep, BulkStep
  <2>3. CASE CloneStep \/ CopyEnds
    BY <2>3, CloneStepKeeps, EndsQuietly
  <2>4. CASE UNCHANGED allVars
    BY <2>4, CloneStutters
  <2> QED BY <2>1, <2>2, <2>3, <2>4 DEF CloneNext
<1> QED BY <1>1, InitClones, PTL DEF CloneSpec

(* No call makes more elements than there is room for, and what is handed  *)
(* out, cloned or dropped is an element.                                   *)
THEOREM CloneTypeCorrect == CloneSpec => []CloneTypeOK
<1>1. CInv => CloneTypeOK
  <2> SUFFICES ASSUME CInv PROVE CloneTypeOK
    OBVIOUS
  <2>1. Data(store, caller, dropped, live, iters, begin, leaked, Apart)
    BY DEF CInv
  <2>2. TypeOK
    BY <2>1, DataFacts DEF TypeOK
  <2>3. IterTypeOK
    BY <2>1 DEF Data, IterOK, CInv, IterTypeOK
  <2> QED BY <2>2, <2>3 DEF CInv, Calls, CloneTypeOK
<1> QED BY <1>1, CloneInvariant, PTL

(* A guard writes without a check, and yet within the capacity that was    *)
(* reserved when the call began: nothing that happens in between, and      *)
(* nothing an iterator does, makes a write leave its buffer.               *)
THEOREM GuardInBounds == CloneSpec => []GuardStaysInBounds
<1>1. CInv => GuardStaysInBounds
  <2> SUFFICES ASSUME CInv PROVE GuardStaysInBounds
    OBVIOUS
  <2> DEFINE M == Mask(store, iters)
  <2>1. /\ Data(store, caller, dropped, live, iters, begin, leaked, Apart)
        /\ store \in Storage /\ \A h \in Handles : Fits(M, h)
    BY DataFacts DEF CInv, Bounded
  <2>2. M.mem = store.mem /\ M.ptr = store.ptr /\ M.cap = store.cap
    BY DEF Mask
  <2>3. ASSUME NEW h \in Handles
        PROVE  OnHeap(M, h) = OnHeap(store, h)
    <3>1. store \in Storage
      BY <2>1
    <3> QED BY <3>1, MaskFacts
  <2> HIDE DEF M
  <2>4. \A h \in Handles : Fits(store, h)
    BY <2>1, <2>2, <2>3 DEF Fits
  <2>5. WritesStayInBounds
    BY <2>4 DEF Fits, FitIn, WritesStayInBounds
  <2>6. ASSUME call.how = "guard"
        PROVE  call.base + call.n <= Capacity(store, v)
    BY <2>6 DEF CInv, Calling, TargetOK, v
  <2> QED BY <2>5, <2>6 DEF GuardStaysInBounds
<1> QED BY <1>1, CloneInvariant, PTL

(* The cells I of h are those of the elements X, one each.                 *)
Uses(h, I, X) ==
  /\ \A i \in I : Item(store, h, i) \in X
  /\ \A i, j \in I : Item(store, h, i) = Item(store, h, j) => i = j
  /\ \A x \in X : \E i \in I : Item(store, h, i) = x

Kept(h)   == IF h \in iters THEN Rest(store, h, begin) ELSE Owned(store, h)
Used(h)   == Kept(h) \cup (IF h = v THEN Apart ELSE {})
LEMMA UsesHolds ==
  ASSUME NEW h, NEW a, NEW b, NEW X, Holds(Cells(store, h), a, b, X)
  PROVE  Uses(h, a .. b - 1, X)
  BY DEF Holds, Uses, Item

LEMMA UsesJoin ==
  ASSUME NEW h, NEW I, NEW J, NEW X, NEW Y, Uses(h, I, X), Uses(h, J, Y), X \cap Y = {}
  PROVE  Uses(h, I \cup J, X \cup Y)
<1>1. /\ \A i \in I : Item(store, h, i) \in X
      /\ \A i, j \in I : Item(store, h, i) = Item(store, h, j) => i = j
      /\ \A x \in X : \E i \in I : Item(store, h, i) = x
      /\ \A i \in J : Item(store, h, i) \in Y
      /\ \A i, j \in J : Item(store, h, i) = Item(store, h, j) => i = j
      /\ \A x \in Y : \E i \in J : Item(store, h, i) = x
  BY DEF Uses
<1>2. \A i \in I, j \in J : Item(store, h, i) # Item(store, h, j)
  BY <1>1
<1>3. \A i \in I \cup J : Item(store, h, i) \in X \cup Y
  BY <1>1
<1>4. \A i, j \in I \cup J : Item(store, h, i) = Item(store, h, j) => i = j
  BY <1>1, <1>2
<1>5. \A x \in X \cup Y : \E i \in I \cup J : Item(store, h, i) = x
  BY <1>1
<1> QED BY <1>3, <1>4, <1>5 DEF Uses

LEMMA InUseUsed ==
  ASSUME CInv, NEW h \in live \cup iters
  PROVE  Uses(h, CellsInUse(h), Used(h))
<1> DEFINE len == LenOf(store, h)
<1>1. Data(store, caller, dropped, live, iters, begin, leaked, Apart)
  BY DEF CInv
<1>2. Uses(h, IterCells(h), Kept(h))
  <2>1. CASE h \in iters
    <3>1. /\ begin[h] \in 0 .. MaxCap /\ len \in 0 .. MaxCap
          /\ Holds(Cells(store, h), begin[h], len, Rest(store, h, begin))
      BY <1>1, <2>1, IterFacts
    <3>2. IterCells(h) = begin[h] .. len - 1
      BY <2>1, <3>1, RawAssumption DEF IterCells, Slots
    <3>3. Uses(h, begin[h] .. len - 1, Rest(store, h, begin))
      BY <3>1, UsesHolds
    <3> QED BY <2>1, <3>2, <3>3 DEF Kept
  <2>2. CASE h \notin iters
    <3>1. h \in Handles \ iters
      BY <1>1, <2>2, DataFacts
    <3>2. len \in 0 .. MaxCap /\ Holds(Cells(store, h), 0, len, Owned(store, h))
      BY <1>1, <3>1, DataVector
    <3>3. IterCells(h) = 0 .. len - 1
      BY <2>2, <3>2, RawAssumption DEF IterCells, Slots
    <3>4. Uses(h, 0 .. len - 1, Owned(store, h))
      BY <3>2, UsesHolds
    <3> QED BY <2>2, <3>3, <3>4 DEF Kept
  <2> QED BY <2>1, <2>2
<1>3. CASE h = v /\ call.how = "guard"
  <2> DEFINE e == call.base + call.made
             R == call.base .. e - 1
  <2>1. TargetOK(call, store, live, Apart) /\ v = call.vec
    BY <1>3 DEF CInv, Calling, v
  <2>2. h \in live /\ Holds(Cells(store, h), call.base, e, Apart)
    BY <1>3, <2>1 DEF TargetOK
  <2>3. Guarded = R
    BY <1>3, CallTypes DEF Guarded
  <2>4. Uses(h, R, Apart)
    <3> HIDE DEF e
    <3> QED BY <2>2, UsesHolds
  <2>5. Kept(h) \cap Apart = {}
    <3>1. h \in Handles \ iters
      BY <1>1, <2>2, DataFacts
    <3>2. Owned(store, h) \cap (caller \cup dropped \cup Apart) = {}
      BY <1>1, <3>1, DataVector
    <3> QED BY <3>1, <3>2 DEF Kept
  <2>6. CellsInUse(h) = IterCells(h) \cup R /\ Used(h) = Kept(h) \cup Apart
    BY <1>3, <2>3 DEF CellsInUse, Used
  <2> HIDE DEF R
  <2> QED BY <1>2, <2>4, <2>5, <2>6, UsesJoin
<1>4. CASE h # v \/ call.how # "guard"
  <2>1. CellsInUse(h) = IterCells(h) /\ Used(h) = Kept(h)
    BY <1>4, ApartEmpty DEF CellsInUse, Used, Guarded
  <2> QED BY <1>2, <2>1
<1> QED BY <1>3, <1>4

LEMMA UsedParted ==
  ASSUME CInv
  PROVE  /\ \A h, k \in live \cup iters : h # k => Used(h) \cap Used(k) = {}
         /\ \A h \in live \cup iters : /\ Used(h) \subseteq Elems \ leaked
                                       /\ Used(h) \cap (caller \cup dropped) = {}
         /\ caller \cap dropped = {} /\ caller \cup dropped \subseteq Elems \ leaked
         /\ leaked \subseteq Elems
         /\ \A e \in Elems \ leaked :
              e \in caller \cup dropped \/ \E h \in live \cup iters : e \in Used(h)
<1> DEFINE M == Mask(store, iters)
           rest == Left(store, iters, begin)
           E == Elems \ leaked
<1>1. /\ Data(store, caller, dropped, live, iters, begin, leaked, Apart) /\ leaked \subseteq Elems
  BY DEF CInv
<1>2. /\ Own(M, caller, dropped \cup Apart \cup rest, E) /\ DeadEmpty(M, live \cup iters)
      /\ dropped \cap Apart = {} /\ (dropped \cup Apart) \cap rest = {}
      /\ iters \subseteq Handles /\ live \subseteq Handles /\ live \cap iters = {}
  <2>1. /\ Own(M, caller, dropped \cup Apart \cup rest, E) /\ DeadEmpty(M, live \cup iters)
        /\ dropped \cap Apart = {} /\ (dropped \cup Apart) \cap rest = {}
    BY <1>1 DEF Data, Accounts
  <2> HIDE DEF M, rest, E
  <2>2. iters \subseteq Handles /\ live \subseteq Handles /\ live \cap iters = {}
    BY <1>1, DataFacts
  <2> QED BY <2>1, <2>2
<1>3. \A h \in Handles \ iters : Owned(M, h) = Owned(store, h)
  BY <1>1, DataVector
<1>4. \A h \in Handles : h \in iters \/ h \notin live => Owned(M, h) = {}
  <2>1. \A h \in iters : LenOf(M, h) = 0
    BY <1>1, IterFacts
  <2>2. \A h \in Handles \ (live \cup iters) : LenOf(M, h) = 0
    BY <1>2 DEF DeadEmpty
  <2> HIDE DEF M
  <2> QED BY <1>2, <2>1, <2>2, EmptyOwns
<1>5. /\ \A h \in iters : Kept(h) \subseteq rest
      /\ \A h, k \in iters : h # k => Kept(h) \cap Kept(k) = {}
      /\ \A e \in rest : \E h \in iters : e \in Kept(h)
  <2>1. \A h \in iters : Kept(h) = Rest(store, h, begin)
    BY DEF Kept
  <2>2. IterOK(store, live, iters, begin)
    BY <1>1 DEF Data
  <2> QED BY <2>1, <2>2 DEF IterOK, Left
<1>6. \A h \in live : Kept(h) = Owned(M, h)
  BY <1>2, <1>3 DEF Kept
<1>7. Apart = {} \/ v \in live
  <2>1. CASE call.how = "guard"
    BY <2>1 DEF CInv, Calling, TargetOK, v
  <2> QED BY <2>1, ApartEmpty
<1> HIDE DEF M, rest, E
<1>9. /\ \A h, k \in Handles : h # k => Owned(M, h) \cap Owned(M, k) = {}
      /\ \A h \in Handles : Owned(M, h) \cap (caller \cup dropped \cup Apart \cup rest) = {}
      /\ caller \cap (dropped \cup Apart \cup rest) = {}
      /\ caller \cup dropped \cup Apart \cup rest \subseteq E
      /\ \A h \in Handles : Owned(M, h) \subseteq E
      /\ \A e \in E : \/ e \in caller \cup dropped \cup Apart \cup rest
                      \/ \E h \in Handles : e \in Owned(M, h)
  BY <1>2 DEF Own
<1>10. \A h, k \in live \cup iters : h # k => Kept(h) \cap Kept(k) = {}
  BY <1>2, <1>5, <1>6, <1>9
<1>11. \A h \in live \cup iters : Kept(h) \cap (caller \cup dropped \cup Apart) = {} /\ Kept(h) \subseteq E
  <2>1. rest \cap (caller \cup dropped \cup Apart) = {} /\ rest \subseteq E
    BY <1>2, <1>9
  <2>2. \A h \in live : Owned(M, h) \cap (caller \cup dropped \cup Apart) = {} /\ Owned(M, h) \subseteq E
    BY <1>2, <1>9
  <2> QED BY <1>5, <1>6, <2>1, <2>2
<1>12. \A h \in live \cup iters :
         \/ Used(h) = Kept(h)
         \/ h = v /\ Used(h) = Kept(h) \cup Apart
  BY DEF Used
<1>13. \A h, k \in live \cup iters : h # k => Used(h) \cap Used(k) = {}
  BY <1>10, <1>11, <1>12
<1>14. \A h \in live \cup iters : Used(h) \subseteq E /\ Used(h) \cap (caller \cup dropped) = {}
  BY <1>2, <1>9, <1>11, <1>12
<1>15. ASSUME NEW e \in E
       PROVE  e \in caller \cup dropped \/ \E h \in live \cup iters : e \in Used(h)
  <2>1. CASE e \in Apart
    BY <1>7, <2>1 DEF Used
  <2>2. CASE e \in rest
    BY <1>5, <2>2 DEF Used
  <2>3. ASSUME NEW h \in Handles, e \in Owned(M, h)
        PROVE  h \in live /\ e \in Used(h)
    BY <1>4, <1>6, <2>3 DEF Used
  <2> QED BY <1>9, <2>1, <2>2, <2>3
<1> QED BY <1>1, <1>9, <1>13, <1>14, <1>15 DEF E

(* At whichever element user code panics, and however the call made it,    *)
(* every element is in one place: a cell that a vector, an iterator or a   *)
(* guard uses, the program, the dropped ones, or the leaked ones, which    *)
(* only forgetting an IntoIter adds to.                                    *)
THEOREM CloneAccountsForAll == CloneSpec => []CloneAccountedFor
<1> DEFINE holders == live \cup iters
<1>1. ASSUME CInv
      PROVE  EachElementOnce(live \cup iters, CellsInUse, leaked)
  <2>1. ASSUME NEW h \in holders, NEW i \in CellsInUse(h)
        PROVE  Item(store, h, i) \in Used(h)
    BY <1>1, <2>1, InUseUsed DEF Uses
  <2>2. \A h \in holders : \A i \in CellsInUse(h) :
          Item(store, h, i) \in Elems \ (caller \cup dropped \cup leaked)
    BY <1>1, <2>1, UsedParted
  <2>3. ASSUME NEW h \in holders, NEW k \in holders, NEW i \in CellsInUse(h),
               NEW j \in CellsInUse(k), Item(store, h, i) = Item(store, k, j)
        PROVE  h = k /\ i = j
    <3>1. h = k
      BY <1>1, <2>1, <2>3, UsedParted
    <3>2. i = j
      BY <1>1, <2>3, <3>1, InUseUsed DEF Uses
    <3> QED BY <3>1, <3>2
  <2>4. caller \cap dropped = {} /\ leaked \cap (caller \cup dropped) = {}
    BY <1>1, UsedParted
  <2> DEFINE held == UNION {{Item(store, h, i) : i \in CellsInUse(h)} : h \in holders}
  <2>5. ASSUME NEW e \in Elems, e \notin caller \cup dropped \cup leaked
        PROVE  e \in held
    <3>1. PICK h \in holders : e \in Used(h)
      BY <1>1, <2>5, UsedParted
    <3>2. PICK i \in CellsInUse(h) : Item(store, h, i) = e
      BY <1>1, <3>1, InUseUsed DEF Uses
    <3> QED BY <3>2
  <2>6. caller \cup dropped \cup leaked \subseteq Elems
    BY <1>1, UsedParted
  <2>7. held \subseteq Elems
    BY <2>2
  <2> HIDE DEF held
  <2>8. Elems = caller \cup dropped \cup leaked \cup held
    BY <2>5, <2>6, <2>7
  <2> QED BY <2>2, <2>3, <2>4, <2>8 DEF EachElementOnce, held
<1>2. CInv => CloneAccountedFor
  BY <1>1 DEF CloneAccountedFor
<1> QED BY <1>2, CloneInvariant, PTL
----------------------------------------------------------------------------
(* What an iterator has still to yield.                                    *)

Row(cells, at, n) == [j \in 1 .. n |-> cells[at + j - 1]]

LEMMA SliceRow ==
  ASSUME NEW s, NEW h
  PROVE  Items(s, h, begin[h], LenOf(s, h) - begin[h]) =
           Row(Cells(s, h), begin[h], LenOf(s, h) - begin[h])
  BY DEF Items, Row, Item

(* t is s without its first item, and u is s without its last.             *)
Trims(s, t, u) == t = SubSeq(s, 2, Len(s)) /\ u = SubSeq(s, 1, Len(s) - 1)

LEMMA RowLess ==
  ASSUME NEW cells, NEW at \in Nat, NEW n \in Nat, n # 0, NEW s, s = Row(cells, at, n),
         NEW b, b = at + 1, NEW l, l = n - 1
  PROVE  Trims(s, Row(cells, b, l), Row(cells, at, l))
<1> DEFINE S == {cells[i] : i \in Nat}
<1>1. \A j \in 1 .. n : s[j] = cells[at + j - 1] /\ s[j] \in S
  <2>1. \A j \in 1 .. n : at + j - 1 \in Nat
    OBVIOUS
  <2> QED BY <2>1 DEF Row
<1>2. Len(s) = n
  BY DEF Row
<1> HIDE DEF S
<1>3. ASSUME NEW a \in Nat, NEW m \in 1 .. 2, NEW k \in Int, k - m = n - 2, k <= n, a = at + m - 1
      PROVE  Row(cells, a, n - 1) = SubSeq(s, m, k)
  <2> DEFINE r == Row(cells, a, n - 1)
             q == SubSeq(s, m, k)
  <2>1. m \in Int /\ k - m + 1 = n - 1 /\ \A j \in m .. k : j \in 1 .. n
    BY <1>3
  <2>2. \A j \in m .. k : s[j] \in S
    BY <1>1, <2>1
  <2>3. /\ q \in Seq(S) /\ Len(q) = IF m <= k THEN k - m + 1 ELSE 0
        /\ \A j \in 1 .. k - m + 1 : q[j] = s[m + j - 1]
    BY <1>3, <2>1, <2>2, SubSeqProperties
  <2>4. Len(q) = n - 1
    BY <1>3, <2>1, <2>3
  <2>5. \A j \in 1 .. n - 1 : m + j - 1 \in 1 .. n /\ at + (m + j - 1) - 1 = a + j - 1
    BY <1>3
  <2>6. \A j \in 1 .. n - 1 : q[j] = cells[a + j - 1]
    BY <1>1, <2>1, <2>3, <2>5
  <2>7. q = [j \in 1 .. n - 1 |-> q[j]]
    <3> HIDE DEF q
    <3>1. DOMAIN q = 1 .. n - 1 /\ q = [j \in DOMAIN q |-> q[j]]
      BY <2>3, <2>4
    <3> QED BY <3>1
  <2> HIDE DEF q
  <2> QED BY <2>6, <2>7 DEF Row, q
<1>4. Row(cells, b, l) = SubSeq(s, 2, n) /\ Row(cells, at, l) = SubSeq(s, 1, l)
  BY <1>3
<1> QED BY <1>2, <1>4 DEF Trims

LEMMA RowSame ==
  ASSUME NEW f, NEW g, NEW at \in Nat, NEW n \in Nat, \A i \in at .. at + n - 1 : g[i] = f[i]
  PROVE  Row(g, at, n) = Row(f, at, n)
<1>1. \A j \in 1 .. n : at + j - 1 \in at .. at + n - 1
  OBVIOUS
<1> QED BY <1>1 DEF Row

TakesAtEnds(h) ==
  LET s == AsSlice(store, h)
      t == AsSlice(store, h)'
  IN  t = s \/ t = SubSeq(s, 2, Len(s)) \/ t = SubSeq(s, 1, Len(s) - 1)

TakenAtEnds == \A h \in iters \cap iters' : TakesAtEnds(h)

LEMMA StandTakesNothing ==
  ASSUME ItersStand
  PROVE  TakenAtEnds
<1> SUFFICES ASSUME NEW h \in iters \cap iters' PROVE AsSlice(store, h)' = AsSlice(store, h)
  BY DEF TakenAtEnds, TakesAtEnds
<1> QED BY DEF ItersStand, AsSlice, Items, Item

LEMMA TakeStep ==
  ASSUME CInv, Idle, NEW h, NextItem(h) \/ NextBackItem(h)
  PROVE  TakenAtEnds
<1>1. ~Calling
  BY DEF Idle, Calling
<1>2. Data(store, caller, dropped, live, iters, begin, leaked, {})
  BY <1>1, IdleData
<1> DEFINE src == Cells(store, h)
           len == LenOf(store, h)
           b   == begin[h]
           s   == Row(src, b, len - b)
<1>3. h \in iters /\ b # len /\ iters' = iters
  BY DEF NextItem, NextBackItem, YieldItem
<1>4. MaxCap \in Nat
  BY RawAssumption
<1>5. /\ b \in Nat /\ len \in Nat /\ b < len /\ len <= MaxCap /\ src \in Block
      /\ begin \in [Handles -> 0 .. MaxCap] /\ h \in Handles
  BY <1>2, <1>3, <1>4, IterFacts
<1>d. ASSUME Only(store, store', h), begin' = [begin EXCEPT ![h] = begin'[h]], TakesAtEnds(h)
      PROVE  TakenAtEnds
  <2> SUFFICES ASSUME NEW k \in iters, k # h PROVE TakesAtEnds(k)
    BY <1>3, <1>d DEF TakenAtEnds
  <2>1. k \in Handles
    BY <1>2, IterFacts
  <2>2. LenOf(store', k) = LenOf(store, k) /\ Cells(store', k) = Cells(store, k)
    BY <1>d, <2>1, OnlyStays
  <2>3. begin'[k] = begin[k]
    BY <1>d, <1>5, <2>1
  <2>4. AsSlice(store, k)' = AsSlice(store, k)
    BY <2>2, <2>3 DEF AsSlice, Items, Item
  <2> QED BY <2>4 DEF TakesAtEnds
<1>6. AsSlice(store, h) = s
  BY SliceRow DEF AsSlice
<1>7. AsSlice(store, h)' = Row(Cells(store', h), begin'[h], LenOf(store', h) - begin'[h])
  BY DEF AsSlice, Items, Row, Item
<1>8. len - b \in Nat \ {0} /\ len - (b + 1) = (len - b) - 1 /\ (len - 1) - b = (len - b) - 1
      /\ b + (len - b) = len
  BY <1>5
<1> HIDE DEF src, len, b
<1> DEFINE n == len - b
<1>a. s = Row(src, b, n) /\ n \in Nat /\ n # 0 /\ n = len - b
  BY <1>8
<1> HIDE DEF n, s
<1> DEFINE c == b + 1
           z == n - 1
<1>b. c = b + 1 /\ z = n - 1 /\ b \in Nat
  BY <1>5
<1> HIDE DEF c, z
<1>c. Trims(s, Row(src, c, z), Row(src, b, z))
  BY <1>a, <1>b, RowLess
<1>9. Trims(s, Row(src, b + 1, (len - b) - 1), Row(src, b, (len - b) - 1))
  BY <1>a, <1>b, <1>c
<1>10. CASE NextItem(h)
  <2> DEFINE a == b + 1
             x == Wipe(src, b, 1)
  <2>1. /\ store' = Edited(store, h, Wipe(Cells(store, h), b, 1), len)
        /\ caller' = caller \cup {Item(store, h, b)} /\ begin' = MovedTo(begin, h, a)
    BY <1>10 DEF NextItem, YieldItem, MovedTo, b, len
  <2>2. b = begin[h] /\ len = LenOf(store, h) /\ a = begin[h] + 1 /\ a = b + 1
    BY DEF b, len
  <2> HIDE DEF a
  <2>3. Cells(store', h) = x /\ LenOf(store', h) = len /\ Only(store, store', h)
    BY <1>2, <1>3, <2>1, <2>2, Yields DEF src
  <2>4. begin'[h] = a
    BY <1>5, <2>1 DEF MovedTo
  <2>5. \A i \in a .. len - 1 : x[i] = src[i]
    <3>1. 1 \in Int /\ a \in Nat /\ len \in Int /\ b + 1 <= a
      BY <1>5, <2>2
    <3> QED BY <1>5, <3>1, WipeSpares
  <2> HIDE DEF x
  <2>6. Row(x, a, len - a) = Row(src, a, len - a)
    <3> DEFINE m == len - a
    <3>1. m \in Nat /\ a \in Nat /\ a + m = len
      BY <1>5, <2>2
    <3> HIDE DEF m
    <3>2. \A i \in a .. a + m - 1 : x[i] = src[i]
      BY <2>5, <3>1
    <3>3. Row(x, a, m) = Row(src, a, m)
      BY <3>1, <3>2, RowSame
    <3> QED BY <3>3 DEF m
  <2>7. AsSlice(store, h)' = SubSeq(s, 2, Len(s))
    BY <1>7, <1>8, <1>9, <2>2, <2>3, <2>4, <2>6 DEF Trims
  <2>8. begin' = [begin EXCEPT ![h] = begin'[h]]
    BY <1>5, <2>1 DEF MovedTo
  <2> QED BY <1>d, <1>6, <2>3, <2>7, <2>8 DEF TakesAtEnds
<1>11. CASE NextBackItem(h)
  <2> DEFINE e == len - 1
             a == b
             x == Wipe(src, e, 1)
  <2>1. /\ store' = Edited(store, h, Wipe(Cells(store, h), e, 1), e)
        /\ caller' = caller \cup {Item(store, h, e)} /\ begin' = MovedTo(begin, h, a)
    BY <1>5, <1>11 DEF NextBackItem, YieldItem, MovedTo, len, b
  <2>2. a = begin[h] /\ e = LenOf(store, h) - 1 /\ e = len - 1 /\ a = b
    BY DEF b, len
  <2> HIDE DEF e, a, x
  <2>3. Cells(store', h) = x /\ LenOf(store', h) = e /\ Only(store, store', h)
    <3>1. h \in iters /\ begin[h] # LenOf(store, h)
      BY <1>3 DEF b, len
    <3>3. \/ e = begin[h] /\ e = LenOf(store, h) /\ a = begin[h] + 1
          \/ e = LenOf(store, h) - 1 /\ e = LenOf(store, h) - 1 /\ a = begin[h]
      BY <2>2
    <3>2. /\ Cells(store', h) = Wipe(Cells(store, h), e, 1) /\ LenOf(store', h) = e
          /\ Only(store, store', h)
      BY <1>2, <2>1, <3>1, <3>3, Yields
    <3> QED BY <3>2 DEF src, x
  <2>4. begin'[h] = b
    BY <1>5, <2>1, <2>2 DEF MovedTo
  <2>5. \A i \in b .. e - 1 : x[i] = src[i]
    <3>1. 1 \in Int /\ e \in Int /\ e \in Nat /\ e <= e /\ e <= MaxCap
      BY <1>4, <1>5, <2>2
    <3> QED BY <1>5, <3>1, WipeSpares, SMTT(30) DEF x
  <2>6. Row(x, b, e - b) = Row(src, b, e - b)
    <3> DEFINE m == e - b
    <3>1. m \in Nat /\ b + m = e
      BY <1>5, <2>2
    <3>a. b + m - 1 = e - 1
      BY <1>5, <2>2
    <3> HIDE DEF m
    <3>2. \A i \in b .. b + m - 1 : x[i] = src[i]
      BY <2>5, <3>a
    <3>3. Row(x, b, m) = Row(src, b, m)
      BY <1>5, <3>1, <3>2, RowSame
    <3> QED BY <3>3 DEF m
  <2>7. AsSlice(store, h)' = SubSeq(s, 1, Len(s) - 1)
    BY <1>7, <1>8, <1>9, <2>2, <2>3, <2>4, <2>6 DEF Trims
  <2>8. begin' = [begin EXCEPT ![h] = begin'[h]]
    BY <1>5, <2>1 DEF MovedTo
  <2> QED BY <1>d, <1>6, <2>3, <2>7, <2>8 DEF TakesAtEnds
<1> QED BY <1>10, <1>11

LEMMA StepTakes ==
  ASSUME CInv, CloneStep \/ CopyEnds
  PROVE  TakenAtEnds
<1>1. ASSUME UNCHANGED vars, UNCHANGED ivars
      PROVE  TakenAtEnds
  <2>1. store' = store /\ iters' = iters /\ begin' = begin
    BY <1>1 DEF vars, ivars
  <2> QED BY <2>1, StandTakesNothing DEF ItersStand
<1>2. ASSUME Calling, Only(store, store', v), UNCHANGED ivars
      PROVE  TakenAtEnds
  <2>1. v \in live /\ live \cap iters = {}
    <3>1. TargetOK(call, store, live, Apart)
      BY <1>2 DEF CInv
    <3>2. live \cap iters = {}
      BY DataFacts DEF CInv
    <3> QED BY <3>1, <3>2 DEF TargetOK, v
  <2>2. ItersStand
    BY <1>2, <2>1, OnlyStands DEF ivars
  <2> QED BY <2>2, StandTakesNothing
<1>3. CASE PushStep \/ GuardStep \/ AssignStep
  <2>1. Calling /\ UNCHANGED ivars
    BY <1>3 DEF PushStep, GuardStep, AssignStep, Calling, Take
  <2> QED BY <1>2, <1>3, <2>1, PushStepKeeps, GuardStepKeeps, AssignStepKeeps
<1>4. CASE AssignTail \/ GuardEnds
  <2>1. Calling /\ UNCHANGED ivars
    BY <1>4 DEF AssignTail, GuardEnds, Calling
  <2> QED BY <1>2, <1>4, <2>1, AssignTailKeeps, GuardEndsKeeps
<1>5. CASE UserPanics \/ PushOverflows
  <2>1. UNCHANGED ivars
    BY <1>5 DEF UserPanics, PushOverflows, Unwinds
  <2>2. Calling
    <3>1. call.how # "none" /\ (call.made < call.n \/ call.how = "push")
      BY <1>5 DEF UserPanics, PushOverflows, Due, Idle
    <3> QED BY <3>1, CallTypes DEF CInv, Calling
  <2> QED BY <1>2, <1>5, <2>1, <2>2, PanicsKeep
<1>6. CASE AssignTailPanics \/ PushEnds \/ CopyEnds
  BY <1>1, <1>6 DEF AssignTailPanics, PushEnds, CopyEnds
<1> QED BY <1>3, <1>4, <1>5, <1>6 DEF CloneStep

(* However many iterators there are, and whatever the calls of Program,    *)
(* Start and Bulk and the user code they run do meanwhile, each iterator   *)
(* yields a contiguous slice of the vector it was made from: no step, of   *)
(* another iterator neither, changes what it has still to yield but by     *)
(* taking the first item or the last.                                      *)
THEOREM YieldsAtTheEnds == CloneSpec => IterTakesFromTheEnds
<1>1. CInv /\ [CloneNext]_allVars => [TakenAtEnds]_<<vars, ivars>>
  <2> SUFFICES ASSUME CInv, CloneNext PROVE TakenAtEnds
    BY DEF allVars
  <2>1. CASE Program
    <3>1. Idle
      BY <2>1 DEF Program
    <3> QED BY <2>1, <3>1, ProgramStep, TakeStep, StandTakesNothing
  <2>2. CASE Start \/ Bulk
    BY <2>2, StartStep, BulkStep, StandTakesNothing
  <2>3. CASE CloneStep \/ CopyEnds
    BY <2>3, StepTakes
  <2> QED BY <2>1, <2>2, <2>3 DEF CloneNext
<1>2. TakenAtEnds <=> \A h \in iters \cap iters' :
        LET s == AsSlice(store, h)
            t == AsSlice(store, h)'
        IN  t = s \/ t = SubSeq(s, 2, Len(s)) \/ t = SubSeq(s, 1, Len(s) - 1)
  BY DEF TakenAtEnds, TakesAtEnds
<1> QED BY <1>1, <1>2, CloneInvariant, PTL DEF CloneSpec, IterTakesFromTheEnds
----------------------------------------------------------------------------
(* What becomes of the blocks.                                             *)

(* Of the block that h holds before the step.                              *)
BlockFares(h) ==
  OnHeap(store, h) =>
    \/ store'.size[store.ptr[h]] = 0
    \/ \E k \in live' \cup iters' : OnHeap(store', k) /\ store'.ptr[k] = store.ptr[h]
    \/ h \in iters /\ ForgetIter(h)
    \/ /\ h \in live' /\ OnHeap(store', h)
       /\ LenOf(store, h) = 0 \/ (call'.how = "copy" /\ past'.before = <<>>)

BlocksFare == \A h \in live \cup iters : BlockFares(h)

(* From s to g the handle h has the same block, and no block changes size. *)
SameBlock(s, g, h) == OnHeap(g, h) = OnHeap(s, h) /\ g.ptr[h] = s.ptr[h] /\ g.size = s.size

LEMMA EditedBlock ==
  ASSUME NEW s \in Storage, NEW h \in Handles, NEW n \in 0 .. MaxCap, NEW cells,
         NEW x, x = Edited(s, h, cells, n)
  PROVE  SameBlock(s, x, h) /\ OnlyTouches(s, x, {h})
<1> DEFINE mem == [s.mem EXCEPT ![AsPtr(s, h)] = cells]
           m == [word |-> s.word, ptr |-> s.ptr, cap |-> s.cap, mem |-> mem, size |-> s.size]
           w == TaggedLen(n, OnHeap(m, h))
           W == [s.word EXCEPT ![h] = w]
<1>1. /\ s = [word |-> s.word, ptr |-> s.ptr, cap |-> s.cap, mem |-> s.mem, size |-> s.size]
      /\ Shaped(s) /\ DOMAIN s.word = Handles
  BY DEF Storage, Shaped
<1>2. [s EXCEPT !.mem[AsPtr(s, h)] = cells] = m
  BY <1>1
<1>3. x = [m EXCEPT !.word[h] = w]
  BY <1>2 DEF Edited, SetLen
<1>4. m.word = s.word /\ OnHeap(m, h) = OnHeap(s, h)
  BY DEF OnHeap
<1> HIDE DEF mem
<1>5. x = [word |-> W, ptr |-> s.ptr, cap |-> s.cap, mem |-> mem, size |-> s.size]
  BY <1>3
<1>6. OnHeap(s, h) \in BOOLEAN
  BY LenType
<1>7. w % 2 = 1 <=> OnHeap(s, h)
  BY <1>4, <1>6, TaggedLenRoundTrip
<1> HIDE DEF m, w
<1>8. x.word[h] = w /\ x.ptr = s.ptr /\ x.size = s.size
  BY <1>1, <1>5
<1>9. OnHeap(x, h) = OnHeap(s, h)
  BY <1>6, <1>7, <1>8 DEF OnHeap
<1>10. OnlyTouches(s, x, {h})
  BY <1>1, SetFrame
<1> QED BY <1>8, <1>9, <1>10 DEF SameBlock

LEMMA SettledThenSame ==
  ASSUME NEW s, NEW m, NEW g, NEW h, Settled(s, m, h), SameBlock(m, g, h)
  PROVE  Settled(s, g, h)
  BY DEF Settled, SameBlock

LEMMA RoomSettles ==
  ASSUME NEW s, NEW c, NEW d, NEW l, NEW I, NEW b, NEW E, NEW X, Data(s, c, d, l, I, b, E, X),
         NEW h \in l, NEW n \in Nat, NEW g \in Reserve(s, h, n)
  PROVE  Settled(s, g, h) /\ OnlyTouches(s, g, {h})
<1> DEFINE M == Mask(s, I)
           G == Mask(g, I)
<1>1. h \in Handles \ I /\ Shaped(s) /\ Sound(M)
  BY DataFacts
<1>2. G \in Reserve(M, h, n)
  BY <1>1, MaskReserve
<1>3. /\ LenOf(M, h) = LenOf(s, h) /\ OnHeap(M, h) = OnHeap(s, h) /\ OnHeap(G, h) = OnHeap(g, h)
      /\ M.ptr = s.ptr /\ G.ptr = g.ptr /\ G.size = g.size
  BY <1>1, MaskSpares, MaskRecord
<1> HIDE DEF M, G
<1>4. Settled(M, G, h)
  BY <1>1, <1>2, ReserveSettles
<1>5. OnlyTouches(s, g, {h})
  BY <1>1, CapacityFrame
<1> QED BY <1>3, <1>4, <1>5 DEF Settled

(* The block of a handle exists.                                           *)
LEMMA BlockIs ==
  ASSUME NEW s, NEW c, NEW d, NEW l, NEW I, NEW b, NEW E, NEW X, Data(s, c, d, l, I, b, E, X),
         NEW h \in Handles, OnHeap(s, h)
  PROVE  s.ptr[h] \in Ptrs /\ Capacity(s, h) > 0
<1> DEFINE M == Mask(s, I)
<1>1. s \in Storage /\ Sound(M)
  BY DataFacts
<1>2. OnHeap(M, h) /\ M.ptr = s.ptr /\ M.cap = s.cap
  BY <1>1, MaskFacts, MaskRecord
<1>3. HandleOK(M, h)
  BY <1>1 DEF Sound
<1> HIDE DEF M
<1> QED BY <1>2, <1>3 DEF HandleOK, Capacity

(* Every handle but h keeps its block, and h fares well.                   *)
LEMMA OneFares ==
  ASSUME NEW h, OnlyTouches(store, store', {h}), CInv,
         (live \cup iters) \ {h} \subseteq live' \cup iters',
         h \in live \cup iters => BlockFares(h)
  PROVE  BlocksFare
<1> SUFFICES ASSUME NEW k \in (live \cup iters) \ {h} PROVE BlockFares(k)
  BY DEF BlocksFare
<1>1. k \in Handles
  BY DataFacts DEF CInv
<1>2. store'.word[k] = store.word[k] /\ store'.ptr[k] = store.ptr[k] /\ k \in live' \cup iters'
  BY <1>1 DEF OnlyTouches
<1>3. OnHeap(store', k) = OnHeap(store, k)
  BY <1>2 DEF OnHeap
<1> QED BY <1>2, <1>3 DEF BlockFares

LEMMA SettledFares ==
  ASSUME NEW h, h \in live', Settled(store, store', h)
  PROVE  BlockFares(h)
  BY DEF Settled, BlockFares

LEMMA SameFares ==
  ASSUME NEW h, h \in live' \cup iters', SameBlock(store, store', h)
  PROVE  BlockFares(h)
  BY DEF SameBlock, BlockFares

LEMMA ReleasedFares ==
  ASSUME NEW s, NEW c, NEW d, NEW l, NEW I, NEW b, NEW E, NEW X, Data(s, c, d, l, I, b, E, X),
         NEW h \in Handles, SameBlock(store, s, h), store' = Released(s, h)
  PROVE  BlockFares(h)
<1>1. s \in Storage /\ OnHeap(s, h) = OnHeap(store, h) /\ s.ptr[h] = store.ptr[h]
  BY DataFacts DEF SameBlock
<1> QED BY <1>1, BlockIs, ReleasedFrees DEF BlockFares

(* The step of a vector that stays, and settles.                           *)
LEMMA VectorFares ==
  ASSUME CInv, NEW h \in live, Settled(store, store', h), OnlyTouches(store, store', {h}),
         live' = live, iters' = iters
  PROVE  BlocksFare
<1>1. BlockFares(h)
  BY SettledFares
<1> QED BY <1>1, OneFares

(* Room is reserved, then h is written into.                               *)
LEMMA RoomFares ==
  ASSUME CInv, NEW X, Data(store, caller, dropped, live, iters, begin, leaked, X),
         NEW h \in live, NEW n \in Nat, NEW s \in Reserve(store, h, n) \cup {store},
         NEW cells, NEW len \in 0 .. MaxCap,
         store' = Edited(s, h, cells, len) \/ store' = s,
         live' = live, iters' = iters
  PROVE  BlocksFare
<1>1. h \in Handles /\ Shaped(store) /\ store \in Storage
  BY DataFacts
<1>2. Settled(store, s, h) /\ OnlyTouches(store, s, {h}) /\ s \in Storage
  <2>1. CASE s = store
    BY <1>1, <2>1, StaySettles DEF OnlyTouches
  <2>2. CASE s \in Reserve(store, h, n)
    <3>1. Data(s, caller, dropped, live, iters, begin, leaked, X)
      BY <2>2, DataReserve
    <3> QED BY <2>2, <3>1, RoomSettles, DataFacts
  <2> QED BY <2>1, <2>2
<1>3. CASE store' = s
  BY <1>2, <1>3, VectorFares
<1>4. CASE store' = Edited(s, h, cells, len)
  <2>1. SameBlock(s, store', h) /\ OnlyTouches(s, store', {h})
    BY <1>1, <1>2, <1>4, EditedBlock
  <2>2. Settled(store, store', h)
    BY <1>2, <2>1, SettledThenSame
  <2>3. OnlyTouches(store, store', {h} \cup {h})
    BY <1>2, <2>1, FramesCompose
  <2>4. {h} \cup {h} = {h}
    OBVIOUS
  <2>5. OnlyTouches(store, store', {h})
    BY <2>3, <2>4
  <2> QED BY <2>2, <2>5, VectorFares
<1> QED BY <1>3, <1>4

(* A constructor takes a handle that nobody has.                           *)
LEMMA MadeFares ==
  ASSUME CInv, NEW h, h \notin live \cup iters, OnlyTouches(store, store', {h}),
         live \cup iters \subseteq live' \cup iters'
  PROVE  BlocksFare
  BY OneFares

(* A vector or an iterator that is dropped gives its block back.           *)
LEMMA DropFares ==
  ASSUME CInv, NEW h \in live \cup iters, store' = Released(store, h),
         (live \cup iters) \ {h} \subseteq live' \cup iters'
  PROVE  BlocksFare
<1>1. h \in Handles /\ Shaped(store)
  BY DataFacts DEF CInv
<1>2. SameBlock(store, store, h)
  BY DEF SameBlock
<1>3. BlockFares(h)
  BY <1>1, <1>2, ReleasedFares DEF CInv
<1>4. OnlyTouches(store, store', {h})
  BY <1>1, ReleasedFrame
<1> QED BY <1>3, <1>4, OneFares

(* Nothing is written, and nobody ends.                                    *)
LEMMA QuietFares ==
  ASSUME store' = store, live \cup iters \subseteq live' \cup iters'
  PROVE  BlocksFare
  BY DEF BlocksFare, BlockFares

LEMMA FromVecFares ==
  ASSUME CInv, Idle, NEW h \in SmallVecs, FromVec(h), iters' = iters, live' \cap iters' = {}
  PROVE  BlocksFare
<1>1. /\ Std \in live /\ h \notin live \cup iters /\ live' = (live \ {Std}) \cup {h}
      /\ store' = IF Capacity(store, Std) = 0 THEN NewInline(store, h) ELSE HandOver(store, Std, h)
  BY DEF FromVec
<1>2. /\ Std \in Handles /\ h \in Handles \ {Std} /\ Shaped(store)
      /\ Data(store, caller, dropped, live, iters, begin, leaked, {})
  BY DataFacts, IdleOwn, StdAssumption DEF SmallVecs, CInv
<1>3. OnHeap(store, Std) => store' = HandOver(store, Std, h)
  <2>1. OnHeap(store, Std) => Capacity(store, Std) > 0
    BY <1>2, BlockIs
  <2> QED BY <1>1, <2>1
<1>4. BlockFares(Std)
  <2> SUFFICES ASSUME OnHeap(store, Std)
               PROVE  OnHeap(store', h) /\ store'.ptr[h] = store.ptr[Std]
    BY <1>1 DEF BlockFares
  <2>1. store'.word[h] = store.word[Std] /\ store'.ptr[h] = store.ptr[Std]
    BY <1>2, <1>3, HandOverHolds
  <2> QED BY <2>1 DEF OnHeap
<1> DEFINE H == {h, Std}
<1>5. OnlyTouches(store, store', H)
  <2>1. OnlyTouches(store, NewInline(store, h), {h})
    BY <1>2, NewFrame
  <2>2. OnlyTouches(store, HandOver(store, Std, h), {Std, h})
    BY <1>2, HandOverFrame
  <2> QED BY <1>1, <2>1, <2>2 DEF OnlyTouches
<1>6. ASSUME NEW k \in (live \cup iters) \ {Std}
      PROVE  BlockFares(k)
  <2>1. k \in Handles \ H /\ k \in live' \cup iters'
    BY <1>1, DataFacts DEF CInv
  <2> HIDE DEF H
  <2>2. store'.word[k] = store.word[k] /\ store'.ptr[k] = store.ptr[k]
    BY <1>5, <2>1 DEF OnlyTouches
  <2> QED BY <2>1, <2>2 DEF BlockFares, OnHeap
<1> QED BY <1>4, <1>6 DEF BlocksFare

LEMMA PushFares ==
  ASSUME CInv, NEW X, Data(store, caller, dropped, live, iters, begin, leaked, X),
         NEW h, Push(h), iters' = iters
  PROVE  BlocksFare
<1> DEFINE room == IF LenOf(store, h) = Capacity(store, h) THEN Reserve(store, h, 1) ELSE {store}
<1>1. PICK e \in caller, s \in room :
        store' = Edited(s, h, [Cells(s, h) EXCEPT ![LenOf(store, h)] = e], LenOf(store, h) + 1)
  BY DEF Push
<1>2. h \in live /\ live' = live /\ h \in Handles \ iters
  BY DataFacts DEF Push
<1>3. s \in Reserve(store, h, 1) \cup {store}
  BY <1>1
<1>4. LenOf(store, h) + 1 \in 0 .. MaxCap
  <2>1. LenOf(store', h) \in 0 .. MaxCap /\ LenOf(store', h) = LenOf(store, h) + 1
    <3>1. /\ Data(store', caller', dropped', live', iters, begin, leaked, X)
          /\ LenOf(store', h) = LenOf(store, h) + 1
      BY PushData
    <3> QED BY <1>2, <3>1, DataVector
  <2> QED BY <2>1
<1> HIDE DEF room
<1> DEFINE len == LenOf(store, h) + 1
           one == 1
           cells == [Cells(s, h) EXCEPT ![LenOf(store, h)] = e]
<1>5. /\ len \in 0 .. MaxCap /\ one \in Nat /\ store' = Edited(s, h, cells, len)
      /\ s \in Reserve(store, h, one) \cup {store}
  BY <1>1, <1>3, <1>4
<1> HIDE DEF len, one, cells
<1> QED BY <1>2, <1>5, RoomFares

LEMMA YieldFares ==
  ASSUME CInv, NEW h, NextItem(h) \/ NextBackItem(h)
  PROVE  BlocksFare
<1>1. PICK i, n :
        /\ n = LenOf(store, h) \/ n = LenOf(store, h) - 1
        /\ h \in iters /\ begin[h] # LenOf(store, h) /\ live' = live /\ iters' = iters
        /\ store' = Edited(store, h, Wipe(Cells(store, h), i, 1), n)
  BY DEF NextItem, NextBackItem, YieldItem
<1>2. /\ h \in Handles /\ begin[h] \in 0 .. MaxCap /\ LenOf(store, h) \in 0 .. MaxCap
      /\ begin[h] <= LenOf(store, h) /\ store \in Storage
  BY <1>1, IterFacts, DataFacts DEF CInv
<1>3. n \in 0 .. MaxCap
  BY <1>1, <1>2, RawAssumption
<1>4. SameBlock(store, store', h) /\ OnlyTouches(store, store', {h})
  BY <1>1, <1>2, <1>3, EditedBlock
<1> QED BY <1>1, <1>4, SameFares, OneFares

(* A forgotten iterator's block is the leak the property names.            *)
LEMMA ForgetFares ==
  ASSUME CInv, NEW h, ForgetIter(h)
  PROVE  BlocksFare
<1>1. h \in iters /\ store' = NewInline(store, h) /\ live' = live /\ iters' = iters \ {h}
  BY DEF ForgetIter, IterGone
<1>2. h \in Handles /\ Shaped(store)
  BY <1>1, DataFacts DEF CInv
<1>3. OnlyTouches(store, store', {h})
  BY <1>1, <1>2, NewFrame
<1> QED BY <1>1, <1>3, OneFares DEF BlockFares

LEMMA ProgramFares ==
  ASSUME CInv, Program
  PROVE  BlocksFare
<1>1. Idle /\ live' \cap iters' = {}
  BY DEF Program
<1>2. /\ Data(store, caller, dropped, live, iters, begin, leaked, {})
      /\ Shaped(store) /\ live \subseteq Handles
  BY <1>1, IdleOwn, DataFacts
<1>3. ASSUME UNCHANGED ivars, NEW h \in Handles, NEW c \in Sizes, NEW n \in Sizes,
             New(h) \/ NewWithCapacity(h, c) \/ VecNew(c, n)
      PROVE  BlocksFare
  <2>1. PICK k \in Handles : /\ k \notin live /\ live' = live \cup {k} /\ iters' = iters
                             /\ OnlyTouches(store, store', {k})
    <3>1. CASE New(h)
      <4>1. h \in Handles
        BY <3>1 DEF New, Construct, SmallVecs
      <4> QED BY <1>2, <1>3, <3>1, <4>1, NewFrame DEF New, Construct, ivars
    <3>2. CASE NewWithCapacity(h, c)
      <4>1. h \in Handles
        BY <3>2 DEF NewWithCapacity, Construct, SmallVecs
      <4> QED BY <1>2, <1>3, <3>2, <4>1, CapacityFrame DEF NewWithCapacity, Construct, ivars
    <3>3. CASE VecNew(c, n)
      <4>1. PICK f, s : s \in WithCapacity(store, Std, c) /\ store' = Edited(s, Std, Filled(f, n), n)
        BY <3>3 DEF VecNew
      <4>2. OnlyTouches(store, s, {Std}) /\ Std \in Handles /\ Shaped(s)
        BY <1>2, <4>1, CapacityFrame, StdAssumption DEF OnlyTouches
      <4>3. OnlyTouches(s, store', {Std})
        BY <4>1, <4>2, SetFrame
      <4>4. OnlyTouches(store, store', {Std} \cup {Std})
        BY <4>2, <4>3, FramesCompose
      <4>5. OnlyTouches(store, store', {Std})
        BY <4>4 DEF OnlyTouches
      <4> QED BY <1>3, <3>3, <4>2, <4>5 DEF VecNew, ivars
    <3> QED BY <1>3, <3>1, <3>2, <3>3
  <2>2. k \notin iters
    BY <1>1, <2>1
  <2> QED BY <2>1, <2>2, MadeFares
<1>4. ASSUME UNCHANGED ivars, NEW h, FromVec(h)
      PROVE  BlocksFare
  <2>1. h \in SmallVecs
    BY <1>4 DEF FromVec
  <2> QED BY <1>1, <1>4, <2>1, FromVecFares DEF ivars
<1>5. ASSUME UNCHANGED ivars, NEW h, Push(h)
      PROVE  BlocksFare
  BY <1>2, <1>5, PushFares DEF ivars
<1>6. ASSUME UNCHANGED ivars, NEW h, DropVec(h)
      PROVE  BlocksFare
  BY <1>6, DropFares DEF DropVec, Discard, ivars
<1>7. ASSUME IterNext
      PROVE  BlocksFare
  <2>1. PICK h \in Handles : \/ IntoIterCall(h) \/ NextItem(h) \/ NextBackItem(h)
                             \/ DropIter(h) \/ ForgetIter(h)
    BY <1>7 DEF IterNext
  <2>2. CASE IntoIterCall(h)
    BY <2>2, QuietFares DEF IntoIterCall
  <2>3. CASE DropIter(h)
    BY <2>3, DropFares DEF DropIter, IterGone
  <2> QED BY <2>1, <2>2, <2>3, YieldFares, ForgetFares
<1>8. PICK n \in Sizes : n = 0
  BY RawAssumption DEF Sizes
<1> QED BY <1>3, <1>4, <1>5, <1>6, <1>7, <1>8 DEF Program

----------------------------------------------------------------------------
(* How a call begins.                                                      *)

LEMMA BeginsFares ==
  ASSUME CInv, NEW h, NEW outcomes, NEW c, NEW want, Begins(h, outcomes, c, want),
         NEW n \in Nat, outcomes = Reserve(store, h, n)
  PROVE  BlocksFare
<1>1. /\ h \in live /\ live' = live /\ Idle /\ UNCHANGED ivars
      /\ store' \in Reserve(store, h, n)
  BY DEF Begins, Begin
<1>2. iters' = iters /\ Data(store, caller, dropped, live, iters, begin, leaked, {})
  BY <1>1, IdleOwn DEF ivars
<1>3. Settled(store, store', h) /\ OnlyTouches(store, store', {h})
  BY <1>1, <1>2, RoomSettles
<1> QED BY <1>1, <1>2, <1>3, VectorFares

LEMMA ConstructsFares ==
  ASSUME CInv, NEW h, NEW outcomes, NEW c, NEW want, Constructs(h, outcomes, c, want), NEW n,
         outcomes = WithCapacity(store, h, n) \/ outcomes = Reserve(NewInline(store, h), h, n)
  PROVE  BlocksFare
<1>1. /\ h \in Handles /\ h \notin live \cup iters /\ live' = live \cup {h} /\ iters' = iters
      /\ store' \in outcomes
  BY DEF Constructs, Construct, SmallVecs, Begin, ivars
<1>2. Shaped(store)
  BY DataFacts DEF CInv
<1>3. OnlyTouches(store, store', {h})
  <2>1. CASE outcomes = WithCapacity(store, h, n)
    BY <1>1, <1>2, <2>1, CapacityFrame
  <2>2. CASE outcomes = Reserve(NewInline(store, h), h, n)
    <3> DEFINE m == NewInline(store, h)
    <3>1. OnlyTouches(store, m, {h}) /\ Shaped(m) /\ store' \in Reserve(m, h, n)
      BY <1>1, <1>2, <2>2, NewFrame DEF OnlyTouches
    <3> HIDE DEF m
    <3>2. OnlyTouches(m, store', {h})
      BY <1>1, <3>1, CapacityFrame
    <3>3. OnlyTouches(store, store', {h} \cup {h})
      BY <3>1, <3>2, FramesCompose
    <3> QED BY <3>3 DEF OnlyTouches
  <2> QED BY <2>1, <2>2
<1> QED BY <1>1, <1>3, MadeFares

LEMMA CutFares ==
  ASSUME CInv, Idle, NEW h \in live, NEW n \in Nat, n <= LenOf(store, h), NEW cells,
         store' = Edited(store, h, cells, n), live' = live, iters' = iters
  PROVE  BlocksFare
<1>1. /\ h \in Handles \ iters /\ store \in Storage
      /\ Data(store, caller, dropped, live, iters, begin, leaked, {})
  BY IdleOwn, DataFacts
<1>2. n \in 0 .. MaxCap
  <2>1. LenOf(store, h) \in 0 .. MaxCap /\ MaxCap \in Nat
    BY <1>1, DataVector, RawAssumption
  <2> QED BY <2>1
<1>3. SameBlock(store, store', h) /\ OnlyTouches(store, store', {h})
  BY <1>1, <1>2, EditedBlock
<1> QED BY <1>3, SameFares, OneFares

LEMMA StartFares ==
  ASSUME CInv, Start
  PROVE  BlocksFare
<1>1. PICK h \in Handles, n \in Sizes :
        \/ \E k \in Handles, at \in Slots : FromSlice(h, k, at, n)
        \/ FromElem(h, n) \/ Extend(h, n) \/ SpecExtend(h, n) \/ FromIter(h, n)
        \/ SpecFromIter(h, n) \/ VisitSeq(h, n) \/ ResizeUp(h, n) \/ ResizeDown(h, n)
        \/ ResizeWith(h, n) \/ ArgumentDropped(h, n)
        \/ \E at \in Slots : ExtendFromWithin(h, at, n)
        \/ \E k \in Handles, at \in Slots : ExtendFromSlice(h, k, at, n)
        \/ \E k \in Handles : CloneFrom(h, k)
  BY DEF Start
<1>2. n \in Nat
  BY RawAssumption DEF Sizes
<1>3. ASSUME \/ FromElem(h, n) \/ FromIter(h, n) \/ SpecFromIter(h, n) \/ VisitSeq(h, n)
             \/ \E k \in Handles, at \in Slots : FromSlice(h, k, at, n)
      PROVE  BlocksFare
  <2>1. PICK outcomes, c, want :
          /\ Constructs(h, outcomes, c, want)
          /\ outcomes = WithCapacity(store, h, n) \/ outcomes = Reserve(NewInline(store, h), h, n)
    BY <1>3 DEF FromElem, FromIter, SpecFromIter, VisitSeq, FromSlice
  <2> QED BY <2>1, ConstructsFares
<1>4. ASSUME \/ Extend(h, n) \/ SpecExtend(h, n)
             \/ \E at \in Slots : ExtendFromWithin(h, at, n)
             \/ \E k \in Handles, at \in Slots : ExtendFromSlice(h, k, at, n)
      PROVE  BlocksFare
  <2>1. PICK outcomes, c, want :
          Begins(h, outcomes, c, want) /\ outcomes = Reserve(store, h, n)
    BY <1>4 DEF Extend, SpecExtend, ExtendFromWithin, ExtendFromSlice
  <2> QED BY <1>2, <2>1, BeginsFares
<1>5. ASSUME ResizeUp(h, n) \/ ResizeWith(h, n)
      PROVE  BlocksFare
  <2> DEFINE more == n - LenOf(store, h)
  <2>1. PICK outcomes, c, want :
          Begins(h, outcomes, c, want) /\ outcomes = Reserve(store, h, more) /\ more > 0
    BY <1>5 DEF ResizeUp, ResizeWith
  <2>2. LenOf(store, h) \in Nat
    BY DataFacts, LenType DEF CInv
  <2>3. more \in Nat
    BY <1>2, <2>1, <2>2
  <2> HIDE DEF more
  <2> QED BY <2>1, <2>3, BeginsFares
<1>6. CASE ResizeDown(h, n)
  <2>1. PICK cells : store' = Edited(store, h, cells, n)
    BY <1>6 DEF ResizeDown
  <2>2. h \in live /\ n <= LenOf(store, h) /\ Idle /\ live' = live /\ iters' = iters
    BY <1>6 DEF ResizeDown, ivars
  <2> QED BY <1>2, <2>1, <2>2, CutFares
<1>7. CASE ArgumentDropped(h, n)
  BY <1>7, QuietFares DEF ArgumentDropped, DropArgument, ivars
<1>8. ASSUME NEW k \in Handles, CloneFrom(h, k)
      PROVE  BlocksFare
  <2> DEFINE m == IF LenOf(store, h) < LenOf(store, k) THEN LenOf(store, h) ELSE LenOf(store, k)
  <2>1. CutTo(h, m) /\ h \in live /\ Idle /\ UNCHANGED ivars
    BY <1>8 DEF CloneFrom
  <2>2. LenOf(store, h) \in Nat /\ LenOf(store, k) \in Nat
    BY DataFacts, LenType DEF CInv
  <2>3. m \in Nat /\ m <= LenOf(store, h)
    BY <2>2
  <2> HIDE DEF m
  <2>4. /\ store' = Edited(store, h, Wipe(Cells(store, h), m, LenOf(store, h) - m), m)
        /\ live' = live /\ iters' = iters
    BY <2>1 DEF CutTo, ivars
  <2> QED BY <2>1, <2>3, <2>4, CutFares
<1> QED BY <1>1, <1>3, <1>4, <1>5, <1>6, <1>7, <1>8

----------------------------------------------------------------------------
(* How it goes on.                                                         *)

(* The vector of the running call is written into.                         *)
LEMMA TargetFares ==
  ASSUME CInv, NEW n \in 0 .. MaxCap, NEW cells, store' = Edited(store, v, cells, n),
         v \in live, live' = live, iters' = iters
  PROVE  BlocksFare
<1>1. v \in Handles /\ store \in Storage
  BY DataFacts DEF CInv
<1>2. SameBlock(store, store', v) /\ OnlyTouches(store, store', {v})
  BY <1>1, EditedBlock
<1> QED BY <1>2, SameFares, OneFares

LEMMA CallTarget ==
  ASSUME CInv, Calling
  PROVE  /\ v \in live /\ v \in Handles /\ store \in Storage /\ LenOf(store, v) \in 0 .. MaxCap
         /\ MaxCap \in Nat /\ Capacity(store, v) \in 0 .. MaxCap
         /\ TargetOK(call, store, live, Apart)
         /\ AsPtr(store, v) \in Handles \cup Ptrs
         /\ Data(store, caller, dropped, live, iters, begin, leaked, Apart)
<1>1. /\ TargetOK(call, store, live, Apart)
      /\ Data(store, caller, dropped, live, iters, begin, leaked, Apart)
  BY DEF CInv
<1>2. v \in live
  BY <1>1 DEF TargetOK, v
<1>3. v \in Handles \ iters /\ store \in Storage
  BY <1>1, <1>2, DataFacts
<1>4. /\ LenOf(store, v) \in 0 .. MaxCap /\ Capacity(store, v) \in 0 .. MaxCap
      /\ AsPtr(store, v) \in Handles \cup Ptrs
  BY <1>1, <1>3, DataVector, AddressType
<1> QED BY <1>1, <1>2, <1>3, <1>4, RawAssumption

LEMMA WriteFares ==
  ASSUME CInv, GuardStep \/ AssignStep
  PROVE  BlocksFare
<1>1. Calling
  BY DEF GuardStep, AssignStep, Calling
<1>2. PICK i, e : /\ store' = [store EXCEPT !.mem[AsPtr(store, v)][i] = e]
                  /\ live' = live /\ iters' = iters
  BY DEF GuardStep, AssignStep, Take, ivars
<1>3. v \in live /\ v \in Handles /\ store \in Storage /\ LenOf(store, v) \in 0 .. MaxCap
  BY <1>1, CallTarget
<1>4. store' = Edited(store, v, PutAt(Cells(store, v), i, e), LenOf(store, v))
  BY <1>2, <1>3, ItemRewrite
<1> QED BY <1>2, <1>3, <1>4, TargetFares

LEMMA TailFares ==
  ASSUME CInv, AssignTail
  PROVE  BlocksFare
<1> DEFINE rest == LenOf(store, call.src) - call.n
<1>1. /\ Calling /\ call.how = "assign"
      /\ store' \in Reserve(store, v, rest) /\ live' = live /\ iters' = iters
  BY DEF AssignTail, Calling, ivars
<1>2. /\ v \in live /\ Data(store, caller, dropped, live, iters, begin, leaked, Apart)
      /\ TargetOK(call, store, live, Apart) /\ SourceOK(call, store, caller, live \cup iters, begin)
  BY <1>1, CallTarget DEF CInv
<1>3. call.src \in live /\ call.at + call.n <= LenOf(store, call.src)
  BY <1>1, <1>2 DEF TargetOK, SourceOK
<1>4. LenOf(store, call.src) \in Nat
  BY <1>2, <1>3, LengthType
<1>5. rest \in Nat
  BY <1>3, <1>4, CallTypes
<1> HIDE DEF rest
<1>6. Settled(store, store', v) /\ OnlyTouches(store, store', {v})
  BY <1>1, <1>2, <1>5, RoomSettles
<1> QED BY <1>1, <1>2, <1>6, VectorFares

LEMMA GuardEndsFares ==
  ASSUME CInv, GuardEnds
  PROVE  BlocksFare
<1> DEFINE n == call.base + call.n
<1>1. /\ Calling /\ call.how = "guard" /\ store' = SetLen(store, v, n)
      /\ live' = live /\ iters' = iters
  BY DEF GuardEnds, Calling, ivars
<1>2. /\ v \in live /\ v \in Handles /\ store \in Storage /\ TargetOK(call, store, live, Apart)
      /\ AsPtr(store, v) \in Handles \cup Ptrs /\ Capacity(store, v) \in 0 .. MaxCap
  BY <1>1, CallTarget
<1>3. n \in 0 .. MaxCap
  <2>1. n <= Capacity(store, v)
    BY <1>1, <1>2 DEF TargetOK, v
  <2> QED BY <1>2, <2>1, CallTypes
<1> HIDE DEF n
<1>4. store' = Edited(store, v, Cells(store, v), n)
  BY <1>1, <1>2, SetLenRewrites
<1> QED BY <1>1, <1>2, <1>3, <1>4, TargetFares

(* The unwinding writes over what it drops; a vector of the call's own    *)
(* gives its block back.                                                   *)
LEMMA UnwindFares ==
  ASSUME CInv, Calling, NEW F \in SUBSET caller, Unwinds(F)
  PROVE  BlocksFare
<1> DEFINE n == LenOf(store, v)
           src == Cells(store, v)
           cells == [i \in Slots |-> IF i \in Guarded THEN Uninit ELSE src[i]]
           kept == [store EXCEPT !.mem[AsPtr(store, v)] = cells]
<1>1. /\ iters' = iters
      /\ IF call.fresh THEN store' = Released(kept, v) /\ live' = live \ {v}
                       ELSE store' = kept /\ live' = live
  BY DEF Unwinds, ivars, Cells
<1>2. /\ v \in live /\ v \in Handles /\ store \in Storage /\ n \in 0 .. MaxCap
      /\ Data(store, caller, dropped, live, iters, begin, leaked, Apart)
  BY CallTarget
<1>6. kept \in Storage
  <2>1. AsPtr(store, v) \in Handles \cup Ptrs
    BY CallTarget
  <2>2. src \in Block
    BY <1>2, <2>1 DEF Cells, Storage, Memory
  <2>3. cells \in Block
    BY <2>2 DEF Block, Cell
  <2> HIDE DEF cells
  <2>4. [store.mem EXCEPT ![AsPtr(store, v)] = cells] \in Memory
    BY <1>2, <2>1, <2>3 DEF Storage, Memory
  <2> QED BY <1>2, <2>4 DEF Storage
<1> HIDE DEF src
<1>3. kept = Edited(store, v, cells, n)
  <2> HIDE DEF cells
  <2> QED BY <1>2, CellsRewrite
<1> HIDE DEF kept, cells, n
<1>4. CASE ~call.fresh
  BY <1>1, <1>2, <1>3, <1>4, TargetFares
<1>5. CASE call.fresh
  <2>1. SameBlock(store, kept, v) /\ OnlyTouches(store, kept, {v})
    BY <1>2, <1>3, EditedBlock
  <2>2. store' = Released(kept, v) /\ live' = live \ {v}
    BY <1>1, <1>5
  <2>3. OnlyTouches(kept, store', {v}) 
    BY <1>2, <2>1, <2>2, ReleasedFrame DEF OnlyTouches
  <2>4. OnlyTouches(store, store', {v} \cup {v})
    BY <2>1, <2>3, FramesCompose
  <2>5. OnlyTouches(store, store', {v})
    BY <2>4 DEF OnlyTouches
  <2>6. BlockFares(v)
    <3> SUFFICES ASSUME OnHeap(store, v) PROVE store'.size[store.ptr[v]] = 0
      BY DEF BlockFares
    <3>1. store.ptr[v] \in Ptrs
      BY <1>2, BlockIs
    <3> QED BY <1>2, <1>6, <2>1, <2>2, <3>1, ReleasedFrees DEF SameBlock
  <2> QED BY <1>1, <2>2, <2>5, <2>6, OneFares
<1> QED BY <1>4, <1>5

LEMMA StepFares ==
  ASSUME CInv, CloneStep \/ CopyEnds
  PROVE  BlocksFare
<1>1. CASE PushStep
  <2>1. Push(v) /\ iters' = iters
    BY <1>1 DEF PushStep, Take, ivars
  <2> QED BY <2>1, PushFares DEF CInv
<1>2. CASE UserPanics \/ PushOverflows
  <2>1. PICK F \in SUBSET caller : Unwinds(F)
    BY <1>2 DEF UserPanics, PushOverflows
  <2>2. Calling
    <3>1. call.how # "none" /\ (call.made < call.n \/ call.how = "push")
      BY <1>2 DEF UserPanics, PushOverflows, Due, Idle
    <3> QED BY <3>1, CallTypes DEF CInv, Calling
  <2> QED BY <2>1, <2>2, UnwindFares
<1>3. CASE AssignTailPanics \/ PushEnds \/ CopyEnds
  BY <1>3, QuietFares DEF AssignTailPanics, PushEnds, CopyEnds, vars, ivars
<1> QED BY <1>1, <1>2, <1>3, WriteFares, TailFares, GuardEndsFares DEF CloneStep

----------------------------------------------------------------------------
(* Moves in bulk.                                                          *)

(* Room for n items, and m of them at the end.                             *)
LEMMA FillFares ==
  ASSUME CInv, Idle, NEW h \in live, NEW n \in Nat, NEW m \in Nat, m <= n,
         NEW s \in Reserve(store, h, n), NEW cells, store' = Edited(s, h, cells, LenOf(s, h) + m),
         live' = live, iters' = iters
  PROVE  BlocksFare
<1>1. Data(store, caller, dropped, live, iters, begin, leaked, {})
  BY IdleOwn
<1>2. /\ Data(s, caller, dropped, live, iters, begin, leaked, {})
      /\ Capacity(s, h) >= LenOf(s, h) + n
  BY <1>1, DataReserve
<1> DEFINE len == LenOf(s, h) + m
<1>3. len \in 0 .. MaxCap
  <2>1. LenOf(s, h) \in Nat /\ Capacity(s, h) \in Nat /\ Capacity(s, h) <= MaxCap /\ MaxCap \in Nat
    BY <1>2, LengthType, RawAssumption
  <2> QED BY <1>2, <2>1
<1>4. store' = Edited(s, h, cells, len) /\ s \in Reserve(store, h, n) \cup {store}
  OBVIOUS
<1> HIDE DEF len
<1> QED BY <1>1, <1>3, <1>4, RoomFares

LEMMA CopyCallFares ==
  ASSUME CInv, NEW h, NEW index, NEW k, NEW at \in Nat, NEW n \in Nat, CopyCall(h, index, k, at, n)
  PROVE  BlocksFare
<1>1. /\ Idle /\ h \in live /\ Slice(k, at, n) /\ live' = live /\ iters' = iters
      /\ CopyIn(Reserve(store, h, n), h, index, SliceValues(k, at, n))
  BY DEF CopyCall, ivars
<1>2. Len(SliceValues(k, at, n)) = n
  BY <1>1, SliceElems
<1>3. PICK s, cells : s \in Reserve(store, h, n) /\ store' = Edited(s, h, cells, LenOf(s, h) + n)
  BY <1>1, <1>2 DEF CopyIn
<1> QED BY <1>1, <1>3, FillFares

LEMMA CopyMakesFares ==
  ASSUME CInv, NEW h, Construct(h), h \notin iters, NEW outcomes, NEW want, CopyIn(outcomes, h, 0, want),
         NEW n, outcomes = WithCapacity(store, h, n) \/ outcomes = {NewInline(store, h)}, iters' = iters
  PROVE  BlocksFare
<1>1. h \in Handles /\ h \notin live \cup iters /\ live' = live \cup {h} /\ Shaped(store)
  BY DataFacts DEF Construct, SmallVecs, CInv
<1>2. PICK s, cells, m : s \in outcomes /\ store' = Edited(s, h, cells, m)
  BY DEF CopyIn
<1>3. OnlyTouches(store, s, {h}) /\ Shaped(s)
  BY <1>1, <1>2, CapacityFrame, NewFrame DEF OnlyTouches
<1>4. OnlyTouches(s, store', {h})
  BY <1>1, <1>2, <1>3, SetFrame
<1>5. OnlyTouches(store, store', {h} \cup {h})
  BY <1>3, <1>4, FramesCompose
<1>6. OnlyTouches(store, store', {h})
  BY <1>5 DEF OnlyTouches
<1> QED BY <1>1, <1>6, MadeFares

(* A spilled vector that clone_from has cleared may lose its block.        *)
LEMMA CloneFromCopyFares ==
  ASSUME CInv, NEW h, NEW k, CloneFromCopy(h, k)
  PROVE  BlocksFare
<1> DEFINE n == LenOf(store, k)
           empty == Edited(store, h, Blank, 0)
           want == SliceValues(k, 0, n)
           D == dropped \cup Owned(store, h)
<1>1. /\ Idle /\ h \in live /\ k \in live /\ live' = live /\ iters' = iters
      /\ CopyIn(Reserve(empty, h, n), h, 0, want)
  BY DEF CloneFromCopy, ivars
<1>2. Data(store, caller, dropped, live, iters, begin, leaked, {})
  BY <1>1, IdleOwn
<1>3. h \in Handles /\ store \in Storage /\ n \in Nat /\ begin[k] = 0
  BY <1>1, <1>2, LengthType, DataFacts
<1>4. Data(empty, caller, D, live, iters, begin, leaked, {}) /\ LenOf(empty, h) = 0
  <2>1. empty = Edited(store, h, Blank, 0) /\ D = dropped \cup Owned(store, h)
    OBVIOUS
  <2> HIDE DEF empty, D
  <2> QED BY <1>1, <1>2, <2>1, DataCleared
<1>5. SameBlock(store, empty, h) /\ OnlyTouches(store, empty, {h})
  <2>1. 0 \in 0 .. MaxCap /\ empty = Edited(store, h, Blank, 0)
    BY RawAssumption
  <2> HIDE DEF empty
  <2> QED BY <1>3, <2>1, EditedBlock
<1>6. Len(want) = n
  <2>1. Slice(k, 0, n) /\ 0 \in Nat
    BY <1>1, <1>3 DEF Slice
  <2> QED BY <1>1, <1>3, <2>1, SliceElems
<1>7. PICK s, cells :
        /\ s \in Reserve(empty, h, n)
        /\ store' = Edited(s, h, cells, LenOf(s, h) + n)
        /\ past' = [before |-> Values(s, h, val), want |-> want]
        /\ call' = [NoCall EXCEPT !.how = "copy", !.vec = h, !.base = 0]
  BY <1>1, <1>6 DEF CopyIn
<1> HIDE DEF n, empty, want, D
<1>8. /\ Data(s, caller, D, live, iters, begin, leaked, {}) /\ LenOf(s, h) = 0
      /\ Capacity(s, h) >= LenOf(s, h) + n
  BY <1>1, <1>3, <1>4, <1>7, DataReserve
<1>9. Settled(empty, s, h) /\ OnlyTouches(empty, s, {h})
  BY <1>1, <1>3, <1>4, <1>7, RoomSettles
<1>10. SameBlock(s, store', h) /\ OnlyTouches(s, store', {h})
  <2>1. LenOf(s, h) + n \in 0 .. MaxCap
    <3>1. Capacity(s, h) \in Nat /\ Capacity(s, h) <= MaxCap /\ MaxCap \in Nat
      BY <1>1, <1>8, LengthType, RawAssumption
    <3> QED BY <1>3, <1>8, <3>1
  <2>2. s \in Storage
    BY <1>8, DataFacts
  <2> QED BY <1>3, <1>7, <2>1, <2>2, EditedBlock
<1>11. call'.how = "copy" /\ past'.before = <<>>
  <2>1. Values(s, h, val) = <<>>
    BY <1>8 DEF Values, ValuesOf, Contents, Items
  <2> QED BY <1>7, <2>1 DEF NoCall
<1>12. Settled(empty, store', h)
  BY <1>9, <1>10, SettledThenSame
<1>13. BlockFares(h)
  BY <1>1, <1>5, <1>11, <1>12 DEF Settled, SameBlock, BlockFares
<1>14. OnlyTouches(store, store', {h})
  BY <1>5, <1>9, <1>10 DEF OnlyTouches
<1> QED BY <1>1, <1>13, <1>14, OneFares

(* The iterator's block goes back, whatever becomes of h's.                *)
LEMMA ExtendFromIterFares ==
  ASSUME CInv, NEW h, NEW k, ExtendFromIter(h, k)
  PROVE  BlocksFare
<1> DEFINE n == LenOf(store, k) - begin[k]
<1>1. /\ Idle /\ h \in live /\ k \in iters /\ iters' = iters \ {k} /\ live' = live
  BY DEF ExtendFromIter, IterGone
<1>2. PICK s, cells :
        s \in Reserve(store, h, n) /\ store' = Released(Edited(s, h, cells, LenOf(store, h) + n), k)
  BY DEF ExtendFromIter
<1>3. Data(store, caller, dropped, live, iters, begin, leaked, {})
  BY <1>1, IdleOwn
<1>4. /\ n \in Nat /\ k \in Handles /\ h \in Handles /\ h # k /\ MaxCap \in Nat
  <2>1. /\ k \in Handles /\ k \notin live /\ begin[k] \in 0 .. MaxCap /\ LenOf(store, k) \in 0 .. MaxCap
        /\ begin[k] <= LenOf(store, k)
    BY <1>1, <1>3, IterFacts
  <2> QED BY <1>1, <1>3, <2>1, DataFacts, RawAssumption
<1> HIDE DEF n
<1>5. /\ Data(s, caller, dropped, live, iters, begin, leaked, {}) /\ LenOf(s, h) = LenOf(store, h)
      /\ Capacity(s, h) >= LenOf(s, h) + n
  BY <1>1, <1>2, <1>3, <1>4, DataReserve
<1>6. Settled(store, s, h) /\ OnlyTouches(store, s, {h})
  BY <1>1, <1>2, <1>3, <1>4, RoomSettles
<1> DEFINE len == LenOf(store, h) + n
           x == Edited(s, h, cells, len)
<1>7. SameBlock(s, x, h) /\ OnlyTouches(s, x, {h})
  <2>1. len \in 0 .. MaxCap
    <3>1. LenOf(s, h) \in Nat /\ Capacity(s, h) \in Nat /\ Capacity(s, h) <= MaxCap
      BY <1>1, <1>5, LengthType
    <3> QED BY <1>4, <1>5, <3>1
  <2>2. s \in Storage /\ x = Edited(s, h, cells, len)
    BY <1>5, DataFacts
  <2> HIDE DEF x, len
  <2> QED BY <1>4, <2>1, <2>2, EditedBlock
<1>8. store' = Released(x, k)
  BY <1>2
<1> HIDE DEF x, len
<1>9. Settled(store, x, h) /\ OnlyTouches(store, x, {h})
  BY <1>6, <1>7, SettledThenSame DEF OnlyTouches
<1>10. PICK b : /\ b = x \/ (OnHeap(x, k) /\ b = Dealloc(x, x.ptr[k]))
                /\ b = IF OnHeap(x, k) THEN Dealloc(x, x.ptr[k]) ELSE x
                /\ store' = NewInline(b, k)
  BY <1>8 DEF Released
<1>11. OnlyTouches(x, store', {k})
  BY <1>4, <1>8, <1>9, ReleasedFrame, SMTT(30) DEF OnlyTouches
<1>12. store'.size = IF OnHeap(x, k) THEN [x.size EXCEPT ![x.ptr[k]] = 0] ELSE x.size
  <2>1. store'.size = b.size
    BY <1>10 DEF NewInline, SetInline, SetHandle
  <2>2. Shaped(x)
    BY <1>9 DEF OnlyTouches
  <2>3. Dealloc(x, x.ptr[k]).size = [x.size EXCEPT ![x.ptr[k]] = 0]
    <3>1. x = [word |-> x.word, ptr |-> x.ptr, cap |-> x.cap, mem |-> x.mem, size |-> x.size]
      BY <2>2 DEF Shaped
    <3>2. Dealloc(x, x.ptr[k]) =
            [word |-> x.word, ptr |-> x.ptr, cap |-> x.cap,
             mem |-> [x.mem EXCEPT ![x.ptr[k]] = Blank],
             size |-> [x.size EXCEPT ![x.ptr[k]] = 0]]
      BY <3>1, DeallocRecord
    <3> QED BY <3>2
  <2> QED BY <1>10, <2>1, <2>3
<1>13. /\ x.size \in [Ptrs -> 0 .. MaxCap]
       /\ OnHeap(x, k) = OnHeap(store, k) /\ x.ptr[k] = store.ptr[k]
       /\ OnHeap(store', h) = OnHeap(x, h) /\ store'.ptr[h] = x.ptr[h]
  <2>1. x.size \in [Ptrs -> 0 .. MaxCap]
    BY <1>5, <1>7, DataFacts DEF SameBlock, Storage, BlockSizes
  <2> QED BY <1>4, <1>9, <1>11, <2>1 DEF OnlyTouches, OnHeap
<1>14. BlockFares(k)
  <2> SUFFICES ASSUME OnHeap(store, k) PROVE store'.size[store.ptr[k]] = 0
    BY DEF BlockFares
  <2>1. store.ptr[k] \in Ptrs
    BY <1>3, <1>4, BlockIs
  <2> QED BY <1>12, <1>13, <2>1
<1>15. BlockFares(h)
  <2> SUFFICES ASSUME OnHeap(store, h)
               PROVE  \/ store'.size[store.ptr[h]] = 0
                      \/ OnHeap(store', h) /\ (store'.ptr[h] = store.ptr[h] \/ LenOf(store, h) = 0)
    BY <1>1 DEF BlockFares
  <2>1. store.ptr[h] \in Ptrs
    BY <1>3, <1>4, BlockIs
  <2>2. x.size[store.ptr[h]] = 0 => store'.size[store.ptr[h]] = 0
    BY <1>12, <1>13, <2>1
  <2> QED BY <1>9, <1>13, <2>2 DEF Settled
<1>16. ASSUME NEW j \in (live \cup iters) \ {h, k}
       PROVE  BlockFares(j)
  <2>1. j \in Handles /\ j # k /\ j \in live' \cup iters'
    BY <1>1, <1>3, DataFacts
  <2>2. store'.word[j] = store.word[j] /\ store'.ptr[j] = store.ptr[j]
    BY <1>9, <1>11, <1>16, <2>1 DEF OnlyTouches
  <2> QED BY <2>1, <2>2 DEF BlockFares, OnHeap
<1> QED BY <1>14, <1>15, <1>16 DEF BlocksFare

LEMMA BulkFares ==
  ASSUME CInv, Bulk
  PROVE  BlocksFare
<1>1. PICK h \in Handles, k \in Handles :
        \/ ExtendFromIter(h, k) \/ ExtendFromIterPanics(h, k)
        \/ CloneFromCopy(h, k) \/ CloneFromCopyPanics(h, k) \/ ChunkMut(h)
        \/ \E n \in Sizes :
             \/ AdvanceMut(h, n) \/ FromElemCopy(h, n)
             \/ \E m \in Sizes : Put(h, n, m)
             \/ \E at \in Slots :
                  \/ ExtendFromSliceCopy(h, k, at, n) \/ ExtendFromWithinCopy(h, at, n)
                  \/ FromSliceCopy(h, k, at, n)
                  \/ \E index \in 0 .. MaxCap : InsertFromSliceCopy(h, index, k, at, n)
  BY DEF Bulk
<1>2. Sizes \subseteq Nat /\ Slots \subseteq Nat
  BY RawAssumption DEF Sizes, Slots
<1>3. CASE ExtendFromIterPanics(h, k)
  BY <1>3, DropFares DEF ExtendFromIterPanics, DropIter, IterGone
<1>10. CASE CloneFromCopyPanics(h, k)
  <2>1. /\ Idle /\ h \in live /\ store' = Edited(store, h, Blank, 0) /\ live' = live /\ iters' = iters
    BY <1>10 DEF CloneFromCopyPanics, ivars
  <2>2. PICK n \in Nat : n = 0
    OBVIOUS
  <2>3. n <= LenOf(store, h) /\ store' = Edited(store, h, Blank, n)
    BY <2>1, <2>2, IdleOwn, LengthType
  <2> QED BY <2>1, <2>3, CutFares
<1>4. CASE ChunkMut(h)
  <2>1. /\ Idle /\ h \in live /\ live' = live /\ iters' = iters
        /\ store' \in Reserve(store, h, ChunkRoom) \cup {store}
    BY <1>4 DEF ChunkMut, Resize, ivars
  <2>2. ChunkRoom \in Nat /\ 0 \in 0 .. MaxCap
        /\ Data(store, caller, dropped, live, iters, begin, leaked, {})
    BY <2>1, IdleOwn, ChunkAssumption, RawAssumption
  <2> QED BY <2>1, <2>2, RoomFares
<1>5. ASSUME NEW n \in Sizes, AdvanceMut(h, n)
      PROVE  BlocksFare
  <2>1. PICK cells : store' = Edited(store, h, cells, LenOf(store, h) + n)
    BY <1>5 DEF AdvanceMut
  <2>2. /\ Idle /\ h \in live /\ n <= Capacity(store, h) - LenOf(store, h)
        /\ live' = live /\ iters' = iters
    BY <1>5 DEF AdvanceMut, ivars
  <2>3. store \in Reserve(store, h, n)
    <3>1. Capacity(store, h) \in Nat /\ LenOf(store, h) \in Nat
      BY <2>2, IdleOwn, LengthType
    <3>2. ~(n > Capacity(store, h) - LenOf(store, h))
      BY <1>2, <2>2, <3>1
    <3> QED BY <3>2 DEF Reserve
  <2>4. n \in Nat /\ n <= n
    BY <1>2
  <2> QED BY <2>1, <2>2, <2>3, <2>4, FillFares
<1>6. ASSUME NEW n \in Sizes, NEW m \in Sizes, Put(h, n, m)
      PROVE  BlocksFare
  <2>1. PICK s, cells : s \in Reserve(store, h, n) /\ store' = Edited(s, h, cells, LenOf(s, h) + m)
    BY <1>6 DEF Put
  <2>2. Idle /\ h \in live /\ m <= n /\ live' = live /\ iters' = iters
    BY <1>6 DEF Put, ivars
  <2>3. n \in Nat /\ m \in Nat
    BY <1>2
  <2> QED BY <2>1, <2>2, <2>3, FillFares
<1>7. ASSUME NEW n \in Sizes, FromElemCopy(h, n)
      PROVE  BlocksFare
  <2>1. PICK want : CopyIn({NewInline(store, h)}, h, 0, want)
    BY <1>7 DEF FromElemCopy
  <2>2. Construct(h) /\ h \notin iters /\ iters' = iters
    BY <1>7 DEF FromElemCopy, ivars
  <2> DEFINE outcomes == {NewInline(store, h)}
  <2>3. CopyIn(outcomes, h, 0, want) /\ outcomes = {NewInline(store, h)}
    BY <2>1
  <2> HIDE DEF outcomes
  <2> QED BY <2>2, <2>3, CopyMakesFares
<1>8. ASSUME NEW n \in Sizes, NEW at \in Slots, FromSliceCopy(h, k, at, n)
      PROVE  BlocksFare
  <2> DEFINE outcomes == WithCapacity(store, h, n)
  <2>1. PICK want : CopyIn(outcomes, h, 0, want)
    BY <1>8 DEF FromSliceCopy
  <2>2. Construct(h) /\ h \notin iters /\ iters' = iters /\ outcomes = WithCapacity(store, h, n)
    BY <1>8 DEF FromSliceCopy, ivars
  <2> HIDE DEF outcomes
  <2> QED BY <2>1, <2>2, CopyMakesFares
<1>9. ASSUME NEW n \in Sizes, NEW at \in Slots,
             \/ ExtendFromSliceCopy(h, k, at, n) \/ ExtendFromWithinCopy(h, at, n)
             \/ \E index \in 0 .. MaxCap : InsertFromSliceCopy(h, index, k, at, n)
      PROVE  BlocksFare
  <2>1. PICK index, j : CopyCall(h, index, j, at, n)
    BY <1>9 DEF ExtendFromSliceCopy, ExtendFromWithinCopy, InsertFromSliceCopy
  <2>2. n \in Nat /\ at \in Nat
    BY <1>2
  <2> QED BY <2>1, <2>2, CopyCallFares
<1> QED BY <1>1, <1>3, <1>4, <1>5, <1>6, <1>7, <1>8, <1>9, <1>10, ExtendFromIterFares, CloneFromCopyFares

(* Whatever panics and wherever, no constructor, iterator or clone loses a *)
(* heap block: a block that a vector or an iterator holds is given back or *)
(* held by another one after every step, but where an empty spilled vector *)
(* grows, clone_from of a Copy type clears one first, or an iterator is    *)
(* forgotten.                                                              *)
THEOREM OnlyClearedLoseBlocks == CloneSpec => ClonesLoseNoBlock
<1> DEFINE Lost ==
      \A h \in live \cup iters, p \in Ptrs :
        /\ h \in Holders(store, live \cup iters, p)
        /\ store'.size[p] > 0
        /\ Holders(store', live' \cup iters', p) = {}
        => \/ h \in iters /\ ForgetIter(h)
           \/ /\ h \in live'
              /\ OnHeap(store', h)
              /\ LenOf(store, h) = 0 \/ (call'.how = "copy" /\ past'.before = <<>>)
<1>1. BlocksFare => Lost
  BY DEF BlocksFare, BlockFares, Holders
<1> HIDE DEF Lost
<1>2. CInv /\ [CloneNext]_allVars => [Lost]_allVars
  BY <1>1, ProgramFares, StartFares, BulkFares, StepFares DEF CloneNext
<1> USE DEF Lost
<1> QED BY <1>2, CloneInvariant, PTL DEF CloneSpec, ClonesLoseNoBlock
----------------------------------------------------------------------------
(* What the calls add.                                                     *)

(* The cells from a on have the values lo .. hi of seq.                    *)
Reads(cells, a, lo, hi, f, seq) == \A i \in lo .. hi : f[cells[a + i - 1]] = seq[i]

(* Of the call k on a vector with these cells: what it has not overwritten *)
(* has the values it had, and what is made those that were due.            *)
KeptOK(k, cells, f, p) ==
  /\ k.how = "assign" =>
       k.base = 0 /\ Len(p.before) = k.n /\ Reads(cells, 0, k.made + 1, k.n, f, p.before)
  /\ k.how # "assign" =>
       Len(p.before) = k.base /\ Reads(cells, 0, 1, k.base, f, p.before)
  /\ Reads(cells, k.base, 1, k.made, f, p.want)

(* What is due is what its source has, from the first to the last.         *)
DueOK(k, s, f, p) ==
  /\ k.give = "item" => Len(p.want) = k.made
  /\ k.give = "repeat" => Len(p.want) = k.n /\ \A i \in 1 .. k.n : p.want[i] = f[k.value]
  /\ k.give = "clone" =>
       /\ k.how = "assign" => k.at = 0 /\ Len(p.want) = LenOf(s, k.src)
       /\ k.how # "assign" => Len(p.want) = k.n
       /\ Reads(Cells(s, k.src), k.at, 1, Len(p.want), f, p.want)

Added(k, p) ==
  SubSeq(p.before, 1, k.base) \o p.want \o SubSeq(p.before, k.base + 1, Len(p.before))

Remembers ==
  /\ past \in [before : Seq(Elems), want : Seq(Elems)]
  /\ Calling => KeptOK(call, Cells(store, v), val, past) /\ DueOK(call, store, val, past)
  /\ call.how = "copy" => Values(store, v, val) = Added(call, past)

HInv == CInv /\ Remembers

(* r is what q has from m to n, which the cells have from a + m - 1 on.    *)
Part(q, m, n, cells, a, f, b, r, k) ==
  /\ q \in Seq(Elems) /\ m \in Nat /\ n \in Nat /\ 1 <= m /\ m <= n + 1 /\ n <= Len(q)
  /\ a \in Int /\ Reads(cells, a, m, n, f, q)
  /\ b = a + m - 1 /\ r = SubSeq(q, m, n) /\ k = n - m + 1

LEMMA ReadsPart ==
  ASSUME NEW q, NEW m, NEW n, NEW cells, NEW a, NEW f, NEW b, NEW r, NEW k,
         Part(q, m, n, cells, a, f, b, r, k)
  PROVE  r \in Seq(Elems) /\ Len(r) = k /\ k \in Nat /\ Reads(cells, b, 1, k, f, r)
<1> USE DEF Part
<1>1. \A i \in m .. n : q[i] \in Elems
  BY ElementOfSeq
<1>2. /\ r \in Seq(Elems) /\ Len(r) = (IF m <= n THEN n - m + 1 ELSE 0)
      /\ \A i \in 1 .. n - m + 1 : r[i] = q[m + i - 1]
  BY <1>1, SubSeqProperties
<1>3. ASSUME NEW i \in 1 .. k
      PROVE  f[cells[b + i - 1]] = r[i]
  <2> DEFINE j == m + i - 1
  <2>1. j \in m .. n /\ b + i - 1 = a + j - 1 /\ r[i] = q[j]
    BY <1>2
  <2> HIDE DEF j
  <2>2. f[cells[a + j - 1]] = q[j]
    BY <2>1 DEF Reads
  <2> QED BY <2>1, <2>2
<1> QED BY <1>2, <1>3 DEF Reads

LEMMA ReadsFirst ==
  ASSUME NEW q \in Seq(Elems), NEW n \in Nat, n <= Len(q), NEW cells, NEW f,
         Reads(cells, 0, 1, n, f, q), NEW r, r = SubSeq(q, 1, n)
  PROVE  r \in Seq(Elems) /\ Len(r) = n /\ Reads(cells, 0, 1, n, f, r)
<1>1. \A i \in 1 .. n : q[i] \in Elems
  BY ElementOfSeq
<1>2. /\ r \in Seq(Elems) /\ Len(r) = (IF 1 <= n THEN n - 1 + 1 ELSE 0)
      /\ \A i \in 1 .. n - 1 + 1 : r[i] = q[1 + i - 1]
  BY <1>1, SubSeqProperties
<1>3. Len(r) = n /\ \A i \in 1 .. n : r[i] = q[i]
  BY <1>2
<1> QED BY <1>2, <1>3 DEF Reads

LEMMA ReadsRest ==
  ASSUME NEW q \in Seq(Elems), NEW n \in Nat, n <= Len(q), NEW cells, NEW f,
         Reads(cells, 0, 1, Len(q), f, q), NEW m, m = n + 1, NEW r, r = SubSeq(q, m, Len(q))
  PROVE  r \in Seq(Elems) /\ Len(r) = Len(q) - n /\ Reads(cells, n, 1, Len(r), f, r)
<1> DEFINE l == Len(q)
           k == l - n
<1>1. /\ l \in Nat /\ k \in Nat /\ m \in Nat /\ 1 <= m /\ m <= l + 1 /\ k = l - m + 1
      /\ m = n + 1 /\ Reads(cells, 0, 1, l, f, q) /\ r = SubSeq(q, m, l) /\ k = Len(q) - n
  BY LenProperties
<1>2. \A i \in m .. l : q[i] \in Elems
  BY <1>1, ElementOfSeq
<1> HIDE DEF l, k
<1>3. /\ r \in Seq(Elems) /\ Len(r) = (IF m <= l THEN l - m + 1 ELSE 0)
      /\ \A i \in 1 .. l - m + 1 : r[i] = q[m + i - 1]
  BY <1>1, <1>2, SubSeqProperties
<1>4. Len(r) = k
  BY <1>1, <1>3
<1>5. ASSUME NEW i \in 1 .. k
      PROVE  f[cells[n + i - 1]] = r[i]
  <2> DEFINE j == m + i - 1
  <2>1. j \in 1 .. l /\ n + i - 1 = 0 + j - 1 /\ r[i] = q[j]
    BY <1>1, <1>3
  <2> HIDE DEF j
  <2>2. f[cells[0 + j - 1]] = q[j]
    BY <1>1, <2>1 DEF Reads
  <2> QED BY <2>1, <2>2
<1>6. Reads(cells, n, 1, Len(r), f, r)
  BY <1>4, <1>5 DEF Reads
<1> QED BY <1>1, <1>3, <1>4, <1>6

(* p, and behind it q.                                                     *)
Joins(p, q, cells, f, m, n, r, k) ==
  /\ p \in Seq(Elems) /\ q \in Seq(Elems) /\ m = Len(p) /\ n = Len(q)
  /\ Reads(cells, 0, 1, m, f, p) /\ Reads(cells, m, 1, n, f, q)
  /\ r = p \o q /\ k = m + n

LEMMA ReadsJoin ==
  ASSUME NEW p, NEW q, NEW cells, NEW f, NEW m, NEW n, NEW r, NEW k, Joins(p, q, cells, f, m, n, r, k)
  PROVE  r \in Seq(Elems) /\ Len(r) = k /\ k \in Nat /\ Reads(cells, 0, 1, k, f, r)
<1> USE DEF Joins
<1>1. /\ r \in Seq(Elems) /\ Len(r) = k /\ m \in Nat /\ n \in Nat /\ k \in Nat
      /\ \A i \in 1 .. k : r[i] = IF i <= m THEN p[i] ELSE q[i - m]
  BY ConcatProperties, LenProperties
<1>2. ASSUME NEW i \in 1 .. k
      PROVE  f[cells[0 + i - 1]] = r[i]
  <2>1. CASE i <= m
    BY <1>1, <2>1 DEF Reads
  <2>2. CASE i > m
    <3> DEFINE j == i - m
    <3>1. j \in 1 .. n /\ 0 + i - 1 = m + j - 1 /\ r[i] = q[j]
      BY <1>1, <2>2
    <3> HIDE DEF j
    <3>2. f[cells[m + j - 1]] = q[j]
      BY <3>1 DEF Reads
    <3> QED BY <3>1, <3>2
  <2> QED BY <1>1, <2>1, <2>2
<1> QED BY <1>1, <1>2 DEF Reads

(* The values of the items of a vector, or of a slice of it.               *)
LEMMA ValuesRead ==
  ASSUME NEW s, NEW h, NEW at \in Nat, NEW n \in Nat, NEW f \in [Elems -> Elems],
         \A j \in at .. at + n - 1 : Item(s, h, j) \in Elems,
         NEW w, w = ValuesOf(Items(s, h, at, n), f)
  PROVE  w \in Seq(Elems) /\ Len(w) = n /\ Reads(Cells(s, h), at, 1, n, f, w)
<1> DEFINE items == Items(s, h, at, n)
<1>1. items = [i \in 1 .. n |-> Item(s, h, at + i - 1)]
  BY DEF Items
<1>2. Len(items) = n /\ \A i \in 1 .. n : items[i] = Cells(s, h)[at + i - 1] /\ items[i] \in Elems
  BY <1>1 DEF Item
<1>3. w = [i \in 1 .. Len(items) |-> f[items[i]]]
  BY DEF ValuesOf
<1> HIDE DEF items
<1>4. w \in [1 .. n -> Elems] /\ \A i \in 1 .. n : w[i] = f[Cells(s, h)[at + i - 1]]
  BY <1>2, <1>3
<1> QED BY <1>4 DEF Reads

LEMMA ValuesAre ==
  ASSUME NEW s, NEW h, NEW q \in Seq(Elems), NEW n, n = Len(q), LenOf(s, h) = n, NEW f,
         Reads(Cells(s, h), 0, 1, n, f, q)
  PROVE  Values(s, h, f) = q
<1> DEFINE items == Items(s, h, 0, n)
<1>0. n \in Nat /\ q = [i \in 1 .. n |-> q[i]]
  BY LenProperties
<1>1. items = [i \in 1 .. n |-> Item(s, h, 0 + i - 1)]
  BY DEF Items
<1>2. Len(items) = n /\ \A i \in 1 .. n : items[i] = Cells(s, h)[0 + i - 1]
  BY <1>0, <1>1 DEF Item
<1>3. Values(s, h, f) = [i \in 1 .. Len(items) |-> f[items[i]]]
  BY DEF Values, ValuesOf, Contents
<1> HIDE DEF items
<1>4. \A i \in 1 .. n : f[items[i]] = q[i]
  BY <1>2 DEF Reads
<1>5. [i \in 1 .. n |-> f[items[i]]] = [i \in 1 .. n |-> q[i]]
  BY <1>4
<1> QED BY <1>0, <1>2, <1>3, <1>5

(* The items of a vector or of an iterator are not the program's.          *)
LEMMA ItemApart ==
  ASSUME NEW s, NEW c, NEW d, NEW l, NEW I, NEW b, NEW E, NEW X, Data(s, c, d, l, I, b, E, X),
         NEW k \in l \cup I, NEW j \in Nat, b[k] <= j, j < LenOf(s, k)
  PROVE  Item(s, k, j) \in Elems \ c
<1>1. CASE k \in l
  <2>1. k \in Handles \ I
    BY <1>1, DataFacts
  <2>2. /\ Holds(Cells(s, k), 0, LenOf(s, k), Owned(s, k)) /\ Owned(s, k) \subseteq Elems
        /\ LenOf(s, k) \in 0 .. MaxCap /\ Owned(s, k) \cap c = {}
    BY <2>1, DataVector
  <2>3. j \in 0 .. LenOf(s, k) - 1
    BY <2>2, RawAssumption
  <2> QED BY <2>2, <2>3 DEF Holds, Item
<1>2. CASE k \in I
  <2>1. /\ Holds(Cells(s, k), b[k], LenOf(s, k), Rest(s, k, b)) /\ Rest(s, k, b) \subseteq Elems
        /\ b[k] \in 0 .. MaxCap /\ LenOf(s, k) \in 0 .. MaxCap /\ Rest(s, k, b) \cap c = {}
    BY <1>2, IterFacts
  <2>2. j \in b[k] .. LenOf(s, k) - 1
    BY <2>1, RawAssumption
  <2> QED BY <2>1, <2>2 DEF Holds, Item
<1> QED BY <1>1, <1>2

LEMMA SliceTypes ==
  ASSUME NEW s, NEW c, NEW d, NEW l, NEW I, NEW b, NEW E, NEW X, Data(s, c, d, l, I, b, E, X),
         NEW k \in l \cup I
  PROVE  k \in Handles /\ b[k] \in Nat /\ LenOf(s, k) \in Nat /\ LenOf(s, k) <= MaxCap
<1>1. CASE k \in l
  BY <1>1, LengthType
<1>2. CASE k \in I
  <2>1. b[k] \in 0 .. MaxCap /\ LenOf(s, k) \in 0 .. MaxCap /\ k \in Handles
    BY <1>2, IterFacts
  <2> QED BY <2>1, RawAssumption
<1> QED BY <1>1, <1>2

(* What a call clones is there, and not the program's.                     *)
LEMMA SourceReads ==
  ASSUME CInv, Remembers, Calling, call.give = "clone"
  PROVE  /\ call.src \in live \cup iters /\ call.src \in Handles /\ ~call.open
         /\ Len(past.want) \in Nat /\ call.n <= Len(past.want)
         /\ call.at + Len(past.want) <= LenOf(store, call.src)
         /\ \A j \in call.at .. call.at + Len(past.want) - 1 :
              Cells(store, call.src)[j] \in Elems \ caller
<1>1. /\ Data(store, caller, dropped, live, iters, begin, leaked, Apart)
      /\ SourceOK(call, store, caller, live \cup iters, begin)
      /\ TargetOK(call, store, live, Apart)
  BY DEF CInv
<1>2. DueOK(call, store, val, past) /\ Len(past.want) \in Nat
  BY LenProperties DEF Remembers
<1> DEFINE k == call.src
           n == Len(past.want)
<1>3. k \in live \cup iters /\ begin[k] <= call.at /\ call.at + call.n <= LenOf(store, k) /\ ~call.open
  BY <1>1 DEF SourceOK
<1>4. /\ call.how # "assign" => n = call.n
      /\ call.how = "assign" => call.at = 0 /\ n = LenOf(store, k)
  BY <1>2 DEF DueOK
<1>5. n \in Nat
  BY <1>2
<1> HIDE DEF k, n
<1>6. k \in Handles /\ begin[k] \in Nat /\ LenOf(store, k) \in Nat
  BY <1>1, <1>3, SliceTypes
<1>7. call.n <= n /\ call.at + n <= LenOf(store, k)
  BY <1>3, <1>4, <1>6, CallTypes
<1>8. ASSUME NEW j \in call.at .. call.at + n - 1
      PROVE  Cells(store, k)[j] \in Elems \ caller
  <2>1. j \in Nat /\ begin[k] <= j /\ j < LenOf(store, k)
    BY <1>3, <1>5, <1>6, <1>7, CallTypes
  <2>2. Item(store, k, j) \in Elems \ caller
    BY <1>1, <1>3, <2>1, ItemApart
  <2> QED BY <2>2 DEF Item
<1> QED BY <1>3, <1>5, <1>6, <1>7, <1>8 DEF k, n

(* The element given has the value that is due.                            *)
LEMMA GivenValue ==
  ASSUME CInv, Remembers, Calling, Due, NEW g \in Given, Take(g)
  PROVE  /\ past' \in [before : Seq(Elems), want : Seq(Elems)] /\ past'.before = past.before
         /\ Len(past'.want) = (IF call.give = "item" THEN call.made + 1 ELSE Len(past.want))
         /\ call.made \in Nat /\ call.made + 1 <= Len(past'.want)
         /\ \A i \in 1 .. Len(past.want) : past'.want[i] = past.want[i]
         /\ past'.want[call.made + 1] = val'[g.elem]
         /\ \A e \in Elems \ {g.elem} : val'[e] = val[e]
         /\ call.give = "repeat" => val'[call.value] = val[call.value]
<1>1. /\ val' = g.vals
      /\ past' = [past EXCEPT !.want = IF call.give = "item" THEN Append(@, g.vals[g.elem]) ELSE @]
  BY DEF Take
<1>2. /\ past \in [before : Seq(Elems), want : Seq(Elems)] /\ past.want \in Seq(Elems)
      /\ DueOK(call, store, val, past) /\ Len(past.want) \in Nat
  BY LenProperties DEF Remembers
<1>3. /\ val \in [Elems -> Elems] /\ SourceOK(call, store, caller, live \cup iters, begin)
      /\ caller \subseteq Elems /\ call.made \in Nat
  BY DataFacts, CallTypes DEF CInv
<1>4. /\ g.elem \in caller /\ g.vals \in [Elems -> Elems]
      /\ call.give # "item" => call.made < call.n
  BY GivenFacts
<1>5. ASSUME NEW e \in Elems, g \in CloneOf(e), e \notin caller \/ e = call.value
      PROVE  /\ \A x \in Elems \ {g.elem} : g.vals[x] = val[x]
             /\ g.vals[g.elem] = val[e] /\ g.elem # call.value /\ g.vals[e] = val[e]
  <2>1. PICK c \in caller \ {call.value} : g = [elem |-> c, vals |-> [val EXCEPT ![c] = val[e]]]
    BY <1>5 DEF CloneOf
  <2>2. g.elem = c /\ g.vals = [val EXCEPT ![c] = val[e]]
    BY <2>1
  <2> QED BY <1>3, <1>5, <2>2
<1>6. CASE call.give = "item"
  <2>1. PICK e \in caller : g = [elem |-> e, vals |-> val]
    BY <1>6 DEF Given
  <2>2. g.elem = e /\ g.vals = val /\ g.vals[g.elem] \in Elems
    BY <1>3, <2>1
  <2>3. /\ past'.want = Append(past.want, g.vals[g.elem]) /\ past'.before = past.before
        /\ past' \in [before : Seq(Elems), want : Seq(Elems)]
    <3> DEFINE w == Append(past.want, g.vals[g.elem])
    <3>1. w \in Seq(Elems)
      BY <1>2, <2>2, AppendProperties
    <3>2. past' = [past EXCEPT !.want = w]
      BY <1>1, <1>6
    <3> HIDE DEF w
    <3>3. past'.want = w /\ past'.before = past.before /\ past' \in [before : Seq(Elems), want : Seq(Elems)]
      BY <1>2, <3>1, <3>2
    <3> QED BY <3>3 DEF w
  <2>4. Len(past.want) = call.made
    BY <1>2, <1>6 DEF DueOK
  <2>5. /\ Len(past'.want) = call.made + 1 /\ past'.want[call.made + 1] = g.vals[g.elem]
        /\ \A i \in 1 .. Len(past.want) : past'.want[i] = past.want[i]
    BY <1>2, <2>2, <2>3, <2>4, AppendProperties
  <2> QED BY <1>1, <1>3, <1>6, <2>2, <2>3, <2>5
<1>7. CASE call.give # "item"
  <2>1. past'.want = past.want /\ past'.before = past.before /\ past' = past
    BY <1>1, <1>2, <1>7
  <2>2. call.made + 1 \in 1 .. Len(past.want)
    <3>1. CASE call.give = "clone"
      BY <1>2, <1>3, <1>4, <1>7, <3>1, SourceReads, CallTypes
    <3>2. CASE call.give = "repeat"
      BY <1>2, <1>3, <1>4, <1>7, <3>2, CallTypes DEF DueOK
    <3> QED BY <1>7, <3>1, <3>2, CallTypes
  <2>3. CASE call.give = "clone"
    <3> DEFINE i == call.made + 1
               e == Cells(store, call.src)[call.at + i - 1]
    <3>1. call.at + i - 1 = call.at + call.made /\ call.at + i - 1 \in call.at .. call.at + Len(past.want) - 1
      <4>1. call.at \in Nat /\ i \in Nat /\ i >= 1 /\ i <= Len(past.want)
        BY <1>2, <1>3, <2>2, CallTypes
      <4>2. call.at + i - 1 = call.at + call.made
        BY <1>3, <4>1
      <4> HIDE DEF i
      <4> QED BY <1>2, <4>1, <4>2
    <3>2. e \in Elems /\ e \notin caller
      BY <2>3, <3>1, SourceReads
    <3>3. g \in CloneOf(e)
      BY <2>3, <3>1 DEF Given, Item
    <3>4. val[e] = past.want[i]
      BY <1>2, <2>2, <2>3 DEF DueOK, Reads
    <3> HIDE DEF e
    <3>5. (\A x \in Elems \ {g.elem} : g.vals[x] = val[x]) /\ g.vals[g.elem] = val[e]
      BY <1>5, <3>2, <3>3
    <3> QED BY <1>1, <1>2, <1>3, <1>7, <2>1, <2>2, <2>3, <3>4, <3>5
  <2>4. CASE call.give = "repeat"
    <3>1. call.value \in Elems /\ past.want[call.made + 1] = val[call.value]
      <4>1. call.value \in Elems
        BY <1>3, <2>4 DEF SourceOK
      <4>2. call.made + 1 \in 1 .. call.n
        BY <1>2, <2>2, <2>4 DEF DueOK
      <4> QED BY <1>2, <2>4, <4>1, <4>2 DEF DueOK
    <3>2. CASE call.made = call.n - 1
      <4>1. g \in {[elem |-> call.value, vals |-> val]}
        BY <2>4, <3>2 DEF Given
      <4>2. g.elem = call.value /\ g.vals = val
        BY <4>1
      <4> QED BY <1>1, <1>2, <1>3, <1>7, <2>1, <2>2, <3>1, <4>2
    <3>3. CASE call.made # call.n - 1
      <4>1. g \in CloneOf(call.value)
        BY <2>4, <3>3 DEF Given
      <4>2. /\ \A x \in Elems \ {g.elem} : g.vals[x] = val[x]
            /\ g.vals[g.elem] = val[call.value] /\ g.vals[call.value] = val[call.value]
        BY <1>5, <3>1, <4>1
      <4> QED BY <1>1, <1>2, <1>3, <1>7, <2>1, <2>2, <3>1, <4>2
    <3> QED BY <3>2, <3>3
  <2> QED BY <1>7, <2>3, <2>4, CallTypes
<1> QED BY <1>6, <1>7

LEMMA ReadsOn ==
  ASSUME NEW c1, NEW c2, NEW a, NEW lo, NEW hi, NEW f, NEW g, NEW q, NEW r,
         Reads(c1, a, lo, hi, f, q),
         \A i \in lo .. hi : /\ c2[a + i - 1] = c1[a + i - 1] /\ g[c1[a + i - 1]] = f[c1[a + i - 1]]
                             /\ r[i] = q[i]
  PROVE  Reads(c2, a, lo, hi, g, r)
  BY DEF Reads

(* k goes on as l: e, of the value that was due, is behind what is made,   *)
(* and what else is in the K cells stays.                                  *)
MadeOne(k, l, c1, c2, f, g, p, q, e, K) ==
  /\ k.made \in Nat /\ k.base \in Nat /\ k.n \in Nat /\ K \in Nat
  /\ l.how = k.how /\ l.base = k.base /\ l.n = k.n /\ l.made = k.made + 1
  /\ q.before = p.before /\ \A i \in 1 .. k.made : q.want[i] = p.want[i]
  /\ k.base + k.made <= K /\ (k.how = "assign" => k.n <= K)
  /\ \A j \in 0 .. K - 1 : j # k.base + k.made => c2[j] = c1[j] /\ g[c1[j]] = f[c1[j]]
  /\ c2[k.base + k.made] = e /\ g[e] = q.want[k.made + 1]

LEMMA KeptMore ==
  ASSUME NEW k, NEW l, NEW c1, NEW c2, NEW f, NEW g, NEW p, NEW q, NEW e, NEW K,
         KeptOK(k, c1, f, p), MadeOne(k, l, c1, c2, f, g, p, q, e, K)
  PROVE  KeptOK(l, c2, g, q)
<1> USE DEF MadeOne
<1> DEFINE b == k.base
           m == k.made
           n == k.n
<1>1. ASSUME k.how = "assign"
      PROVE  l.base = 0 /\ Len(q.before) = l.n /\ Reads(c2, 0, l.made + 1, l.n, g, q.before)
  <2>1. b = 0 /\ Reads(c1, 0, m + 1, n, f, p.before) /\ Len(p.before) = n
    BY <1>1 DEF KeptOK
  <2>2. ASSUME NEW i \in m + 2 .. n
        PROVE  /\ c2[0 + i - 1] = c1[0 + i - 1] /\ g[c1[0 + i - 1]] = f[c1[0 + i - 1]]
               /\ q.before[i] = p.before[i]
    <3> DEFINE j == 0 + i - 1
    <3>1. j \in 0 .. K - 1 /\ j # k.base + k.made
      BY <1>1, <2>1
    <3> HIDE DEF j
    <3>2. c2[j] = c1[j] /\ g[c1[j]] = f[c1[j]]
      BY <3>1
    <3> QED BY <3>2 DEF j
  <2>3. Reads(c1, 0, m + 2, n, f, p.before)
    BY <2>1 DEF Reads
  <2>4. Reads(c2, 0, m + 2, n, g, q.before)
    <3> DEFINE y == m + 2
    <3> HIDE DEF y, n
    <3> QED BY <2>2, <2>3, ReadsOn DEF y
  <2>5. (m + 1) + 1 = m + 2
    OBVIOUS
  <2> QED BY <2>1, <2>4, <2>5
<1>2. ASSUME k.how # "assign"
      PROVE  Len(q.before) = l.base /\ Reads(c2, 0, 1, l.base, g, q.before)
  <2>1. Reads(c1, 0, 1, b, f, p.before) /\ Len(p.before) = b
    BY <1>2 DEF KeptOK
  <2>2. ASSUME NEW i \in 1 .. b
        PROVE  /\ c2[0 + i - 1] = c1[0 + i - 1] /\ g[c1[0 + i - 1]] = f[c1[0 + i - 1]]
               /\ q.before[i] = p.before[i]
    <3> DEFINE j == 0 + i - 1
    <3>1. j \in 0 .. K - 1 /\ j # k.base + k.made
      OBVIOUS
    <3> HIDE DEF j
    <3>2. c2[j] = c1[j] /\ g[c1[j]] = f[c1[j]]
      BY <3>1
    <3> QED BY <3>2 DEF j
  <2>3. Reads(c2, 0, 1, b, g, q.before)
    <3> HIDE DEF b
    <3> QED BY <2>1, <2>2, ReadsOn
  <2> QED BY <2>1, <2>3
<1>3. Reads(c2, b, 1, m + 1, g, q.want)
  <2>1. Reads(c1, b, 1, m, f, p.want)
    BY DEF KeptOK
  <2>2. ASSUME NEW i \in 1 .. m + 1
        PROVE  g[c2[b + i - 1]] = q.want[i]
    <3>1. CASE i = m + 1
      <4>1. b + i - 1 = b + m
        BY <3>1
      <4> QED BY <3>1, <4>1
    <3>2. CASE i # m + 1
      <4> DEFINE j == b + i - 1
      <4>1. i \in 1 .. m /\ j \in 0 .. K - 1 /\ j # k.base + k.made
        BY <3>2
      <4>2. f[c1[b + i - 1]] = p.want[i]
        BY <2>1, <4>1 DEF Reads
      <4> HIDE DEF j
      <4>3. c2[j] = c1[j] /\ g[c1[j]] = f[c1[j]] /\ q.want[i] = p.want[i]
        BY <4>1
      <4> QED BY <4>2, <4>3 DEF j
    <3> QED BY <3>1, <3>2
  <2> QED BY <2>2 DEF Reads
<1> QED BY <1>1, <1>2, <1>3 DEF KeptOK

(* What is written does not reach what is still to be cloned: a slice of   *)
(* the vector itself is below its length.                                  *)
LEMMA SourceStays ==
  ASSUME CInv, Remembers, Calling, call.give = "clone", Only(store, store', v), NEW K \in Nat,
         call.base + call.made <= K,
         call.how = "guard" => LenOf(store', v) = LenOf(store, v),
         \A j \in 0 .. K - 1 : j # call.base + call.made => Cells(store', v)[j] = Cells(store, v)[j]
  PROVE  /\ LenOf(store', call.src) = LenOf(store, call.src)
         /\ \A j \in call.at .. call.at + Len(past.want) - 1 :
              Cells(store', call.src)[j] = Cells(store, call.src)[j]
<1>1. /\ SourceOK(call, store, caller, live \cup iters, begin)
      /\ TargetOK(call, store, live, Apart) /\ v = call.vec
  BY DEF CInv, v
<1>2. /\ call.src \in Handles /\ Len(past.want) \in Nat
      /\ call.at + Len(past.want) <= LenOf(store, call.src)
  BY SourceReads
<1>3. CASE call.src # v
  <2>1. /\ OnlyTouches(store, store', {v}) /\ call.src \in Handles \ {v}
        /\ \A k \in Handles \ {v} : Cells(store', k) = Cells(store, k)
    BY <1>2, <1>3 DEF Only, Spares
  <2> QED BY <2>1, UntouchedStays
<1>4. CASE call.src = v
  <2>1. call.how = "guard"
    BY <1>1, <1>4 DEF SourceOK, Calling, TargetOK
  <2>2. LenOf(store, v) = call.base
    BY <1>1, <2>1 DEF TargetOK
  <2>3. ASSUME NEW j \in call.at .. call.at + Len(past.want) - 1
        PROVE  Cells(store', v)[j] = Cells(store, v)[j]
    <3>1. j \in 0 .. K - 1 /\ j # call.base + call.made
      <4>1. call.at \in Nat /\ call.base \in Nat /\ call.made \in Nat
        BY CallTypes
      <4>2. call.at + Len(past.want) <= call.base
        BY <1>2, <1>4, <2>2
      <4> QED BY <1>2, <4>1, <4>2
    <3> QED BY <3>1
  <2> QED BY <1>4, <2>1, <2>3
<1> QED BY <1>3, <1>4

(* A step that makes an element of the value due, and leaves what was made *)
(* before and what is kept as they are.                                    *)
LEMMA Continues ==
  ASSUME CInv, Remembers, Calling, Due, NEW g \in Given, Take(g),
         NEW K \in Nat, call.base + call.made <= K, call.how = "assign" => call.n <= K,
         \A j \in 0 .. K - 1 : j # call.base + call.made =>
           Cells(store', v)[j] = Cells(store, v)[j] /\ Cells(store, v)[j] \in Elems \ caller,
         Cells(store', v)[call.base + call.made] = g.elem,
         Only(store, store', v), call.how = "guard" => LenOf(store', v) = LenOf(store, v)
  PROVE  Remembers'
<1>0. call.give = "clone" =>
        /\ LenOf(store', call.src) = LenOf(store, call.src)
        /\ \A j \in call.at .. call.at + Len(past.want) - 1 :
             Cells(store', call.src)[j] = Cells(store, call.src)[j]
  BY SourceStays
<1>1. /\ past' \in [before : Seq(Elems), want : Seq(Elems)] /\ past'.before = past.before
      /\ Len(past'.want) = (IF call.give = "item" THEN call.made + 1 ELSE Len(past.want))
      /\ call.made \in Nat /\ call.made + 1 <= Len(past'.want)
      /\ \A i \in 1 .. Len(past.want) : past'.want[i] = past.want[i]
      /\ past'.want[call.made + 1] = val'[g.elem]
      /\ \A e \in Elems \ {g.elem} : val'[e] = val[e]
      /\ call.give = "repeat" => val'[call.value] = val[call.value]
  BY GivenValue
<1>2. call' = [call EXCEPT !.made = @ + 1] /\ call \in Calls
  BY DEF Take, CInv
<1>3. /\ call'.how = call.how /\ call'.give = call.give
      /\ call'.open = call.open /\ call'.vec = call.vec /\ call'.src = call.src
      /\ call'.at = call.at /\ call'.n = call.n /\ call'.base = call.base
      /\ call'.made = call.made + 1 /\ call'.value = call.value
  BY <1>2 DEF Calls
<1>4. /\ KeptOK(call, Cells(store, v), val, past) /\ DueOK(call, store, val, past)
      /\ past.want \in Seq(Elems) /\ Len(past.want) \in Nat
  BY LenProperties DEF Remembers
<1>5. g.elem \in caller
  BY GivenFacts
<1>6. call.made <= Len(past.want)
  <2>1. CASE call.give = "item"
    BY <1>1, <1>4, <2>1 DEF DueOK
  <2>2. CASE call.give # "item"
    BY <1>1, <1>4, <2>2
  <2> QED BY <2>1, <2>2
<1>7. KeptOK(call', Cells(store', v), val', past')
  <2>1. \A i \in 1 .. call.made : past'.want[i] = past.want[i]
    BY <1>1, <1>4, <1>6
  <2> DEFINE c1 == Cells(store, v)
             c2 == Cells(store', v)
             e == g.elem
  <2>2. \A j \in 0 .. K - 1 : j # call.base + call.made =>
          c2[j] = c1[j] /\ val'[c1[j]] = val[c1[j]]
    BY <1>1, <1>5
  <2>3. c2[call.base + call.made] = e /\ val'[e] = past'.want[call.made + 1]
    BY <1>1
  <2>4. call.base \in Nat /\ call.n \in Nat /\ KeptOK(call, c1, val, past)
    BY <1>4, CallTypes
  <2>5. past'.before = past.before /\ call.made \in Nat
    BY <1>1
  <2> HIDE DEF c1, c2, e
  <2>6. MadeOne(call, call', c1, c2, val, val', past, past', e, K)
    BY <1>3, <2>1, <2>2, <2>3, <2>4, <2>5 DEF MadeOne
  <2>7. KeptOK(call', c2, val', past')
    BY <2>4, <2>6, KeptMore
  <2> QED BY <2>7 DEF c2
<1>8. DueOK(call', store', val', past')
  <2>1. CASE call.give = "item"
    BY <1>1, <1>3, <2>1 DEF DueOK
  <2>2. CASE call.give = "repeat"
    <3>1. Len(past.want) = call.n /\ \A i \in 1 .. call.n : past.want[i] = val[call.value]
      BY <1>4, <2>2 DEF DueOK
    <3>2. Len(past'.want) = call.n
      BY <1>1, <2>2, <3>1
    <3>3. \A i \in 1 .. call.n : past'.want[i] = val'[call.value]
      BY <1>1, <2>2, <3>1
    <3> QED BY <1>3, <2>2, <3>2, <3>3 DEF DueOK
  <2>3. CASE call.give = "clone"
    <3> DEFINE n == Len(past.want)
               a == call.at
               c1 == Cells(store, call.src)
               c2 == Cells(store', call.src)
    <3>1. Reads(c1, a, 1, n, val, past.want)
      BY <1>4, <2>3 DEF DueOK
    <3>2. \A j \in a .. a + n - 1 : c1[j] \in Elems \ caller /\ c2[j] = c1[j]
      BY <1>0, <2>3, SourceReads
    <3>3. n \in Nat /\ a \in Nat
      BY <1>4, CallTypes
    <3>4. Len(past'.want) = n /\ \A i \in 1 .. n : past'.want[i] = past.want[i]
      BY <1>1, <2>3
    <3>5. /\ call.how = "assign" => a = 0 /\ n = LenOf(store', call.src)
          /\ call.how # "assign" => n = call.n
      BY <1>0, <1>4, <2>3 DEF DueOK
    <3> HIDE DEF n, a, c1, c2
    <3>6. ASSUME NEW i \in 1 .. n
          PROVE  /\ c2[a + i - 1] = c1[a + i - 1] /\ val'[c1[a + i - 1]] = val[c1[a + i - 1]]
                 /\ past'.want[i] = past.want[i]
      <4> DEFINE j == a + i - 1
      <4>1. j \in a .. a + n - 1
        BY <3>3
      <4> HIDE DEF j
      <4>2. c2[j] = c1[j] /\ c1[j] \in Elems \ caller
        BY <3>2, <4>1
      <4>3. val'[c1[j]] = val[c1[j]]
        BY <1>1, <1>5, <4>2
      <4> QED BY <3>4, <4>2, <4>3 DEF j
    <3>7. Reads(c2, a, 1, n, val', past'.want)
      BY <3>1, <3>6, ReadsOn
    <3> QED BY <1>3, <2>3, <3>4, <3>5, <3>7 DEF DueOK, a, c2
  <2> QED BY <2>1, <2>2, <2>3, CallTypes
<1>9. v' = v /\ call'.how # "copy"
  BY <1>3 DEF v, Calling
<1> QED BY <1>1, <1>7, <1>8, <1>9 DEF Remembers

(* The cells that are written are the cells.                               *)
LEMMA EditedCells ==
  ASSUME NEW s, NEW c, NEW d, NEW l, NEW I, NEW b, NEW E, NEW X, Data(s, c, d, l, I, b, E, X),
         NEW h \in Handles, NEW n \in 0 .. MaxCap, NEW cells, NEW x, x = Edited(s, h, cells, n)
  PROVE  Cells(x, h) = cells /\ LenOf(x, h) = n
<1>1. s \in Storage /\ Shaped(s) /\ AsPtr(s, h) \in Handles \cup Ptrs
  BY DataFacts, AddressType
<1>2. SameBlock(s, x, h)
  BY <1>1, EditedBlock
<1>3. x.mem = [s.mem EXCEPT ![AsPtr(s, h)] = cells] /\ s.mem \in Memory
  BY <1>1, EditedMem DEF Storage
<1>4. AsPtr(x, h) = AsPtr(s, h)
  BY <1>2 DEF SameBlock, AsPtr
<1>5. Cells(x, h) = cells
  BY <1>1, <1>3, <1>4 DEF Cells, Memory
<1>6. LenOf(x, h) = n
  <2>1. OnHeap(s, h) \in BOOLEAN
    BY <1>1, LenType
  <2> QED BY <1>1, <2>1, EditedStays
<1> QED BY <1>5, <1>6

LEMMA PushCells ==
  ASSUME NEW I, NEW b, NEW E, NEW X, Data(store, caller, dropped, live, I, b, E, X),
         NEW h, Push(h)
  PROVE  \E e \in caller :
           /\ caller' = caller \ {e} /\ Cells(store', h)[LenOf(store, h)] = e
           /\ \A j \in 0 .. LenOf(store, h) - 1 : Cells(store', h)[j] = Cells(store, h)[j]
<1> DEFINE len == LenOf(store, h)
           grown == IF len = Capacity(store, h) THEN Reserve(store, h, 1) ELSE {store}
<1>1. PICK e \in caller, s \in grown :
        /\ store' = Edited(s, h, [Cells(s, h) EXCEPT ![len] = e], len + 1)
        /\ caller' = caller \ {e}
  BY DEF Push
<1>2. h \in live /\ h \in Handles \ I /\ MaxCap \in Nat
  BY DataFacts, RawAssumption DEF Push
<1>3. len \in Nat /\ len <= Capacity(store, h) /\ Capacity(store, h) \in Nat
  BY <1>2, LengthType
<1>4. /\ Data(s, caller, dropped, live, I, b, E, X)
      /\ LenOf(s, h) = len /\ len < Capacity(s, h)
      /\ \A j \in 0 .. len - 1 : Cells(s, h)[j] = Cells(store, h)[j]
  <2>1. CASE len = Capacity(store, h)
    <3>1. s \in Reserve(store, h, 1) /\ 1 \in Nat
      BY <1>1, <2>1
    <3>2. /\ Data(s, caller, dropped, live, I, b, E, X)
          /\ LenOf(s, h) = len /\ Capacity(s, h) >= LenOf(s, h) + 1
          /\ \A j \in 0 .. len - 1 : Item(s, h, j) = Item(store, h, j)
      BY <1>2, <3>1, DataReserve
    <3>3. Capacity(s, h) \in Int
      BY <1>2, <3>2, LengthType
    <3> QED BY <1>3, <3>2, <3>3 DEF Item
  <2>2. CASE len # Capacity(store, h)
    <3>1. s = store
      BY <1>1, <2>2
    <3> QED BY <1>3, <2>2, <3>1
  <2> QED BY <2>1, <2>2
<1>5. /\ Cells(s, h) \in Block /\ Capacity(s, h) \in Nat /\ Capacity(s, h) <= MaxCap
  <2>1. Cells(s, h) \in Block
    BY <1>2, <1>4, DataVector
  <2> QED BY <1>2, <1>4, <2>1, LengthType
<1> DEFINE cells == [Cells(s, h) EXCEPT ![len] = e]
           n == len + 1
<1> HIDE DEF len, grown
<1>6. cells[len] = e /\ \A j \in 0 .. len - 1 : cells[j] = Cells(s, h)[j]
  <2>1. len \in DOMAIN Cells(s, h)
    BY <1>2, <1>3, <1>4, <1>5 DEF Block, Slots
  <2>2. \A j \in 0 .. len - 1 : j # len
    BY <1>3
  <2> QED BY <2>1, <2>2
<1>7. Cells(store', h) = cells
  <2>1. n \in 0 .. MaxCap /\ store' = Edited(s, h, cells, n)
    BY <1>1, <1>2, <1>3, <1>4, <1>5
  <2> HIDE DEF cells, n
  <2> QED BY <1>2, <1>4, <2>1, EditedCells
<1> QED BY <1>1, <1>4, <1>6, <1>7 DEF len

(* The cells of the running call: those below its length, and what it has  *)
(* set aside, are not the program's.                                       *)
LEMMA MadeApart ==
  ASSUME CInv, Calling
  PROVE  /\ v \in live /\ v \in Handles /\ LenOf(store, v) \in Nat
         /\ \A j \in 0 .. LenOf(store, v) - 1 : Cells(store, v)[j] \in Elems \ caller
         /\ call.how = "guard" =>
              \A j \in 0 .. call.base + call.made - 1 : Cells(store, v)[j] \in Elems \ caller
<1>1. /\ Data(store, caller, dropped, live, iters, begin, leaked, Apart)
      /\ TargetOK(call, store, live, Apart) /\ v = call.vec
  BY DEF CInv, v
<1>2. v \in live /\ v \in Handles /\ LenOf(store, v) \in Nat /\ begin[v] = 0
  BY <1>1, LengthType DEF TargetOK
<1>3. ASSUME NEW j \in 0 .. LenOf(store, v) - 1
      PROVE  Cells(store, v)[j] \in Elems \ caller
  <2>1. j \in Nat /\ begin[v] <= j /\ j < LenOf(store, v) /\ v \in live \cup iters
    BY <1>2
  <2>2. Item(store, v, j) \in Elems \ caller
    BY <1>1, <2>1, ItemApart
  <2> QED BY <2>2 DEF Item
<1>4. ASSUME call.how = "guard", NEW j \in 0 .. call.base + call.made - 1
      PROVE  Cells(store, v)[j] \in Elems \ caller
  <2>1. /\ LenOf(store, v) = call.base
        /\ Holds(Cells(store, v), call.base, call.base + call.made, Apart)
    BY <1>1, <1>4 DEF TargetOK
  <2>2. CASE j < call.base
    <3>1. j \in 0 .. LenOf(store, v) - 1
      BY <2>1, <2>2, CallTypes
    <3> QED BY <1>3, <3>1
  <2>3. CASE j >= call.base
    <3> DEFINE n == call.base + call.made
    <3>1. j \in call.base .. n - 1 /\ Holds(Cells(store, v), call.base, n, Apart)
      BY <2>1, <2>3, CallTypes
    <3> HIDE DEF n
    <3>2. Cells(store, v)[j] \in Apart
      BY <3>1 DEF Holds
    <3>3. Apart \subseteq Elems \ caller
      BY <1>1 DEF Data, Accounts, Own
    <3> QED BY <3>2, <3>3
  <2> QED BY <2>2, <2>3, CallTypes
<1> QED BY <1>2, <1>3, <1>4

LEMMA PushRemembers ==
  ASSUME CInv, Remembers, PushStep
  PROVE  Remembers'
<1>1. PICK g \in Given : Push(v) /\ Take(g)
  BY DEF PushStep
<1>2. call.how = "push" /\ Due /\ Calling /\ v = call.vec
  BY DEF PushStep, Calling, v
<1>3. /\ Data(store, caller, dropped, live, iters, begin, leaked, {})
      /\ TargetOK(call, store, live, Apart)
  BY <1>2, ApartEmpty DEF CInv
<1> DEFINE K == LenOf(store, v)
<1>4. K = call.base + call.made /\ K \in Nat
  BY <1>2, <1>3, MadeApart DEF TargetOK
<1>5. PICK e \in caller :
        /\ caller' = caller \ {e} /\ Cells(store', v)[LenOf(store, v)] = e
        /\ \A j \in 0 .. LenOf(store, v) - 1 : Cells(store', v)[j] = Cells(store, v)[j]
  BY <1>1, <1>3, PushCells
<1>6. e = g.elem
  <2>1. g.elem \in caller /\ caller' = caller \ {g.elem}
    BY <1>1, <1>2, GivenFacts DEF Take
  <2> QED BY <1>5, <2>1
<1>7. \A j \in 0 .. K - 1 : j # call.base + call.made =>
         Cells(store', v)[j] = Cells(store, v)[j] /\ Cells(store, v)[j] \in Elems \ caller
  BY <1>2, <1>5, MadeApart
<1>8. /\ Cells(store', v)[call.base + call.made] = g.elem /\ call.base + call.made <= K
      /\ Only(store, store', v)
  BY <1>4, <1>5, <1>6, PushStepKeeps
<1> HIDE DEF K
<1> QED BY <1>1, <1>2, <1>4, <1>7, <1>8, Continues

(* One cell of a buffer is written.                                        *)
LEMMA WrittenCell ==
  ASSUME NEW s, NEW c, NEW d, NEW l, NEW I, NEW b, NEW E, NEW X, Data(s, c, d, l, I, b, E, X),
         NEW h \in l, NEW i \in Nat, i < Capacity(s, h), NEW e,
         NEW x, x = [s EXCEPT !.mem[AsPtr(s, h)][i] = e]
  PROVE  /\ Cells(x, h)[i] = e
         /\ \A j \in Int : j # i => Cells(x, h)[j] = Cells(s, h)[j]
<1> DEFINE cells == PutAt(Cells(s, h), i, e)
           n == LenOf(s, h)
<1>1. h \in Handles \ I /\ s \in Storage /\ MaxCap \in Nat
  BY DataFacts, RawAssumption
<1>2. n \in 0 .. MaxCap /\ Capacity(s, h) \in Nat /\ Capacity(s, h) <= MaxCap /\ Cells(s, h) \in Block
  <2>1. n \in 0 .. MaxCap /\ Cells(s, h) \in Block
    BY <1>1, DataVector
  <2> QED BY <2>1, LengthType
<1>3. x = Edited(s, h, cells, n)
  BY <1>1, ItemRewrite
<1>4. cells[i] = e /\ \A j \in Int : j # i => cells[j] = Cells(s, h)[j]
  <2>1. i \in DOMAIN Cells(s, h)
    BY <1>1, <1>2 DEF Block, Slots
  <2> QED BY <2>1 DEF PutAt
<1> HIDE DEF cells, n
<1>5. Cells(x, h) = cells
  BY <1>1, <1>2, <1>3, EditedCells
<1> QED BY <1>4, <1>5

LEMMA GuardRemembers ==
  ASSUME CInv, Remembers, GuardStep
  PROVE  Remembers'
<1> DEFINE K == call.base + call.made
<1>1. PICK g \in Given : /\ Take(g)
                         /\ store' = [store EXCEPT !.mem[AsPtr(store, v)][K] = g.elem]
  BY DEF GuardStep
<1>2. call.how = "guard" /\ Due /\ Calling /\ v = call.vec
  BY DEF GuardStep, Calling, v
<1>3. /\ Data(store, caller, dropped, live, iters, begin, leaked, Apart)
      /\ TargetOK(call, store, live, Apart)
  BY <1>2 DEF CInv
<1>4. K \in Nat /\ v \in live /\ K < Capacity(store, v)
  <2>1. v \in live /\ call.base + call.n <= Capacity(store, v) /\ call.made < call.n
    BY <1>2, <1>3 DEF TargetOK, Due
  <2>2. Capacity(store, v) \in Nat
    BY <1>3, <2>1, LengthType
  <2> QED BY <2>1, <2>2, CallTypes
<1>5. K = call.base + call.made
  OBVIOUS
<1>6. Only(store, store', v) /\ LenOf(store', v) = LenOf(store, v)
  <2>1. Only(store, store', v)
    BY GuardStepKeeps
  <2>2. store'.word = store.word
    BY <1>1, <1>3, DataFacts DEF Shaped
  <2> QED BY <2>1, <2>2 DEF LenOf
<1> HIDE DEF K
<1>7. \A j \in 0 .. K - 1 : Cells(store, v)[j] \in Elems \ caller
  <2>1. \A j \in 0 .. call.base + call.made - 1 : Cells(store, v)[j] \in Elems \ caller
    BY <1>2, MadeApart
  <2> QED BY <1>4, <1>5, <2>1, CallTypes
<1>8. /\ Cells(store', v)[K] = g.elem
      /\ \A j \in Int : j # K => Cells(store', v)[j] = Cells(store, v)[j]
  BY <1>1, <1>3, <1>4, WrittenCell, SMTT(30)
<1>9. \A j \in 0 .. K - 1 : j # call.base + call.made =>
         Cells(store', v)[j] = Cells(store, v)[j] /\ Cells(store, v)[j] \in Elems \ caller
  BY <1>5, <1>7, <1>8
<1>10. Cells(store', v)[call.base + call.made] = g.elem /\ call.base + call.made <= K
  BY <1>4, <1>5, <1>8
<1> QED BY <1>1, <1>2, <1>4, <1>6, <1>9, <1>10, Continues

LEMMA AssignRemembers ==
  ASSUME CInv, Remembers, AssignStep
  PROVE  Remembers'
<1> DEFINE K == LenOf(store, v)
           i == call.made
<1>1. PICK g \in Given : /\ Take(g)
                         /\ store' = [store EXCEPT !.mem[AsPtr(store, v)][i] = g.elem]
  BY DEF AssignStep
<1>2. call.how = "assign" /\ Due /\ Calling /\ v = call.vec
  BY DEF AssignStep, Calling, v
<1>3. /\ Data(store, caller, dropped, live, iters, begin, leaked, Apart)
      /\ TargetOK(call, store, live, Apart) /\ KeptOK(call, Cells(store, v), val, past)
  BY <1>2 DEF CInv, Remembers
<1>4. K \in Nat /\ v \in live /\ K = call.n /\ i < K /\ i \in Nat /\ i = call.base + call.made
  BY <1>2, <1>3, MadeApart, CallTypes DEF TargetOK, Due, KeptOK
<1>5. i < Capacity(store, v)
  <2>1. Capacity(store, v) \in Nat /\ LenOf(store, v) <= Capacity(store, v)
    BY <1>3, <1>4, LengthType
  <2> QED BY <1>4, <2>1
<1>6. Only(store, store', v)
  BY AssignStepKeeps
<1>7. \A j \in 0 .. K - 1 : Cells(store, v)[j] \in Elems \ caller
  BY <1>2, MadeApart
<1> HIDE DEF K, i
<1>8. /\ Cells(store', v)[i] = g.elem
      /\ \A j \in Int : j # i => Cells(store', v)[j] = Cells(store, v)[j]
  <2>1. /\ Data(store, caller, dropped, live, iters, begin, leaked, Apart)
        /\ v \in live /\ i \in Nat /\ i < Capacity(store, v)
        /\ store' = [store EXCEPT !.mem[AsPtr(store, v)][i] = g.elem]
    BY <1>1, <1>3, <1>4, <1>5
  <2> QED BY <2>1, WrittenCell, SMTT(30)
<1>9. \A j \in 0 .. K - 1 : j # call.base + call.made =>
         Cells(store', v)[j] = Cells(store, v)[j] /\ Cells(store, v)[j] \in Elems \ caller
  BY <1>4, <1>7, <1>8
<1>10. Cells(store', v)[call.base + call.made] = g.elem /\ call.base + call.made <= K
  BY <1>4, <1>8
<1> QED BY <1>1, <1>2, <1>4, <1>6, <1>9, <1>10, Continues

(* The values of a vector.                                                 *)
LEMMA LiveValues ==
  ASSUME NEW s, NEW c, NEW d, NEW l, NEW I, NEW b, NEW E, NEW X, Data(s, c, d, l, I, b, E, X),
         NEW h \in l, NEW f \in [Elems -> Elems], NEW w, w = Values(s, h, f),
         NEW n, n = LenOf(s, h)
  PROVE  w \in Seq(Elems) /\ Len(w) = n /\ n \in Nat /\ Reads(Cells(s, h), 0, 1, n, f, w)
<1> DEFINE at == 0
<1>1. n \in Nat /\ b[h] = 0 /\ h \in l \cup I
  BY LengthType
<1>2. \A j \in 0 .. 0 + n - 1 : Item(s, h, j) \in Elems
  <2>1. ASSUME NEW j \in 0 .. 0 + n - 1
        PROVE  Item(s, h, j) \in Elems
    <3>1. j \in Nat /\ b[h] <= j /\ j < LenOf(s, h)
      BY <1>1
    <3> QED BY <1>1, <3>1, ItemApart
  <2> QED BY <2>1
<1>3. w = ValuesOf(Items(s, h, at, n), f) /\ at \in Nat
  BY DEF Values, Contents
<1>4. \A j \in at .. at + n - 1 : Item(s, h, j) \in Elems
  BY <1>2
<1> HIDE DEF at
<1>5. w \in Seq(Elems) /\ Len(w) = n /\ Reads(Cells(s, h), at, 1, n, f, w)
  BY <1>1, <1>3, <1>4, ValuesRead
<1> QED BY <1>1, <1>5 DEF at

(* A call that clones has begun.                                           *)
LEMMA CloningBegun ==
  ASSUME NEW k, NEW s, NEW f, NEW p, k.give = "clone", k.made = 0, k.base \in Nat,
         NEW cells, NEW m \in Nat, Len(p.before) = m, Reads(cells, 0, 1, m, f, p.before),
         k.how = "assign" => k.base = 0 /\ k.n = m /\ k.at = 0 /\ Len(p.want) = LenOf(s, k.src),
         k.how # "assign" => k.base = m /\ Len(p.want) = k.n,
         Reads(Cells(s, k.src), k.at, 1, Len(p.want), f, p.want)
  PROVE  KeptOK(k, cells, f, p) /\ DueOK(k, s, f, p)
<1>1. Reads(cells, k.base, 1, 0, f, p.want)
  BY DEF Reads
<1>2. 0 + 1 = 1 /\ "clone" # "item" /\ "clone" # "repeat"
  OBVIOUS
<1>3. k.how = "assign" => k.base = 0 /\ Len(p.before) = k.n /\ Reads(cells, 0, k.made + 1, k.n, f, p.before)
  BY <1>2
<1>4. k.how # "assign" => Len(p.before) = k.base /\ Reads(cells, 0, 1, k.base, f, p.before)
  OBVIOUS
<1>5. KeptOK(k, cells, f, p)
  BY <1>1, <1>3, <1>4 DEF KeptOK
<1>6. DueOK(k, s, f, p)
  BY <1>2 DEF DueOK
<1> QED BY <1>5, <1>6

LEMMA CloneFromRemembers ==
  ASSUME CInv, NEW h, NEW k, CloneFrom(h, k)
  PROVE  Remembers'
<1> DEFINE n == IF LenOf(store, h) < LenOf(store, k) THEN LenOf(store, h) ELSE LenOf(store, k)
           c == [Cloning("assign", k, 0, n) EXCEPT !.vec = h]
           len == LenOf(store, h)
           m == LenOf(store, k)
           p == SubSeq(Values(store, h, val), 1, n)
           q == Values(store, h, val)
           w == Values(store, k, val)
           cells == Cells(store', h)
<1>1. /\ ~Calling /\ h \in live /\ h \in SmallVecs /\ k \in live /\ k # h /\ CutTo(h, n)
      /\ call' = c /\ val' = val /\ past' = [before |-> p, want |-> w]
  BY DEF CloneFrom, Idle, Calling
<1>2. /\ Data(store, caller, dropped, live, iters, begin, leaked, {})
      /\ val \in [Elems -> Elems]
  BY <1>1, IdleData
<1>3. /\ len \in Nat /\ m \in Nat /\ len <= MaxCap
      /\ h \in Handles /\ k \in Handles /\ MaxCap \in Nat
  BY <1>1, <1>2, LengthType, RawAssumption
<1>4. n \in Nat /\ n <= len /\ n <= m /\ n \in 0 .. MaxCap + 1 /\ n \in 0 .. MaxCap
  BY <1>3
<1>5. /\ store' = Edited(store, h, Wipe(Cells(store, h), n, LenOf(store, h) - n), n)
      /\ dropped' = dropped \cup {Item(store, h, i) : i \in n .. LenOf(store, h) - 1}
  BY <1>1 DEF CutTo
<1>6. /\ q \in Seq(Elems) /\ Len(q) = len /\ Reads(Cells(store, h), 0, 1, len, val, q)
      /\ w \in Seq(Elems) /\ Len(w) = m /\ Reads(Cells(store, k), 0, 1, m, val, w)
  BY <1>1, <1>2, LiveValues
<1>7. p = SubSeq(q, 1, n)
  OBVIOUS
<1>8. /\ c \in Calls /\ c.how = "assign" /\ c.give = "clone" /\ c.src = k /\ c.at = 0 /\ c.n = n
      /\ c.made = 0 /\ c.vec = h /\ c.base = 0
  <2> DEFINE x == Cloning("assign", k, 0, n)
  <2>1. /\ x \in Calls /\ x.how = "assign" /\ x.give = "clone" /\ x.src = k /\ x.at = 0 /\ x.n = n
        /\ x.made = 0 /\ x.base = 0
    <3>1. 0 \in 0 .. MaxCap /\ "assign" \in {"push", "guard", "assign"}
      BY <1>3
    <3> QED BY <1>3, <1>4, <3>1, CloningFields
  <2> HIDE DEF x
  <2> QED BY <1>3, <2>1 DEF Calls, x
<1> HIDE DEF n, c, p, q, w
<1>9. p \in Seq(Elems) /\ Len(p) = n /\ Reads(Cells(store, h), 0, 1, n, val, p)
  <2>1. Reads(Cells(store, h), 0, 1, n, val, q)
    BY <1>3, <1>4, <1>6 DEF Reads
  <2>2. n <= Len(q)
    BY <1>3, <1>4, <1>6
  <2> QED BY <1>4, <1>6, <1>7, <2>1, <2>2, ReadsFirst
<1>10. Only(store, store', h)
  BY <1>1, <1>2, <1>4, <1>5, DataCut
<1>11. LenOf(store', k) = m /\ Cells(store', k) = Cells(store, k)
  <2>1. OnlyTouches(store, store', {h}) /\ k \in Handles \ {h} /\ Cells(store', k) = Cells(store, k)
    BY <1>1, <1>3, <1>10 DEF Only, Spares
  <2> QED BY <2>1, UntouchedStays
<1>12. Reads(cells, 0, 1, n, val, p)
  <2> DEFINE g == Wipe(Cells(store, h), n, LenOf(store, h) - n)
  <2>1. cells = g
    <3> HIDE DEF g
    <3>1. store' = Edited(store, h, g, n)
      BY <1>5 DEF g
    <3> QED BY <1>2, <1>3, <1>4, <3>1, EditedCells
  <2>2. ASSUME NEW i \in 1 .. n
        PROVE  g[0 + i - 1] = Cells(store, h)[0 + i - 1]
    <3>1. 0 + i - 1 \in Slots /\ 0 + i - 1 \notin n .. n + (len - n) - 1
      BY <1>3, <1>4 DEF Slots
    <3> QED BY <3>1 DEF Wipe
  <2> HIDE DEF g
  <2> QED BY <1>9, <2>1, <2>2 DEF Reads
<1> HIDE DEF len, m, cells
<1>13. past'.before = p /\ past'.want = w /\ past' \in [before : Seq(Elems), want : Seq(Elems)]
  BY <1>1, <1>6, <1>9
<1>14. KeptOK(call', cells, val', past') /\ DueOK(call', store', val', past')
  <2>1. /\ call'.how = "assign" /\ call'.give = "clone" /\ call'.src = k /\ call'.at = 0
        /\ call'.n = n /\ call'.made = 0 /\ call'.base = 0 /\ val' = val
    BY <1>1, <1>8
  <2>2. /\ Reads(cells, 0, 1, n, val', past'.before) /\ Len(past'.before) = n
        /\ Len(past'.want) = LenOf(store', call'.src)
        /\ Reads(Cells(store', call'.src), call'.at, 1, Len(past'.want), val', past'.want)
    BY <1>6, <1>9, <1>11, <1>12, <1>13, <2>1
  <2>3. call'.base \in Nat /\ n \in Nat
    BY <1>4, <2>1
  <2> QED BY <2>1, <2>2, <2>3, CloningBegun
<1>15. v' = h /\ call'.how # "copy"
  BY <1>1, <1>8 DEF v
<1> QED BY <1>13, <1>14, <1>15 DEF Remembers, cells

LEMMA TailRemembers ==
  ASSUME CInv, Remembers, AssignTail
  PROVE  Remembers'
<1> DEFINE n == call.n
           k == call.src
           rest == LenOf(store, call.src) - call.n
           w == past.want
           p == SubSeq(w, 1, n)
           q == SubSeq(w, n + 1, Len(w))
           cells == Cells(store', v)
<1>1. PICK how \in Ways, s \in Reserve(store, v, rest) :
        /\ store' = s
        /\ call' = [Cloning(how, k, n, rest) EXCEPT !.vec = v, !.base = n]
  BY DEF AssignTail
<1>2. val' = val /\ past' = [before |-> p, want |-> q]
  BY DEF AssignTail
<1>3. call.how = "assign" /\ Calling /\ v = call.vec /\ ~Due
  BY DEF AssignTail, Calling, v
<1>4. /\ Data(store, caller, dropped, live, iters, begin, leaked, {})
      /\ TargetOK(call, store, live, Apart)
      /\ SourceOK(call, store, caller, live \cup iters, begin)
      /\ KeptOK(call, Cells(store, v), val, past) /\ DueOK(call, store, val, past)
      /\ w \in Seq(Elems)
  BY <1>3, ApartEmpty DEF CInv, Remembers
<1>5. /\ v \in live /\ LenOf(store, v) = n /\ call.give = "clone" /\ k \in live
      /\ k # v /\ call.made = n /\ k \in Handles /\ v \in Handles
      /\ LenOf(store, k) \in Nat /\ LenOf(store, k) <= MaxCap /\ n <= MaxCap /\ n <= LenOf(store, k)
  <2>1. /\ v \in live /\ LenOf(store, v) = n /\ call.give = "clone" /\ k \in live
        /\ k # v /\ call.made <= n /\ call.at + n <= LenOf(store, k)
    BY <1>3, <1>4 DEF TargetOK, SourceOK
  <2>2. call.made = n
    BY <1>3, <2>1, CallTypes DEF Due
  <2>3. /\ k \in Handles /\ v \in Handles /\ LenOf(store, k) \in Nat
        /\ LenOf(store, k) <= MaxCap /\ LenOf(store, v) <= MaxCap
    <3> HIDE DEF k
    <3> QED BY <1>4, <2>1, LengthType
  <2> QED BY <2>1, <2>2, <2>3, CallTypes
<1>6. /\ n \in Nat /\ rest \in Nat /\ rest <= MaxCap /\ n <= MaxCap /\ MaxCap \in Nat
      /\ n + rest = LenOf(store, k)
  BY <1>5, CallTypes
<1>7. /\ Reads(Cells(store, v), 0, 1, n, val, w) /\ Len(w) = LenOf(store, k)
      /\ Reads(Cells(store, k), 0, 1, Len(w), val, w)
  BY <1>3, <1>4, <1>5 DEF KeptOK, DueOK
<1> HIDE DEF n, k, rest, w
<1>8. /\ Only(store, s, v) /\ \A i \in 0 .. n - 1 : Cells(s, v)[i] = Cells(store, v)[i]
  BY <1>4, <1>5, <1>6, DataReserve DEF Item
<1>9. LenOf(s, k) = LenOf(store, k) /\ Cells(s, k) = Cells(store, k)
  <2>1. OnlyTouches(store, s, {v}) /\ k \in Handles \ {v} /\ Cells(s, k) = Cells(store, k)
    BY <1>5, <1>8 DEF Only, Spares
  <2> QED BY <2>1, UntouchedStays
<1>10. /\ call'.how = how /\ call'.give = "clone" /\ call'.src = k
       /\ call'.at = n /\ call'.n = rest /\ call'.made = 0 /\ call'.vec = v /\ call'.base = n
  <2> DEFINE c == Cloning(how, k, n, rest)
  <2>1. /\ c \in Calls /\ c.how = how /\ c.give = "clone" /\ c.src = k /\ c.at = n
        /\ c.n = rest /\ c.made = 0
    <3>1. how \in {"push", "guard", "assign"} /\ n \in 0 .. MaxCap /\ rest \in 0 .. MaxCap + 1
      BY <1>6 DEF Ways
    <3> QED BY <1>5, <3>1, CloningFields
  <2> HIDE DEF c
  <2>2. n \in 0 .. MaxCap /\ v \in Handles /\ call' = [c EXCEPT !.vec = v, !.base = n]
    BY <1>1, <1>5, <1>6 DEF c
  <2> QED BY <2>1, <2>2 DEF Calls
<1>11. p \in Seq(Elems) /\ Len(p) = n /\ Reads(Cells(store, v), 0, 1, n, val, p)
  <2>1. n <= Len(w)
    BY <1>5, <1>6, <1>7
  <2>2. p = SubSeq(w, 1, n)
    OBVIOUS
  <2> HIDE DEF p
  <2> QED BY <1>4, <1>6, <1>7, <2>1, <2>2, ReadsFirst
<1>12. q \in Seq(Elems) /\ Len(q) = rest /\ Reads(Cells(store, k), n, 1, rest, val, q)
  <2> DEFINE len == Len(w)
             cells0 == Cells(store, k)
  <2>1. n <= len /\ rest = len - n /\ q = SubSeq(w, n + 1, len) /\ Reads(cells0, 0, 1, len, val, w)
    BY <1>5, <1>6, <1>7
  <2>2. w \in Seq(Elems) /\ n \in Nat /\ len = Len(w) /\ n <= Len(w)
    BY <1>4, <1>6, <2>1
  <2> HIDE DEF q, len, cells0
  <2>3. q \in Seq(Elems) /\ Len(q) = Len(w) - n /\ Reads(cells0, n, 1, Len(q), val, q)
    <3> DEFINE m == n + 1
    <3>1. q = SubSeq(w, m, Len(w)) /\ m = n + 1 /\ Reads(cells0, 0, 1, Len(w), val, w)
      BY <2>1, <2>2
    <3> HIDE DEF m
    <3> QED BY <2>2, <3>1, ReadsRest
  <2>4. Len(q) = rest
    BY <2>1, <2>2, <2>3
  <2> QED BY <2>3, <2>4 DEF cells0
<1> HIDE DEF p, q
<1>13. Reads(cells, 0, 1, n, val, p)
  <2>1. ASSUME NEW i \in 1 .. n
        PROVE  cells[0 + i - 1] = Cells(store, v)[0 + i - 1]
    <3>1. 0 + i - 1 \in 0 .. n - 1
      BY <1>6
    <3> QED BY <1>1, <1>8, <3>1
  <2> HIDE DEF cells
  <2> QED BY <1>11, <2>1 DEF Reads
<1> HIDE DEF cells
<1>14. past'.before = p /\ past'.want = q /\ past' \in [before : Seq(Elems), want : Seq(Elems)]
  BY <1>2, <1>11, <1>12
<1>15. how # "assign" /\ how \in {"push", "guard"}
  BY DEF Ways
<1>16. KeptOK(call', cells, val', past') /\ DueOK(call', store', val', past')
  <2>1. /\ Reads(cells, 0, 1, n, val', past'.before) /\ Len(past'.before) = n
        /\ Len(past'.want) = call'.n
        /\ Reads(Cells(store', call'.src), call'.at, 1, Len(past'.want), val', past'.want)
    BY <1>1, <1>2, <1>9, <1>10, <1>11, <1>12, <1>13, <1>14
  <2>2. call'.base \in Nat /\ n \in Nat /\ call'.base = n /\ call'.how # "assign" /\ call'.made = 0
        /\ call'.give = "clone"
    BY <1>6, <1>10, <1>15
  <2> QED BY <2>1, <2>2, CloningBegun
<1>17. v' = v /\ call'.how # "copy"
  BY <1>10, <1>15 DEF v
<1> QED BY <1>14, <1>16, <1>17 DEF Remembers, cells

(* The elements a call that begins is due.                                 *)
WantOK(c, s, want) ==
  /\ want \in Seq(Elems)
  /\ c.give = "item" => Len(want) = 0
  /\ c.give = "repeat" => Len(want) = c.n /\ \A i \in 1 .. c.n : want[i] = val[c.value]
  /\ c.give = "clone" => Len(want) = c.n /\ Reads(Cells(s, c.src), c.at, 1, c.n, val, want)

LEMMA BegunRemembers ==
  ASSUME CInv, NEW h, NEW s, NEW c \in Calls, NEW want, Begin(h, s, c, want),
         c.made = 0, c.how \in Ways, WantOK(c, s, want),
         NEW l, h \in l, Data(s, caller, dropped, l, iters, begin, leaked, {})
  PROVE  Remembers'
<1> DEFINE n == LenOf(s, h)
           q == Values(s, h, val)
           k == [c EXCEPT !.vec = h, !.base = n]
           cells == Cells(s, h)
<1>1. store' = s /\ call' = k /\ val' = val /\ past' = [before |-> q, want |-> want]
  BY DEF Begin
<1>2. h \in Handles /\ n \in Nat /\ n <= MaxCap /\ MaxCap \in Nat /\ val \in [Elems -> Elems]
  BY LengthType, RawAssumption DEF CInv
<1>3. q \in Seq(Elems) /\ Len(q) = n /\ Reads(cells, 0, 1, n, val, q)
  <2> HIDE DEF n
  <2>1. n = LenOf(s, h)
    BY DEF n
  <2> QED BY <1>2, <2>1, LiveValues
<1>4. n \in 0 .. MaxCap
  BY <1>2
<1> HIDE DEF n, q, cells
<1>5. /\ k.how = c.how /\ k.give = c.give /\ k.vec = h /\ k.src = c.src /\ k.at = c.at
      /\ k.n = c.n /\ k.made = 0 /\ k.base = n /\ k.value = c.value
  BY <1>2, <1>4 DEF Calls
<1> HIDE DEF k
<1>6. c.how # "assign" /\ c.how # "copy"
  BY DEF Ways
<1>7. past'.before = q /\ past'.want = want /\ past' \in [before : Seq(Elems), want : Seq(Elems)]
  BY <1>1, <1>3 DEF WantOK
<1>8. KeptOK(k, cells, val, past')
  <2>1. Reads(cells, n, 1, 0, val, want)
    BY DEF Reads
  <2> QED BY <1>3, <1>5, <1>6, <1>7, <2>1 DEF KeptOK
<1>9. DueOK(k, s, val, past')
  BY <1>5, <1>6, <1>7 DEF DueOK, WantOK
<1>10. v' = h
  BY <1>1, <1>5 DEF v
<1> QED BY <1>1, <1>5, <1>6, <1>7, <1>8, <1>9, <1>10 DEF Remembers, cells

(* What a slice of the program reads is there in the state a call begins.  *)
LEMMA SliceWant ==
  ASSUME CInv, Idle, NEW k, NEW at \in Nat, NEW n \in Nat, Slice(k, at, n), NEW want,
         want = SliceValues(k, at, n), NEW s, NEW h, Only(store, s, h),
         k = h => \A i \in 0 .. LenOf(store, h) - 1 : Item(s, h, i) = Item(store, h, i)
  PROVE  want \in Seq(Elems) /\ Len(want) = n /\ Reads(Cells(s, k), at, 1, n, val, want)
<1>1. /\ Data(store, caller, dropped, live, iters, begin, leaked, {})
      /\ val \in [Elems -> Elems]
  BY IdleOwn
<1>2. k \in live \cup iters /\ begin[k] <= at /\ at + n <= LenOf(store, k)
  BY DEF Slice
<1>3. k \in Handles /\ begin[k] \in Nat /\ LenOf(store, k) \in Nat
  BY <1>1, <1>2, SliceTypes
<1>4. \A j \in at .. at + n - 1 : Item(store, k, j) \in Elems
  <2>1. ASSUME NEW j \in at .. at + n - 1
        PROVE  Item(store, k, j) \in Elems
    <3>1. j \in Nat /\ begin[k] <= j /\ j < LenOf(store, k)
      BY <1>2, <1>3
    <3>2. Item(store, k, j) \in Elems \ caller
      BY <1>1, <1>2, <3>1, ItemApart
    <3> QED BY <3>2
  <2> QED BY <2>1
<1>5. want \in Seq(Elems) /\ Len(want) = n /\ Reads(Cells(store, k), at, 1, n, val, want)
  <2>1. want = ValuesOf(Items(store, k, at, n), val)
    BY DEF SliceValues
  <2> QED BY <1>1, <1>4, <2>1, ValuesRead
<1>6. ASSUME NEW i \in 1 .. n
      PROVE  Cells(s, k)[at + i - 1] = Cells(store, k)[at + i - 1]
  <2>1. CASE k = h
    <3> DEFINE j == at + i - 1
    <3>1. j \in 0 .. LenOf(store, h) - 1
      BY <1>2, <1>3, <2>1
    <3> HIDE DEF j
    <3>2. Item(s, h, j) = Item(store, h, j)
      BY <2>1, <3>1
    <3> QED BY <2>1, <3>2 DEF Item, j
  <2>2. CASE k # h
    BY <1>3, <2>2 DEF Only, Spares
  <2> QED BY <2>1, <2>2
<1> QED BY <1>5, <1>6 DEF Reads

LEMMA InPlaceRemembers ==
  ASSUME CInv, NEW h, NEW n \in Nat, NEW c \in Calls, NEW want,
         Begins(h, Reserve(store, h, n), c, want), c.made = 0, c.how \in Ways,
         \A s : Only(store, s, h) /\ (\A i \in 0 .. LenOf(store, h) - 1 : Item(s, h, i) = Item(store, h, i))
                => WantOK(c, s, want)
  PROVE  Remembers'
<1>1. PICK s \in Reserve(store, h, n) : Begin(h, s, c, want)
  BY DEF Begins
<1>2. h \in live /\ Idle
  BY <1>1 DEF Begins, Begin
<1>3. Data(store, caller, dropped, live, iters, begin, leaked, {})
  BY <1>2, IdleOwn
<1>4. /\ Data(s, caller, dropped, live, iters, begin, leaked, {}) /\ Only(store, s, h)
      /\ \A i \in 0 .. LenOf(store, h) - 1 : Item(s, h, i) = Item(store, h, i)
  BY <1>1, <1>2, <1>3, DataReserve
<1>5. WantOK(c, s, want)
  BY <1>4
<1> QED BY <1>1, <1>2, <1>4, <1>5, BegunRemembers

LEMMA FreshRemembers ==
  ASSUME CInv, NEW h, NEW n \in Nat, NEW c \in Calls, NEW want, NEW outcomes,
         Constructs(h, outcomes, c, want), c.made = 0, c.how \in Ways,
         \/ outcomes = WithCapacity(store, h, n)
         \/ outcomes = Reserve(NewInline(store, h), h, n),
         \A s : Only(store, s, h) => WantOK(c, s, want)
  PROVE  Remembers'
<1> DEFINE k == [c EXCEPT !.fresh = TRUE]
           l == live \cup {h}
<1>1. PICK s \in outcomes : Begin(h, s, k, want)
  BY DEF Constructs
<1>2. h \in SmallVecs \ (live \cup iters) /\ Idle /\ h \in Handles
  BY <1>1 DEF Constructs, Construct, Begin, SmallVecs
<1>3. Data(store, caller, dropped, live, iters, begin, leaked, {})
  BY <1>2, IdleOwn
<1>4. /\ k \in Calls /\ k.made = 0 /\ k.how = c.how /\ k.give = c.give /\ k.n = c.n
      /\ k.value = c.value /\ k.src = c.src /\ k.at = c.at
  BY DEF Calls
<1>5. h \in l /\ l = live \cup {h} /\ h \in Handles \ (live \cup iters)
  BY <1>2
<1> HIDE DEF k, l
<1>6. Data(s, caller, dropped, l, iters, begin, leaked, {}) /\ Only(store, s, h)
  <2>1. CASE outcomes = WithCapacity(store, h, n)
    <3>1. s \in WithCapacity(store, h, n) \/ (s = NewInline(store, h) /\ n = InlineSize[h])
      BY <1>1, <2>1
    <3> QED BY <1>3, <1>5, <3>1, DataMake
  <2>2. CASE outcomes = Reserve(NewInline(store, h), h, n)
    <3> DEFINE m == NewInline(store, h)
    <3>1. Data(m, caller, dropped, l, iters, begin, leaked, {}) /\ Only(store, m, h)
      BY <1>3, <1>5, DataNew
    <3>2. s \in Reserve(m, h, n)
      BY <1>1, <2>2
    <3> HIDE DEF m
    <3>3. Data(s, caller, dropped, l, iters, begin, leaked, {}) /\ Only(m, s, h)
      BY <1>5, <3>1, <3>2, DataReserve
    <3>4. Only(store, s, h)
      BY <3>1, <3>3, OnlyCompose
    <3> QED BY <3>3, <3>4
  <2> QED BY <2>1, <2>2
<1>7. WantOK(k, s, want)
  <2>1. WantOK(c, s, want)
    BY <1>6
  <2> QED BY <1>4, <2>1 DEF WantOK
<1> QED BY <1>1, <1>4, <1>5, <1>6, <1>7, BegunRemembers

LEMMA NothingWanted ==
  ASSUME NEW c, c.give = "item", NEW s
  PROVE  WantOK(c, s, <<>>)
  BY EmptySeq DEF WantOK

LEMMA ValueWanted ==
  ASSUME CInv, NEW c, c.give = "repeat", NEW s, NEW n \in Nat, c.n = n, NEW e \in caller, c.value = e,
         NEW want, want = [i \in 1 .. n |-> val[e]]
  PROVE  WantOK(c, s, want)
<1>1. val \in [Elems -> Elems] /\ e \in Elems
  BY DataFacts DEF CInv
<1>2. val[e] \in Elems
  BY <1>1
<1>3. want \in Seq(Elems) /\ Len(want) = n /\ \A i \in 1 .. n : want[i] = val[e]
  BY <1>2
<1> QED BY <1>3 DEF WantOK

LEMMA SliceWanted ==
  ASSUME CInv, Idle, NEW k, NEW at \in Nat, NEW n \in Nat, Slice(k, at, n), NEW want,
         want = SliceValues(k, at, n), NEW s, NEW h, Only(store, s, h),
         k = h => \A i \in 0 .. LenOf(store, h) - 1 : Item(s, h, i) = Item(store, h, i),
         NEW c, c.give = "clone", c.src = k, c.at = at, c.n = n
  PROVE  WantOK(c, s, want)
<1>1. want \in Seq(Elems) /\ Len(want) = n /\ Reads(Cells(s, k), at, 1, n, val, want)
  BY SliceWant
<1> QED BY <1>1 DEF WantOK

(* A vector that the call makes.                                           *)
LEMMA MakesRemember ==
  ASSUME CInv, NEW h \in Handles, NEW n \in Sizes,
         \/ FromElem(h, n) \/ FromIter(h, n) \/ SpecFromIter(h, n) \/ VisitSeq(h, n)
         \/ \E k \in Handles, at \in Slots : FromSlice(h, k, at, n)
  PROVE  Remembers'
<1>1. n \in Nat /\ n \in 0 .. MaxCap + 1 /\ 0 \in 0 .. MaxCap + 1
  BY RawAssumption DEF Sizes
<1>2. CASE FromElem(h, n)
  <2>1. PICK e \in caller :
          Constructs(h, WithCapacity(store, h, n), Repeating("guard", e, n), [i \in 1 .. n |-> val[e]])
    BY <1>2 DEF FromElem
  <2> DEFINE c == Repeating("guard", e, n)
             want == [i \in 1 .. n |-> val[e]]
             outcomes == WithCapacity(store, h, n)
  <2>2. e \in Elems /\ "guard" \in Ways
    BY DataFacts DEF CInv, Ways
  <2>3. c \in Calls /\ c.how = "guard" /\ c.give = "repeat" /\ c.value = e /\ c.n = n /\ c.made = 0
    BY <1>1, <2>2, RepeatingFields
  <2>4. /\ Constructs(h, outcomes, c, want) /\ outcomes = WithCapacity(store, h, n)
        /\ want = [i \in 1 .. n |-> val[e]]
    BY <2>1
  <2> HIDE DEF c, want, outcomes
  <2>5. \A s : WantOK(c, s, want)
    BY <1>1, <2>3, <2>4, ValueWanted
  <2> QED BY <1>1, <2>2, <2>3, <2>4, <2>5, FreshRemembers
<1>3. ASSUME NEW how \in Ways, NEW open \in BOOLEAN, NEW m \in 0 .. MaxCap + 1,
             NEW outcomes, Constructs(h, outcomes, Drawing(how, open, m), <<>>),
             \/ outcomes = WithCapacity(store, h, n)
             \/ outcomes = Reserve(NewInline(store, h), h, n)
      PROVE  Remembers'
  <2> DEFINE c == Drawing(how, open, m)
             want == <<>>
  <2>1. c \in Calls /\ c.how = how /\ c.give = "item" /\ c.n = m /\ c.made = 0
    BY DrawingFields
  <2>2. Constructs(h, outcomes, c, want) /\ want = <<>>
    BY <1>3
  <2> HIDE DEF c, want
  <2>3. \A s : WantOK(c, s, want)
    BY <2>1, <2>2, NothingWanted
  <2> QED BY <1>1, <1>3, <2>1, <2>2, <2>3, FreshRemembers
<1>4. "push" \in Ways /\ "guard" \in Ways
  BY DEF Ways
<1>5. CASE FromIter(h, n)
  BY <1>1, <1>3, <1>4, <1>5 DEF FromIter
<1>6. CASE SpecFromIter(h, n)
  BY <1>1, <1>3, <1>4, <1>6 DEF SpecFromIter
<1>7. CASE VisitSeq(h, n)
  BY <1>1, <1>3, <1>4, <1>7 DEF VisitSeq
<1>8. ASSUME NEW k \in Handles, NEW at \in Slots, FromSlice(h, k, at, n)
      PROVE  Remembers'
  <2> DEFINE c == Cloning("guard", k, at, n)
             want == SliceValues(k, at, n)
             outcomes == WithCapacity(store, h, n)
  <2>1. at \in 0 .. MaxCap /\ at \in Nat /\ "guard" \in Ways
    BY RawAssumption DEF Slots, Ways
  <2>2. /\ c \in Calls /\ c.how = "guard" /\ c.give = "clone" /\ c.src = k /\ c.at = at /\ c.n = n
        /\ c.made = 0
    BY <1>1, <2>1, CloningFields
  <2>3. /\ Constructs(h, outcomes, c, want) /\ outcomes = WithCapacity(store, h, n)
        /\ Slice(k, at, n) /\ want = SliceValues(k, at, n)
    BY <1>8 DEF FromSlice
  <2>4. Idle /\ k # h
    BY <2>3 DEF Constructs, Construct, Begin, Slice
  <2> HIDE DEF c, want, outcomes
  <2>5. ASSUME NEW s, Only(store, s, h)
        PROVE  WantOK(c, s, want)
    BY <1>1, <2>1, <2>2, <2>3, <2>4, <2>5, SliceWanted
  <2> QED BY <1>1, <2>1, <2>2, <2>3, <2>5, FreshRemembers
<1> QED BY <1>2, <1>5, <1>6, <1>7, <1>8

LEMMA ExtendsRemember ==
  ASSUME CInv, NEW h \in Handles, NEW n \in Sizes,
         \/ Extend(h, n) \/ SpecExtend(h, n) \/ ResizeUp(h, n) \/ ResizeWith(h, n)
         \/ \E at \in Slots : ExtendFromWithin(h, at, n)
         \/ \E k \in Handles, at \in Slots : ExtendFromSlice(h, k, at, n)
  PROVE  Remembers'
<1>1. n \in Nat /\ n \in 0 .. MaxCap + 1 /\ 0 \in 0 .. MaxCap + 1 /\ MaxCap \in Nat
  BY RawAssumption DEF Sizes
<1>2. ASSUME NEW how \in Ways, NEW open \in BOOLEAN, NEW m \in 0 .. MaxCap + 1, NEW r \in Nat,
             Begins(h, Reserve(store, h, r), Drawing(how, open, m), <<>>)
      PROVE  Remembers'
  <2> DEFINE c == Drawing(how, open, m)
             want == <<>>
  <2>1. c \in Calls /\ c.how = how /\ c.give = "item" /\ c.n = m /\ c.made = 0
    BY DrawingFields
  <2>2. Begins(h, Reserve(store, h, r), c, want) /\ want = <<>>
    BY <1>2
  <2> HIDE DEF c, want
  <2>3. \A s : WantOK(c, s, want)
    BY <2>1, <2>2, NothingWanted
  <2> QED BY <2>1, <2>2, <2>3, InPlaceRemembers
<1>3. "push" \in Ways /\ "guard" \in Ways
  BY DEF Ways
<1>4. CASE Extend(h, n)
  BY <1>1, <1>2, <1>3, <1>4 DEF Extend
<1>5. CASE SpecExtend(h, n)
  BY <1>1, <1>2, <1>3, <1>5 DEF SpecExtend
<1>6. ASSUME NEW r, r = n - LenOf(store, h), r > 0, h \in live
      PROVE  r \in Nat /\ r \in 0 .. MaxCap + 1
  <2>1. LenOf(store, h) \in Nat
    BY <1>6, LengthType DEF CInv
  <2> QED BY <1>1, <1>6, <2>1
<1>7. CASE ResizeWith(h, n)
  <2> DEFINE r == n - LenOf(store, h)
  <2>1. r > 0 /\ Begins(h, Reserve(store, h, r), Drawing("push", FALSE, r), <<>>)
    BY <1>7 DEF ResizeWith
  <2>2. r \in Nat /\ r \in 0 .. MaxCap + 1
    BY <1>6, <2>1 DEF Begins
  <2> HIDE DEF r
  <2> QED BY <1>2, <1>3, <2>1, <2>2
<1>8. CASE ResizeUp(h, n)
  <2> DEFINE r == n - LenOf(store, h)
  <2>1. PICK how \in Ways, e \in caller :
          r > 0 /\ Begins(h, Reserve(store, h, r), Repeating(how, e, r), [i \in 1 .. r |-> val[e]])
    BY <1>8 DEF ResizeUp
  <2>2. r \in Nat /\ r \in 0 .. MaxCap + 1
    BY <1>6, <2>1 DEF Begins
  <2> HIDE DEF r
  <2> DEFINE c == Repeating(how, e, r)
             want == [i \in 1 .. r |-> val[e]]
  <2>3. e \in Elems
    BY DataFacts DEF CInv
  <2>4. c \in Calls /\ c.how = how /\ c.give = "repeat" /\ c.value = e /\ c.n = r /\ c.made = 0
    BY <2>2, <2>3, RepeatingFields
  <2>5. Begins(h, Reserve(store, h, r), c, want) /\ want = [i \in 1 .. r |-> val[e]]
    BY <2>1
  <2> HIDE DEF c, want
  <2>6. \A s : WantOK(c, s, want)
    BY <2>2, <2>4, <2>5, ValueWanted
  <2> QED BY <2>2, <2>4, <2>5, <2>6, InPlaceRemembers
<1>9. ASSUME NEW how \in Ways, NEW k \in Handles, NEW at \in Slots, Slice(k, at, n),
             Begins(h, Reserve(store, h, n), Cloning(how, k, at, n), SliceValues(k, at, n))
      PROVE  Remembers'
  <2> DEFINE c == Cloning(how, k, at, n)
             want == SliceValues(k, at, n)
  <2>1. at \in 0 .. MaxCap /\ at \in Nat /\ how \in {"push", "guard", "assign"}
    BY <1>1 DEF Slots, Ways
  <2>2. /\ c \in Calls /\ c.how = how /\ c.give = "clone" /\ c.src = k /\ c.at = at /\ c.n = n
        /\ c.made = 0
    BY <1>1, <2>1, CloningFields
  <2>3. Begins(h, Reserve(store, h, n), c, want) /\ want = SliceValues(k, at, n) /\ Slice(k, at, n)
    BY <1>9
  <2>4. Idle
    BY <2>3 DEF Begins, Begin
  <2> HIDE DEF c, want
  <2>5. ASSUME NEW s, Only(store, s, h),
               \A i \in 0 .. LenOf(store, h) - 1 : Item(s, h, i) = Item(store, h, i)
        PROVE  WantOK(c, s, want)
    BY <1>1, <2>1, <2>2, <2>3, <2>4, <2>5, SliceWanted
  <2> QED BY <1>1, <2>2, <2>3, <2>5, InPlaceRemembers
<1>10. ASSUME NEW at \in Slots, ExtendFromWithin(h, at, n)
       PROVE  Remembers'
  BY <1>3, <1>9, <1>10 DEF ExtendFromWithin
<1>11. ASSUME NEW k \in Handles, NEW at \in Slots, ExtendFromSlice(h, k, at, n)
       PROVE  Remembers'
  BY <1>9, <1>11 DEF ExtendFromSlice
<1> QED BY <1>4, <1>5, <1>7, <1>8, <1>10, <1>11

(* Between two calls, and when one ends, there is nothing to remember.     *)
LEMMA IdleRemembers ==
  ASSUME Remembers, Idle, UNCHANGED cvars
  PROVE  Remembers'
<1>1. call' = call /\ past' = past /\ call.how = "none"
  BY DEF cvars, Idle
<1>2. past' \in [before : Seq(Elems), want : Seq(Elems)] /\ call'.how = "none"
  BY <1>1 DEF Remembers
<1> QED BY <1>2 DEF Remembers, Calling

LEMMA EndRemembers ==
  ASSUME EndCall
  PROVE  Remembers'
<1>1. call'.how = "none" /\ past' = NoPast
  BY NoCallFields DEF EndCall, NoCall
<1>2. past' \in [before : Seq(Elems), want : Seq(Elems)]
  BY <1>1, EmptySeq DEF NoPast
<1> QED BY <1>1, <1>2 DEF Remembers, Calling

(* The cells with n more of src between those before index and the others. *)
Inserts(cells, old, src, index, n, len, m) ==
  /\ index \in Nat /\ n \in Nat /\ len \in Nat /\ index <= len /\ m = len + n /\ m <= MaxCap
  /\ cells = Copy(src, 0, Shift(old, index, index + n, len - index), index, n)

LEMMA InsertedCells ==
  ASSUME NEW old, NEW src, NEW index, NEW n, NEW len, NEW m, NEW cells,
         Inserts(cells, old, src, index, n, len, m)
  PROVE  /\ \A j \in 0 .. index - 1 : cells[j] = old[j]
         /\ \A j \in 0 .. n - 1 : cells[index + j] = src[j]
         /\ \A j \in 0 .. len - index - 1 : cells[index + n + j] = old[index + j]
<1> DEFINE p == index + n
           t == len - index
           wiped == Wipe(old, index, t)
           open == Shift(old, index, p, t)
<1>1. /\ p \in Nat /\ t \in Nat /\ p + t = m /\ MaxCap \in Nat /\ t = len - index /\ p = index + n
      /\ index \in Nat /\ n \in Nat /\ len \in Nat /\ index <= len /\ m = len + n /\ m <= MaxCap
  BY RawAssumption DEF Inserts
<1>2. \A i \in Slots : wiped[i] = IF i \in index .. index + t - 1 THEN Uninit ELSE old[i]
  BY DEF Wipe
<1>3. open = [i \in Slots |-> IF i \in p .. p + t - 1 THEN old[i - p + index] ELSE wiped[i]]
  BY DEF Shift, Copy
<1>4. cells = [i \in Slots |-> IF i \in index .. index + n - 1 THEN src[i - index + 0] ELSE open[i]]
  BY DEF Copy, Inserts
<1> HIDE DEF p, t, wiped, open
<1>5. ASSUME NEW j \in 0 .. index - 1
      PROVE  cells[j] = old[j]
  <2>1. j \in Slots /\ j \notin index .. index + n - 1 /\ j \notin p .. p + t - 1
        /\ j \notin index .. index + t - 1
    BY <1>1 DEF Slots
  <2> QED BY <1>2, <1>3, <1>4, <2>1
<1>6. ASSUME NEW j \in 0 .. n - 1
      PROVE  cells[index + j] = src[j]
  <2> DEFINE i == index + j
  <2>1. i \in Slots /\ i \in index .. index + n - 1 /\ i - index + 0 = j
    BY <1>1 DEF Slots
  <2> HIDE DEF i
  <2>2. cells[i] = src[j]
    BY <1>4, <2>1
  <2> QED BY <2>2 DEF i
<1>7. ASSUME NEW j \in 0 .. len - index - 1
      PROVE  cells[index + n + j] = old[index + j]
  <2> DEFINE i == index + n + j
             a == index + j
  <2>1. /\ i \in Slots /\ i \notin index .. index + n - 1 /\ i \in p .. p + t - 1
        /\ i - p + index = a
    BY <1>1 DEF Slots
  <2> HIDE DEF i, a
  <2>2. cells[i] = old[a]
    BY <1>3, <1>4, <2>1
  <2> QED BY <2>2 DEF i, a
<1> QED BY <1>5, <1>6, <1>7

(* Each copy has the value that is wanted there.                           *)
LEMMA CopiedHave ==
  ASSUME NEW n \in Nat, NEW f \in Arrays(n), caller \subseteq Elems, NEW want, Len(want) = n,
         NEW g, g = CopiedValues(f, want)
  PROVE  /\ \A j \in 0 .. n - 1 : g[f[j]] = want[1 + j]
         /\ \A e \in Elems \ caller : g[e] = val[e]
<1>1. /\ \A i, j \in 0 .. n - 1 : f[i] = f[j] => i = j
      /\ Taken(f, n) \subseteq caller
  BY ArrayFacts DEF Arrays
<1>2. g = [e \in Elems |-> IF e \in Taken(f, n)
                           THEN want[1 + (CHOOSE i \in 0 .. n - 1 : f[i] = e)] ELSE val[e]]
  BY DEF CopiedValues
<1>3. ASSUME NEW j \in 0 .. n - 1
      PROVE  g[f[j]] = want[1 + j]
  <2> DEFINE e == f[j]
             i == CHOOSE x \in 0 .. n - 1 : f[x] = e
  <2>1. e \in Taken(f, n) /\ e \in Elems
    BY <1>1 DEF Taken
  <2>2. i \in 0 .. n - 1 /\ f[i] = e
    OBVIOUS
  <2>3. i = j
    BY <1>1, <2>2
  <2>4. g[e] = want[1 + i]
    BY <1>2, <2>1
  <2> HIDE DEF i
  <2> QED BY <2>3, <2>4
<1>4. ASSUME NEW e \in Elems \ caller
      PROVE  g[e] = val[e]
  BY <1>1, <1>2
<1> QED BY <1>3, <1>4

LEMMA CopiesRemember ==
  ASSUME CInv, Idle, NEW outcomes, NEW h, NEW index \in 0 .. MaxCap, NEW want \in Seq(Elems),
         CopyIn(outcomes, h, index, want), NEW n \in Nat, Len(want) = n,
         NEW d, NEW l, h \in l,
         \A s \in outcomes : /\ Data(s, caller, d, l, iters, begin, leaked, {})
                             /\ index <= LenOf(s, h) /\ Capacity(s, h) >= LenOf(s, h) + n
  PROVE  Remembers'
<1>1. PICK s \in outcomes, f \in Arrays(n) :
        /\ store' = Edited(s, h, Copy(Filled(f, n), 0,
                                      Shift(Cells(s, h), index, index + n, LenOf(s, h) - index),
                                      index, n), LenOf(s, h) + n)
        /\ val' = CopiedValues(f, want)
        /\ past' = [before |-> Values(s, h, val), want |-> want]
        /\ call' = [NoCall EXCEPT !.how = "copy", !.vec = h, !.base = index]
  BY DEF CopyIn
<1>2. /\ Data(s, caller, d, l, iters, begin, leaked, {})
      /\ index <= LenOf(s, h) /\ Capacity(s, h) >= LenOf(s, h) + n /\ val \in [Elems -> Elems]
  BY IdleOwn
<1>3. /\ caller \subseteq Elems /\ h \in Handles /\ LenOf(s, h) \in Nat /\ Capacity(s, h) \in Nat
      /\ Capacity(s, h) <= MaxCap /\ MaxCap \in Nat /\ d \subseteq Elems
      /\ index \in Nat /\ begin[h] = 0
  BY <1>2, LengthType, DataFacts, RawAssumption
<1> DEFINE len == LenOf(s, h)
           m == len + n
           old == Cells(s, h)
           src == Filled(f, n)
           open == Shift(old, index, index + n, len - index)
           cells == Copy(src, 0, open, index, n)
           q == Values(s, h, val)
           a == SubSeq(q, 1, index)
           z == SubSeq(q, index + 1, Len(q))
           p == index + n
<1>4. /\ store' = Edited(s, h, cells, m) /\ m \in 0 .. MaxCap /\ m <= MaxCap /\ m = len + n
      /\ cells = Copy(src, 0, open, index, n) /\ open = Shift(old, index, index + n, len - index)
      /\ p = index + n /\ p \in Nat /\ len \in Nat /\ index <= len /\ n <= MaxCap
  BY <1>1, <1>2, <1>3
<1>5. q \in Seq(Elems) /\ Len(q) = len /\ Reads(old, 0, 1, len, val, q)
  <2> HIDE DEF len
  <2>1. len = LenOf(s, h)
    BY DEF len
  <2> QED BY <1>2, <2>1, LiveValues
<1>6. \A j \in 0 .. len - 1 : old[j] \in Elems \ caller
  <2>1. ASSUME NEW j \in 0 .. len - 1
        PROVE  old[j] \in Elems \ caller
    <3>1. j \in Nat /\ begin[h] <= j /\ j < LenOf(s, h) /\ h \in l \cup iters
      BY <1>3
    <3>2. Item(s, h, j) \in Elems \ caller
      BY <1>2, <3>1, ItemApart
    <3> QED BY <3>2 DEF Item
  <2> QED BY <2>1
<1>7. \A j \in 0 .. n - 1 : src[j] = f[j]
  BY <1>3, <1>4, FilledType
<1>8. past' = [before |-> q, want |-> want]
  BY <1>1
<1> HIDE DEF len, m, old, src, open, cells, q, p
<1>9. Cells(store', h) = cells /\ LenOf(store', h) = m
  BY <1>2, <1>3, <1>4, EditedCells
<1>10. /\ \A j \in 0 .. index - 1 : cells[j] = old[j]
       /\ \A j \in 0 .. n - 1 : cells[index + j] = src[j]
       /\ \A j \in 0 .. len - index - 1 : cells[index + n + j] = old[index + j]
  <2>1. Inserts(cells, old, src, index, n, len, m)
    BY <1>3, <1>4 DEF Inserts
  <2> QED BY <2>1, InsertedCells
<1>11. /\ \A j \in 0 .. n - 1 : val'[f[j]] = want[1 + j]
       /\ \A e \in Elems \ caller : val'[e] = val[e]
  <2>1. /\ n \in Nat /\ f \in Arrays(n) /\ caller \subseteq Elems /\ Len(want) = n
        /\ val' = CopiedValues(f, want)
    BY <1>1, <1>3
  <2> QED BY <2>1, CopiedHave
<1>12. a \in Seq(Elems) /\ Len(a) = index /\ Reads(cells, 0, 1, index, val', a)
  <2>1. Reads(old, 0, 1, index, val, q) /\ index <= Len(q) /\ a = SubSeq(q, 1, index)
    BY <1>3, <1>4, <1>5 DEF Reads
  <2> HIDE DEF a
  <2>2. a \in Seq(Elems) /\ Len(a) = index /\ Reads(old, 0, 1, index, val, a)
    BY <1>3, <1>5, <2>1, ReadsFirst
  <2>3. ASSUME NEW i \in 1 .. index
        PROVE  val'[cells[0 + i - 1]] = a[i]
    <3> DEFINE j == 0 + i - 1
    <3>1. j \in 0 .. index - 1 /\ j \in 0 .. len - 1
      BY <1>3, <1>4
    <3>2. val[old[j]] = a[i]
      BY <2>2 DEF Reads
    <3> HIDE DEF j
    <3>3. cells[j] = old[j] /\ val'[old[j]] = val[old[j]]
      BY <1>6, <1>10, <1>11, <3>1
    <3>4. val'[cells[j]] = a[i]
      BY <3>2, <3>3
    <3> QED BY <3>4 DEF j
  <2> QED BY <2>2, <2>3 DEF Reads
<1>13. Reads(cells, index, 1, n, val', want)
  <2>1. ASSUME NEW i \in 1 .. n
        PROVE  val'[cells[index + i - 1]] = want[i]
    <3> DEFINE j == i - 1
    <3>1. j \in 0 .. n - 1 /\ index + i - 1 = index + j /\ 1 + j = i
      BY <1>3
    <3> HIDE DEF j
    <3>2. cells[index + j] = f[j] /\ val'[f[j]] = want[1 + j]
      BY <1>7, <1>10, <1>11, <3>1
    <3> QED BY <3>1, <3>2
  <2> QED BY <2>1 DEF Reads
<1>14. z \in Seq(Elems) /\ Len(z) = len - index /\ Reads(cells, p, 1, Len(z), val', z)
  <2> DEFINE o == index + 1
  <2>1. z = SubSeq(q, o, Len(q)) /\ o = index + 1 /\ index <= Len(q) /\ Reads(old, 0, 1, Len(q), val, q)
    BY <1>4, <1>5
  <2> HIDE DEF o, z
  <2>2. z \in Seq(Elems) /\ Len(z) = Len(q) - index /\ Reads(old, index, 1, Len(z), val, z)
    BY <1>3, <1>5, <2>1, ReadsRest
  <2>3. Len(z) = len - index
    BY <1>5, <2>2
  <2>4. ASSUME NEW i \in 1 .. Len(z)
        PROVE  val'[cells[p + i - 1]] = z[i]
    <3> DEFINE j == i - 1
    <3>1. /\ j \in 0 .. len - index - 1 /\ index + i - 1 = index + j /\ p + i - 1 = index + n + j
          /\ index + j \in 0 .. len - 1
      BY <1>3, <1>4, <2>3
    <3>2. val[old[index + j]] = z[i]
      BY <2>2, <3>1 DEF Reads
    <3> HIDE DEF j
    <3>3. cells[index + n + j] = old[index + j] /\ val'[old[index + j]] = val[old[index + j]]
      BY <1>6, <1>10, <1>11, <3>1
    <3> QED BY <3>1, <3>2, <3>3
  <2> QED BY <2>2, <2>3, <2>4 DEF Reads
<1> DEFINE r == a \o want
           u == r \o z
<1> HIDE DEF a, z
<1>15. r \in Seq(Elems) /\ Len(r) = p /\ Reads(cells, 0, 1, p, val', r)
  <2>1. Joins(a, want, cells, val', index, n, r, p)
    BY <1>4, <1>12, <1>13 DEF Joins
  <2> HIDE DEF r
  <2> QED BY <2>1, ReadsJoin
<1> HIDE DEF r
<1>16. u \in Seq(Elems) /\ Len(u) = m /\ Reads(cells, 0, 1, m, val', u)
  <2> DEFINE t == Len(z)
  <2>1. u = r \o z /\ t = Len(z) /\ p = Len(r) /\ r \in Seq(Elems) /\ z \in Seq(Elems)
    BY <1>14, <1>15
  <2>2. Reads(cells, 0, 1, p, val', r) /\ Reads(cells, p, 1, t, val', z)
    BY <1>14, <1>15
  <2>3. m = p + t
    BY <1>3, <1>4, <1>14
  <2> HIDE DEF u, t
  <2>4. Joins(r, z, cells, val', p, t, u, m)
    BY <2>1, <2>2, <2>3 DEF Joins
  <2> QED BY <2>4, ReadsJoin
<1>17. Values(store', h, val') = u
  <2> HIDE DEF u
  <2> QED BY <1>9, <1>16, ValuesAre
<1>18. /\ call'.how = "copy" /\ call'.vec = h /\ call'.base = index
  <2>1. NoCall \in Calls
    BY NoCallFields
  <2> QED BY <1>1, <2>1 DEF Calls
<1>19. past'.before = q /\ past'.want = want /\ past' \in [before : Seq(Elems), want : Seq(Elems)]
  BY <1>5, <1>8
<1>20. Added(call', past') = u
  BY <1>18, <1>19 DEF Added, a, z, r
<1>21. v' = h /\ ~Calling'
  BY <1>18 DEF v, Calling
<1> QED BY <1>17, <1>18, <1>19, <1>20, <1>21 DEF Remembers

LEMMA SliceSeq ==
  ASSUME CInv, Idle, NEW k, NEW at \in Nat, NEW n \in Nat, Slice(k, at, n), NEW want,
         want = SliceValues(k, at, n)
  PROVE  want \in Seq(Elems) /\ Len(want) = n
<1>1. Only(store, store, k)
  BY IdleOwn, DataFacts, OnlyItself
<1>2. k = k => \A i \in 0 .. LenOf(store, k) - 1 : Item(store, k, i) = Item(store, k, i)
  OBVIOUS
<1> QED BY <1>1, <1>2, SliceWant

LEMMA CopyCallRemembers ==
  ASSUME CInv, NEW h, NEW index \in 0 .. MaxCap, index <= LenOf(store, h), NEW k,
         NEW at \in Nat, NEW n \in Nat, CopyCall(h, index, k, at, n)
  PROVE  Remembers'
<1> DEFINE want == SliceValues(k, at, n)
           outcomes == Reserve(store, h, n)
<1>1. Idle /\ h \in live /\ Slice(k, at, n) /\ CopyIn(outcomes, h, index, want)
  BY DEF CopyCall
<1>2. Data(store, caller, dropped, live, iters, begin, leaked, {})
  BY <1>1, IdleOwn
<1>3. want \in Seq(Elems) /\ Len(want) = n
  <2>1. want = SliceValues(k, at, n)
    OBVIOUS
  <2> HIDE DEF want
  <2> QED BY <1>1, <2>1, SliceSeq
<1>4. ASSUME NEW s \in outcomes
      PROVE  /\ Data(s, caller, dropped, live, iters, begin, leaked, {})
             /\ index <= LenOf(s, h) /\ Capacity(s, h) >= LenOf(s, h) + n
  BY <1>1, <1>2, DataReserve
<1> HIDE DEF want, outcomes
<1> QED BY <1>1, <1>3, <1>4, CopiesRemember

LEMMA CopyMakesRemember ==
  ASSUME CInv, Idle, NEW h, Construct(h), h \notin iters, NEW want \in Seq(Elems),
         NEW n \in Nat, Len(want) = n, NEW outcomes, CopyIn(outcomes, h, 0, want),
         \A s \in outcomes : \/ s \in WithCapacity(store, h, n)
                             \/ s = NewInline(store, h) /\ n <= InlineSize[h]
  PROVE  Remembers'
<1> DEFINE l == live \cup {h}
<1>1. h \in SmallVecs \ live
  BY DEF Construct
<1>2. h \in Handles \ (live \cup iters) /\ h \in l /\ l = live \cup {h}
  BY <1>1 DEF SmallVecs
<1> HIDE DEF l
<1>3. ASSUME NEW s \in outcomes
      PROVE  /\ Data(s, caller, dropped, l, iters, begin, leaked, {})
             /\ 0 <= LenOf(s, h) /\ Capacity(s, h) >= LenOf(s, h) + n
  BY <1>2, <1>3, MadeRoom
<1>4. 0 \in 0 .. MaxCap
  BY RawAssumption
<1> QED BY <1>1, <1>2, <1>3, <1>4, CopiesRemember

LEMMA CloneFromCopyRemembers ==
  ASSUME CInv, NEW h, NEW k, CloneFromCopy(h, k)
  PROVE  Remembers'
<1> DEFINE empty == Edited(store, h, Blank, 0)
           n == LenOf(store, k)
           want == SliceValues(k, 0, n)
           outcomes == Reserve(empty, h, n)
           D == dropped \cup Owned(store, h)
<1>1. Idle /\ h \in live /\ k \in live /\ CopyIn(outcomes, h, 0, want)
  BY DEF CloneFromCopy
<1>2. Data(store, caller, dropped, live, iters, begin, leaked, {})
  BY <1>1, IdleOwn
<1>3. n \in Nat /\ begin[k] = 0
  BY <1>1, <1>2, LengthType
<1>4. want \in Seq(Elems) /\ Len(want) = n
  <2>1. want = SliceValues(k, 0, n) /\ Slice(k, 0, n) /\ 0 \in Nat
    BY <1>1, <1>3 DEF Slice
  <2> HIDE DEF want
  <2> QED BY <1>1, <1>3, <2>1, SliceSeq
<1>5. Data(empty, caller, D, live, iters, begin, leaked, {}) /\ LenOf(empty, h) = 0
  <2>1. empty = Edited(store, h, Blank, 0) /\ D = dropped \cup Owned(store, h)
    OBVIOUS
  <2> HIDE DEF empty, D
  <2> QED BY <1>1, <1>2, <2>1, DataCleared
<1> HIDE DEF empty, D
<1>6. ASSUME NEW s \in outcomes
      PROVE  /\ Data(s, caller, D, live, iters, begin, leaked, {})
             /\ 0 <= LenOf(s, h) /\ Capacity(s, h) >= LenOf(s, h) + n
  <2>1. /\ Data(s, caller, D, live, iters, begin, leaked, {}) /\ LenOf(s, h) = 0
        /\ Capacity(s, h) >= LenOf(s, h) + n
    <3> HIDE DEF n
    <3> QED BY <1>1, <1>3, <1>5, DataReserve
  <2> QED BY <2>1
<1>7. 0 \in 0 .. MaxCap
  BY RawAssumption
<1> HIDE DEF want, outcomes, n
<1> QED BY <1>1, <1>3, <1>4, <1>6, <1>7, CopiesRemember

LEMMA FromElemCopyRemembers ==
  ASSUME CInv, NEW h, NEW n \in Sizes, FromElemCopy(h, n)
  PROVE  Remembers'
<1>1. n \in Nat
  BY RawAssumption DEF Sizes
<1>2. PICK e \in caller : CopyIn({NewInline(store, h)}, h, 0, [i \in 1 .. n |-> val[e]])
  BY DEF FromElemCopy
<1>3. Idle /\ Construct(h) /\ h \notin iters /\ n <= InlineSize[h]
  BY DEF FromElemCopy
<1> DEFINE outcomes == {NewInline(store, h)}
           want == [i \in 1 .. n |-> val[e]]
<1>4. \A s \in outcomes : s = NewInline(store, h) /\ n <= InlineSize[h]
  BY <1>3
<1>5. want \in Seq(Elems) /\ Len(want) = n
  <2>1. val \in [Elems -> Elems] /\ caller \subseteq Elems
    BY <1>3, IdleOwn, DataFacts
  <2>2. val[e] \in Elems
    BY <2>1
  <2> QED BY <1>1, <2>2
<1> HIDE DEF outcomes, want
<1>6. CopyIn(outcomes, h, 0, want)
  BY <1>2 DEF outcomes, want
<1> QED BY <1>1, <1>3, <1>4, <1>5, <1>6, CopyMakesRemember

LEMMA CopyRemembers ==
  ASSUME CInv, NEW h \in Handles, NEW k \in Handles, NEW n \in Sizes, NEW at \in Slots,
         \/ FromSliceCopy(h, k, at, n)
         \/ ExtendFromSliceCopy(h, k, at, n) \/ ExtendFromWithinCopy(h, at, n)
         \/ \E index \in 0 .. MaxCap : InsertFromSliceCopy(h, index, k, at, n)
  PROVE  Remembers'
<1>1. n \in Nat /\ at \in Nat
  BY RawAssumption DEF Sizes, Slots
<1>2. CASE FromSliceCopy(h, k, at, n)
  <2> DEFINE outcomes == WithCapacity(store, h, n)
             want == SliceValues(k, at, n)
  <2>1. Idle /\ Construct(h) /\ h \notin iters /\ Slice(k, at, n) /\ CopyIn(outcomes, h, 0, want)
    BY <1>2 DEF FromSliceCopy
  <2>2. (\A s \in outcomes : s \in WithCapacity(store, h, n)) /\ want = SliceValues(k, at, n)
    OBVIOUS
  <2> HIDE DEF outcomes, want
  <2>3. want \in Seq(Elems) /\ Len(want) = n
    BY <1>1, <2>1, <2>2, SliceSeq
  <2> QED BY <1>1, <2>1, <2>2, <2>3, CopyMakesRemember
<1>3. ASSUME NEW index \in 0 .. MaxCap, NEW j, index <= LenOf(store, h),
             CopyCall(h, index, j, at, n)
      PROVE  Remembers'
  BY <1>1, <1>3, CopyCallRemembers
<1>4. ASSUME NEW j, CopyCall(h, LenOf(store, h), j, at, n)
      PROVE  Remembers'
  <2>1. h \in live /\ Idle
    BY <1>4 DEF CopyCall
  <2>2. LenOf(store, h) \in Nat /\ LenOf(store, h) <= MaxCap
    BY <2>1, IdleOwn, LengthType
  <2> DEFINE index == LenOf(store, h)
  <2>3. index \in 0 .. MaxCap /\ index <= LenOf(store, h) /\ CopyCall(h, index, j, at, n)
    BY <1>4, <2>2, RawAssumption
  <2> HIDE DEF index
  <2> QED BY <1>3, <2>3
<1>5. CASE ExtendFromSliceCopy(h, k, at, n) \/ ExtendFromWithinCopy(h, at, n)
  BY <1>4, <1>5 DEF ExtendFromSliceCopy, ExtendFromWithinCopy
<1>6. CASE \E index \in 0 .. MaxCap : InsertFromSliceCopy(h, index, k, at, n)
  BY <1>3, <1>6 DEF InsertFromSliceCopy
<1> QED BY <1>2, <1>5, <1>6

LEMMA BulkRemembers ==
  ASSUME CInv, Remembers, Bulk
  PROVE  Remembers'
<1>1. PICK h \in Handles, k \in Handles :
        \/ ExtendFromIter(h, k) \/ ExtendFromIterPanics(h, k)
        \/ CloneFromCopy(h, k) \/ CloneFromCopyPanics(h, k) \/ ChunkMut(h)
        \/ \E n \in Sizes :
             \/ AdvanceMut(h, n) \/ FromElemCopy(h, n)
             \/ \E m \in Sizes : Put(h, n, m)
             \/ \E at \in Slots :
                  \/ ExtendFromSliceCopy(h, k, at, n) \/ ExtendFromWithinCopy(h, at, n)
                  \/ FromSliceCopy(h, k, at, n)
                  \/ \E index \in 0 .. MaxCap : InsertFromSliceCopy(h, index, k, at, n)
  BY DEF Bulk
<1>2. CASE \/ ExtendFromIter(h, k) \/ ExtendFromIterPanics(h, k)
           \/ CloneFromCopyPanics(h, k) \/ ChunkMut(h)
  <2>1. Idle /\ UNCHANGED cvars
    BY <1>2 DEF ExtendFromIter, ExtendFromIterPanics, CloneFromCopyPanics, ChunkMut, cvars
  <2> QED BY <2>1, IdleRemembers
<1>3. CASE CloneFromCopy(h, k)
  BY <1>3, CloneFromCopyRemembers
<1>4. ASSUME NEW n \in Sizes, AdvanceMut(h, n) \/ \E m \in Sizes : Put(h, n, m)
      PROVE  Remembers'
  <2>1. Idle /\ UNCHANGED cvars
    BY <1>4 DEF AdvanceMut, Put, cvars
  <2> QED BY <2>1, IdleRemembers
<1>5. ASSUME NEW n \in Sizes, FromElemCopy(h, n)
      PROVE  Remembers'
  BY <1>5, FromElemCopyRemembers
<1>6. ASSUME NEW n \in Sizes, NEW at \in Slots,
             \/ FromSliceCopy(h, k, at, n)
             \/ ExtendFromSliceCopy(h, k, at, n) \/ ExtendFromWithinCopy(h, at, n)
             \/ \E index \in 0 .. MaxCap : InsertFromSliceCopy(h, index, k, at, n)
      PROVE  Remembers'
  BY <1>6, CopyRemembers
<1> QED BY <1>1, <1>2, <1>3, <1>4, <1>5, <1>6

LEMMA StartRemembers ==
  ASSUME CInv, Remembers, Start
  PROVE  Remembers'
<1>1. PICK h \in Handles, n \in Sizes :
        \/ \E k \in Handles, at \in Slots : FromSlice(h, k, at, n)
        \/ FromElem(h, n) \/ Extend(h, n) \/ SpecExtend(h, n) \/ FromIter(h, n)
        \/ SpecFromIter(h, n) \/ VisitSeq(h, n) \/ ResizeUp(h, n) \/ ResizeDown(h, n)
        \/ ResizeWith(h, n) \/ ArgumentDropped(h, n)
        \/ \E at \in Slots : ExtendFromWithin(h, at, n)
        \/ \E k \in Handles, at \in Slots : ExtendFromSlice(h, k, at, n)
        \/ \E k \in Handles : CloneFrom(h, k)
  BY DEF Start
<1>2. CASE \/ FromElem(h, n) \/ FromIter(h, n) \/ SpecFromIter(h, n) \/ VisitSeq(h, n)
           \/ \E k \in Handles, at \in Slots : FromSlice(h, k, at, n)
  BY <1>2, MakesRemember
<1>3. CASE \/ Extend(h, n) \/ SpecExtend(h, n) \/ ResizeUp(h, n) \/ ResizeWith(h, n)
           \/ \E at \in Slots : ExtendFromWithin(h, at, n)
           \/ \E k \in Handles, at \in Slots : ExtendFromSlice(h, k, at, n)
  BY <1>3, ExtendsRemember
<1>4. CASE ResizeDown(h, n) \/ ArgumentDropped(h, n)
  <2>1. Idle /\ UNCHANGED cvars
    BY <1>4 DEF ResizeDown, ArgumentDropped, cvars
  <2> QED BY <2>1, IdleRemembers
<1>5. CASE \E k \in Handles : CloneFrom(h, k)
  BY <1>5, CloneFromRemembers
<1> QED BY <1>1, <1>2, <1>3, <1>4, <1>5

LEMMA StepRemembers ==
  ASSUME CInv, Remembers, CloneStep
  PROVE  Remembers'
<1>1. CASE AssignTailPanics \/ PushEnds \/ GuardEnds \/ UserPanics \/ PushOverflows
  <2>1. EndCall
    BY <1>1 DEF AssignTailPanics, PushEnds, GuardEnds, UserPanics, PushOverflows, Unwinds
  <2> QED BY <2>1, EndRemembers
<1> QED BY <1>1, PushRemembers, GuardRemembers, AssignRemembers, TailRemembers DEF CloneStep

LEMMA RemembersStays ==
  ASSUME CInv, Remembers, [CloneNext]_allVars
  PROVE  Remembers'
<1>1. CASE Program
  <2>1. Idle /\ UNCHANGED cvars
    BY <1>1 DEF Program
  <2> QED BY <2>1, IdleRemembers
<1>2. CASE Start \/ Bulk
  BY <1>2, StartRemembers, BulkRemembers
<1>3. CASE CloneStep
  BY <1>3, StepRemembers
<1>4. CASE CopyEnds
  BY <1>4, EndRemembers DEF CopyEnds
<1>5. CASE UNCHANGED allVars
  <2>1. call' = call /\ past' = past /\ val' = val /\ store' = store
    BY <1>5 DEF allVars, vars, cvars
  <2>2. v' = v /\ (Calling' <=> Calling)
    BY <2>1 DEF v, Calling
  <2> QED BY <2>1, <2>2 DEF Remembers
<1> QED BY <1>1, <1>2, <1>3, <1>4, <1>5 DEF CloneNext

LEMMA ClonesRemember == CloneSpec => []HInv
<1>1. CloneInit => Remembers
  <2> SUFFICES ASSUME CloneInit PROVE Remembers
    OBVIOUS
  <2>1. call.how = "none" /\ past = NoPast
    BY NoCallFields DEF CloneInit
  <2>2. past \in [before : Seq(Elems), want : Seq(Elems)]
    BY <2>1, EmptySeq DEF NoPast
  <2> QED BY <2>1, <2>2 DEF Remembers, Calling
<1>2. CInv /\ Remembers /\ [CloneNext]_allVars => Remembers'
  BY RemembersStays
<1>3. CInv /\ Remembers => HInv
  BY DEF HInv
<1> QED BY <1>1, <1>2, <1>3, CloneInvariant, PTL DEF CloneSpec

----------------------------------------------------------------------------
(* What a call that ends leaves.                                           *)

(* No more was made than was due.                                          *)
LEMMA MadeDue ==
  ASSUME CInv, Remembers, Calling
  PROVE  /\ call.made \in Nat /\ Len(past.want) \in Nat /\ call.made <= Len(past.want)
         /\ past.want \in Seq(Elems) /\ past.before \in Seq(Elems)
         /\ call.give # "item" => call.n <= Len(past.want)
         /\ call.give # "item" /\ call.how # "assign" => Len(past.want) = call.n
<1>1. /\ DueOK(call, store, val, past) /\ TargetOK(call, store, live, Apart)
      /\ SourceOK(call, store, caller, live \cup iters, begin)
      /\ past.want \in Seq(Elems) /\ past.before \in Seq(Elems) /\ Len(past.want) \in Nat
  BY LenProperties DEF CInv, Remembers
<1>2. CASE call.give = "item"
  BY <1>1, <1>2, CallTypes DEF DueOK
<1>3. CASE call.give = "repeat"
  <2>1. Len(past.want) = call.n /\ ~call.open
    BY <1>1, <1>3 DEF DueOK, SourceOK
  <2>2. call.made <= call.n
    BY <1>1, <2>1 DEF TargetOK, Calling
  <2> QED BY <1>1, <1>3, <2>1, <2>2, CallTypes
<1>4. CASE call.give = "clone"
  <2>1. call.n <= Len(past.want) /\ ~call.open
    BY <1>4, SourceReads
  <2>2. call.made <= call.n
    BY <1>1, <2>1 DEF TargetOK, Calling
  <2>3. call.how # "assign" => Len(past.want) = call.n
    BY <1>1, <1>4 DEF DueOK
  <2> QED BY <1>1, <1>4, <2>1, <2>2, <2>3, CallTypes
<1> QED BY <1>2, <1>3, <1>4, CallTypes

(* w goes behind p.                                                        *)
LEMMA JoinedValues ==
  ASSUME NEW p, NEW w, NEW f, NEW b, NEW n, NEW r, NEW k, NEW s, NEW h, LenOf(s, h) = k,
         Joins(p, w, Cells(s, h), f, b, n, r, k)
  PROVE  Values(s, h, f) = r
<1> DEFINE cells == Cells(s, h)
<1>1. r \in Seq(Elems) /\ Len(r) = k /\ Reads(cells, 0, 1, k, f, r)
  <2>1. Joins(p, w, cells, f, b, n, r, k)
    OBVIOUS
  <2> HIDE DEF cells
  <2> QED BY <2>1, ReadsJoin
<1> QED BY <1>1, ValuesAre

LEMMA AddedBehind ==
  ASSUME NEW p \in Seq(Elems), NEW w \in Seq(Elems), NEW s, NEW h, NEW f, NEW b \in Nat, b = Len(p),
         NEW n \in Nat, n = Len(w), LenOf(s, h) = b + n,
         Reads(Cells(s, h), 0, 1, b, f, p), Reads(Cells(s, h), b, 1, n, f, w)
  PROVE  Values(s, h, f) = p \o w
<1> DEFINE r == p \o w
           k == b + n
           cells == Cells(s, h)
<1>1. Joins(p, w, cells, f, b, n, r, k)
  BY DEF Joins
<1>2. LenOf(s, h) = k
  OBVIOUS
<1> HIDE DEF r, k
<1>3. r \in Seq(Elems) /\ Len(r) = k /\ Reads(cells, 0, 1, k, f, r)
  BY <1>1, ReadsJoin
<1>4. Values(s, h, f) = r
  BY <1>2, <1>3, ValuesAre
<1> QED BY <1>4 DEF r

LEMMA NothingBehind ==
  ASSUME NEW p \in Seq(Elems), NEW w \in Seq(Elems), NEW b, b = Len(p)
  PROVE  SubSeq(p, 1, b) \o w \o SubSeq(p, b + 1, Len(p)) = p \o w
<1> DEFINE c == b + 1
           z == SubSeq(p, c, b)
<1>1. b \in Nat /\ c \in Nat
  BY LenProperties
<1>2. SubSeq(p, 1, b) = p
  BY SubSeqFull
<1>3. z = <<>>
  BY <1>1
<1>4. (p \o w) \o z = p \o w
  <2> DEFINE r == p \o w
  <2>1. r \in Seq(Elems)
    BY ConcatProperties
  <2> HIDE DEF r, z
  <2>2. r \o z = r
    BY <1>3, <2>1, ConcatEmptySeq
  <2> QED BY <2>2 DEF r
<1> QED BY <1>2, <1>4

(* The cells below the length of the running call, at its end.             *)
LEMMA EndsWithAll ==
  ASSUME CInv, Remembers, Calling, call.how # "assign", Len(past.want) = call.made,
         Cells(store', v) = Cells(store, v), LenOf(store', v) = call.base + call.made
  PROVE  Values(store', v, val) = Added(call, past)
<1> DEFINE b == call.base
           n == call.made
           p == past.before
           w == past.want
<1>1. /\ Len(p) = b /\ Reads(Cells(store, v), 0, 1, b, val, p)
      /\ Reads(Cells(store, v), b, 1, n, val, w)
  BY DEF Remembers, KeptOK
<1>2. /\ p \in Seq(Elems) /\ w \in Seq(Elems) /\ b \in Nat /\ n \in Nat /\ n = Len(w) /\ b = Len(p)
      /\ LenOf(store', v) = b + n
      /\ Reads(Cells(store', v), 0, 1, b, val, p) /\ Reads(Cells(store', v), b, 1, n, val, w)
  BY <1>1, MadeDue, CallTypes
<1>3. Added(call, past) = SubSeq(p, 1, b) \o w \o SubSeq(p, b + 1, Len(p))
  BY DEF Added
<1> HIDE DEF b, n, p, w
<1>4. Values(store', v, val) = p \o w
  BY <1>2, AddedBehind
<1>5. SubSeq(p, 1, b) \o w \o SubSeq(p, b + 1, Len(p)) = p \o w
  BY <1>2, NothingBehind
<1> QED BY <1>3, <1>4, <1>5

LEMMA PushEndsWithAll ==
  ASSUME CInv, Remembers, PushEnds
  PROVE  Values(store', v, val) = Added(call, past)
<1>1. call.how = "push" /\ Calling /\ v = call.vec /\ store' = store
  BY DEF PushEnds, Calling, vars, v
<1>2. LenOf(store, v) = call.base + call.made
  BY <1>1 DEF CInv, TargetOK
<1>3. Len(past.want) = call.made
  <2>1. CASE call.give = "item"
    BY <1>1, <2>1 DEF Remembers, DueOK
  <2>2. CASE call.give # "item"
    <3>1. Len(past.want) = call.n
      BY <1>1, <2>2, MadeDue
    <3>2. call.made = call.n
      <4>1. ~call.open
        BY <1>1, <2>2, CallTypes DEF CInv, SourceOK
      <4> QED BY <4>1 DEF PushEnds
    <3> QED BY <3>1, <3>2
  <2> QED BY <2>1, <2>2
<1>4. LenOf(store', v) = call.base + call.made /\ Cells(store', v) = Cells(store, v)
  BY <1>1, <1>2
<1> QED BY <1>1, <1>3, <1>4, EndsWithAll

LEMMA GuardEndsWithAll ==
  ASSUME CInv, Remembers, GuardEnds
  PROVE  Values(store', v, val) = Added(call, past)
<1>1. call.how = "guard" /\ ~Due /\ Calling /\ v = call.vec
  BY DEF GuardEnds, Calling, v
<1>2. /\ Data(store, caller, dropped, live, iters, begin, leaked, Apart)
      /\ TargetOK(call, store, live, Apart)
  BY <1>1 DEF CInv
<1>3. v \in live /\ call.made = call.n /\ call.base + call.n <= Capacity(store, v)
  <2>1. v \in live /\ call.made <= call.n /\ call.base + call.n <= Capacity(store, v)
    BY <1>1, <1>2 DEF TargetOK
  <2> QED BY <1>1, <2>1, CallTypes DEF Due
<1> DEFINE m == call.base + call.n
           cells == Cells(store, v)
<1>4. m \in 0 .. MaxCap /\ v \in Handles /\ MaxCap \in Nat
  <2>1. v \in Handles /\ Capacity(store, v) \in Nat /\ Capacity(store, v) <= MaxCap
    BY <1>2, <1>3, LengthType
  <2> QED BY <1>3, <2>1, CallTypes, RawAssumption
<1>5. store' = Edited(store, v, cells, m)
  <2>1. AsPtr(store, v) \in Handles \cup Ptrs /\ store \in Storage
    BY <1>2, <1>4, AddressType, DataFacts
  <2>2. store' = SetLen(store, v, m)
    BY DEF GuardEnds
  <2> QED BY <1>4, <2>1, <2>2, SetLenRewrites
<1>6. Cells(store', v) = cells /\ LenOf(store', v) = m
  <2> HIDE DEF m, cells
  <2> QED BY <1>2, <1>4, <1>5, EditedCells
<1>7. Len(past.want) = call.made
  <2>1. CASE call.give = "item"
    BY <1>1, <2>1 DEF Remembers, DueOK
  <2>2. CASE call.give # "item"
    BY <1>1, <1>3, <2>2, MadeDue
  <2> QED BY <2>1, <2>2
<1> QED BY <1>1, <1>3, <1>6, <1>7, EndsWithAll

(* A call that returns has added what it was asked for, where it was asked *)
(* to, and the items it found are where they were: so whatever the slices, *)
(* the iterators and the capacities are.                                   *)
THEOREM ReturnsWithAll == CloneSpec => CallAddsWhatIsDue
<1>1. HInv /\ [CloneNext]_allVars
        => [PushEnds \/ GuardEnds \/ CopyEnds =>
              Values(store', v, val) =
                SubSeq(past.before, 1, call.base) \o past.want
                  \o SubSeq(past.before, call.base + 1, Len(past.before))]_allVars
  <2> SUFFICES ASSUME CInv, Remembers, PushEnds \/ GuardEnds \/ CopyEnds
               PROVE  Values(store', v, val) = Added(call, past)
    BY DEF HInv, Added
  <2>1. CASE CopyEnds
    <3>1. call.how = "copy" /\ store' = store
      BY <2>1 DEF CopyEnds, vars
    <3> QED BY <3>1 DEF Remembers
  <2> QED BY <2>1, PushEndsWithAll, GuardEndsWithAll
<1> QED BY <1>1, ClonesRemember, PTL DEF CloneSpec, CallAddsWhatIsDue

(* The unwinding empties the cells the guard guards, and no other.         *)
LEMMA UnwindsLeave ==
  ASSUME CInv, Calling, ~call.fresh, NEW F, Unwinds(F)
  PROVE  /\ LenOf(store', v) = LenOf(store, v)
         /\ \A j \in 0 .. LenOf(store, v) - 1 : Cells(store', v)[j] = Cells(store, v)[j]
<1> DEFINE src == Cells(store, v)
           n == LenOf(store, v)
           cells == [i \in Slots |-> IF i \in Guarded THEN Uninit ELSE src[i]]
<1>1. store' = [store EXCEPT !.mem[AsPtr(store, v)] = cells]
  BY DEF Unwinds, Cells
<1>2. /\ call.how \in {"push", "guard", "assign"} /\ v = call.vec
      /\ Data(store, caller, dropped, live, iters, begin, leaked, Apart)
      /\ TargetOK(call, store, live, Apart)
  BY DEF Calling, v, CInv
<1>3. v \in live
  BY <1>2 DEF TargetOK
<1>4. /\ v \in Handles /\ n \in 0 .. MaxCap /\ n \in Nat /\ n <= MaxCap /\ MaxCap \in Nat
      /\ store \in Storage
  BY <1>2, <1>3, LengthType, DataFacts, RawAssumption
<1>5. \A i \in Guarded : i \in Int /\ i >= n
  <2>1. CASE call.how = "guard"
    <3>1. n = call.base
      BY <1>2, <2>1 DEF TargetOK
    <3>2. Guarded = call.base .. call.base + call.made - 1
      BY <2>1 DEF Guarded
    <3> QED BY <3>1, <3>2, CallTypes
  <2>2. CASE call.how # "guard"
    BY <2>2 DEF Guarded
  <2> QED BY <2>1, <2>2
<1>6. \A j \in 0 .. n - 1 : cells[j] = src[j]
  <2>1. \A j \in 0 .. n - 1 : j \in Slots /\ j \notin Guarded
    BY <1>4, <1>5 DEF Slots
  <2> QED BY <2>1
<1> HIDE DEF cells, src
<1>7. store' = Edited(store, v, cells, n)
  BY <1>1, <1>4, CellsRewrite
<1> HIDE DEF n
<1>8. Cells(store', v) = cells /\ LenOf(store', v) = n
  BY <1>2, <1>4, <1>7, EditedCells
<1> QED BY <1>6, <1>8 DEF n, src

(* What is made of w, behind p.                                            *)
LEMMA MadeBehind ==
  ASSUME NEW p \in Seq(Elems), NEW w \in Seq(Elems), NEW s, NEW h, NEW f, NEW b \in Nat, b = Len(p),
         NEW n \in Nat, n <= Len(w), LenOf(s, h) = b + n,
         Reads(Cells(s, h), 0, 1, b, f, p), Reads(Cells(s, h), b, 1, n, f, w)
  PROVE  Values(s, h, f) = p \o SubSeq(w, 1, n)
<1> DEFINE r == SubSeq(w, 1, n)
<1>1. \A i \in 1 .. n : w[i] \in Elems
  BY ElementOfSeq
<1>2. /\ r \in Seq(Elems) /\ Len(r) = (IF 1 <= n THEN n - 1 + 1 ELSE 0)
      /\ \A i \in 1 .. n - 1 + 1 : r[i] = w[1 + i - 1]
  BY <1>1, SubSeqProperties
<1>3. Len(r) = n /\ \A i \in 1 .. n : r[i] = w[i]
  BY <1>2
<1> HIDE DEF r
<1>4. Reads(Cells(s, h), b, 1, n, f, r)
  BY <1>3 DEF Reads
<1>5. Values(s, h, f) = p \o r
  <2> DEFINE z == p \o r
             k == b + n
  <2>1. Joins(p, r, Cells(s, h), f, b, n, z, k) /\ LenOf(s, h) = k
    BY <1>2, <1>3, <1>4 DEF Joins
  <2> HIDE DEF z, k
  <2>2. Values(s, h, f) = z
    BY <2>1, JoinedValues
  <2> QED BY <2>2 DEF z
<1> QED BY <1>5 DEF r

(* The cells of h have w up to n, and p from there on.                     *)
Mixed(p, w, s, h, f, m, n, r) ==
  /\ p \in Seq(Elems) /\ w \in Seq(Elems) /\ m = Len(p) /\ n \in Nat /\ n <= Len(w) /\ n <= m
  /\ LenOf(s, h) = m /\ Reads(Cells(s, h), 0, 1, n, f, w) /\ Reads(Cells(s, h), 0, n + 1, m, f, p)
  /\ r = SubSeq(w, 1, n) \o SubSeq(p, n + 1, Len(p))

(* What is left of p, behind what is made of w.                            *)
LEMMA MadeBefore ==
  ASSUME NEW p, NEW w, NEW s, NEW h, NEW f, NEW m, NEW n, NEW r,
         Mixed(p, w, s, h, f, m, n, r)
  PROVE  Values(s, h, f) = r
<1> DEFINE a == SubSeq(w, 1, n)
           o == n + 1
           z == SubSeq(p, o, m)
           k == m - n
           zero == 0
           cells == Cells(s, h)
<1>1. /\ p \in Seq(Elems) /\ w \in Seq(Elems) /\ m = Len(p) /\ m \in Nat /\ n \in Nat
      /\ n <= Len(w) /\ n <= m /\ LenOf(s, h) = m
      /\ Reads(cells, 0, 1, n, f, w) /\ Reads(cells, zero, o, m, f, p)
      /\ r = a \o z
  BY LenProperties DEF Mixed
<1>2. a \in Seq(Elems) /\ Len(a) = n /\ Reads(cells, 0, 1, n, f, a)
  <2>1. a = SubSeq(w, 1, n)
    OBVIOUS
  <2> HIDE DEF a, cells
  <2> QED BY <1>1, <2>1, ReadsFirst
<1>3. z \in Seq(Elems) /\ Len(z) = k /\ Reads(cells, n, 1, k, f, z)
  <2>1. Part(p, o, m, cells, zero, f, n, z, k)
    BY <1>1 DEF Part
  <2> HIDE DEF o, z, k, zero, cells
  <2> QED BY <2>1, ReadsPart
<1>4. Joins(a, z, cells, f, n, k, r, m)
  <2>1. m = n + k /\ r = a \o z
    BY <1>1
  <2> HIDE DEF a, z, k, cells
  <2> QED BY <1>2, <1>3, <2>1 DEF Joins
<1>5. Values(s, h, f) = r
  <2> HIDE DEF a, z, k
  <2> QED BY <1>1, <1>4, JoinedValues
<1> QED BY <1>5

(* What a panic leaves of the values.                                      *)
LeftOver ==
  CASE call.how = "push"   -> past.before \o SubSeq(past.want, 1, call.made)
    [] call.how = "guard"  -> past.before
    [] call.how = "assign" ->
         SubSeq(past.want, 1, call.made)
           \o SubSeq(past.before, call.made + 1, Len(past.before))

LEMMA LeavesValues ==
  ASSUME CInv, Remembers, Calling, LenOf(store', v) = LenOf(store, v),
         \A j \in 0 .. LenOf(store, v) - 1 : Cells(store', v)[j] = Cells(store, v)[j]
  PROVE  Values(store', v, val) = LeftOver
<1> DEFINE b == call.base
           n == call.made
           m == LenOf(store, v)
           p == past.before
           w == past.want
           old == Cells(store, v)
           cells == Cells(store', v)
<1>1. /\ p \in Seq(Elems) /\ w \in Seq(Elems) /\ b \in Nat /\ n \in Nat /\ n <= Len(w)
      /\ Len(p) \in Nat
  BY MadeDue, CallTypes, LenProperties
<1>2. /\ KeptOK(call, old, val, past) /\ TargetOK(call, store, live, Apart)
      /\ call.how \in {"push", "guard", "assign"} /\ v = call.vec
  BY DEF CInv, Remembers, Calling, v
<1>3. LenOf(store', v) = m
  OBVIOUS
<1>4. ASSUME NEW a \in Nat, NEW lo \in Nat, NEW hi \in Nat, NEW q, lo >= 1, a + hi <= m,
             Reads(old, a, lo, hi, val, q)
      PROVE  Reads(cells, a, lo, hi, val, q)
  <2>1. ASSUME NEW i \in lo .. hi
        PROVE  val[cells[a + i - 1]] = q[i]
    <3> DEFINE j == a + i - 1
    <3>1. j \in 0 .. m - 1
      <4>1. m \in Nat
        BY MadeApart
      <4> QED BY <1>4, <4>1
    <3>2. val[old[a + i - 1]] = q[i]
      BY <1>4 DEF Reads
    <3> HIDE DEF j
    <3>3. cells[j] = old[j]
      BY <3>1
    <3> QED BY <3>2, <3>3 DEF j
  <2> QED BY <2>1 DEF Reads
<1>5. m \in Nat
  BY MadeApart
<1>6. CASE call.how = "push"
  <2>1. m = b + n /\ Len(p) = b /\ Reads(old, 0, 1, b, val, p) /\ Reads(old, b, 1, n, val, w)
    BY <1>2, <1>6 DEF KeptOK, TargetOK
  <2>2. Reads(cells, 0, 1, b, val, p) /\ Reads(cells, b, 1, n, val, w)
    <3> DEFINE one == 1
               zero == 0
    <3>1. /\ one \in Nat /\ zero \in Nat /\ one >= 1 /\ zero + b <= m /\ b + n <= m
          /\ Reads(old, zero, one, b, val, p) /\ Reads(old, b, one, n, val, w)
      BY <1>1, <2>1
    <3> HIDE DEF one, zero, b, n, m, old, cells, p, w
    <3>2. Reads(cells, zero, one, b, val, p) /\ Reads(cells, b, one, n, val, w)
      BY <1>1, <1>4, <3>1
    <3> QED BY <3>2 DEF one, zero
  <2> HIDE DEF b, n, m, p, w, old
  <2>3. Values(store', v, val) = p \o SubSeq(w, 1, n)
    BY <1>1, <1>3, <2>1, <2>2, MadeBehind
  <2> QED BY <1>6, <2>3 DEF LeftOver, p, w, n
<1>7. CASE call.how = "guard"
  <2>1. m = b /\ Len(p) = b /\ Reads(old, 0, 1, b, val, p)
    BY <1>2, <1>7 DEF KeptOK, TargetOK
  <2>2. Reads(cells, 0, 1, b, val, p)
    <3> DEFINE one == 1
               zero == 0
    <3>1. /\ one \in Nat /\ zero \in Nat /\ one >= 1 /\ zero + b <= m
          /\ Reads(old, zero, one, b, val, p)
      BY <1>1, <2>1
    <3> HIDE DEF one, zero, b, n, m, old, cells, p, w
    <3>2. Reads(cells, zero, one, b, val, p)
      BY <1>1, <1>4, <3>1
    <3> QED BY <3>2 DEF one, zero
  <2> HIDE DEF b, m, p, w, old
  <2>3. Values(store', v, val) = p
    BY <1>1, <1>3, <2>1, <2>2, ValuesAre
  <2> QED BY <1>7, <2>3 DEF LeftOver, p
<1>8. CASE call.how = "assign"
  <2>1. /\ m = call.n /\ n <= m /\ b = 0 /\ Len(p) = m /\ Reads(old, 0, n + 1, m, val, p)
        /\ Reads(old, 0, 1, n, val, w)
    BY <1>2, <1>8 DEF KeptOK, TargetOK
  <2>2. Reads(cells, 0, 1, n, val, w) /\ Reads(cells, 0, n + 1, m, val, p)
    <3> DEFINE one == 1
               zero == 0
               o == n + 1
    <3>1. /\ one \in Nat /\ zero \in Nat /\ one >= 1 /\ zero + n <= m /\ zero + m <= m
          /\ o \in Nat /\ o >= 1
          /\ Reads(old, zero, one, n, val, w) /\ Reads(old, zero, o, m, val, p)
      BY <1>1, <1>5, <2>1
    <3> HIDE DEF one, zero, o, b, n, m, old, cells, p, w
    <3>2. Reads(cells, zero, one, n, val, w) /\ Reads(cells, zero, o, m, val, p)
      BY <1>1, <1>4, <1>5, <3>1
    <3> QED BY <3>2 DEF one, zero, o
  <2> HIDE DEF b, n, m, p, w, old
  <2>3. Values(store', v, val) = SubSeq(w, 1, n) \o SubSeq(p, n + 1, Len(p))
    <3> DEFINE r == SubSeq(w, 1, n) \o SubSeq(p, n + 1, Len(p))
    <3>1. Mixed(p, w, store', v, val, m, n, r)
      BY <1>1, <1>3, <1>5, <2>1, <2>2 DEF Mixed
    <3> HIDE DEF r
    <3>2. Values(store', v, val) = r
      BY <3>1, MadeBefore
    <3> QED BY <3>2 DEF r
  <2> QED BY <1>8, <2>3 DEF LeftOver, p, w, n
<1> QED BY <1>2, <1>6, <1>7, <1>8

LEMMA PanicLeavesValues ==
  ASSUME CInv, Remembers, UserPanics \/ PushOverflows \/ AssignTailPanics, ~call.fresh
  PROVE  Values(store', v, val) = LeftOver
<1>1. CASE AssignTailPanics
  <2>1. Calling /\ store' = store
    BY <1>1 DEF AssignTailPanics, Calling, vars
  <2> QED BY <2>1, LeavesValues
<1>2. CASE UserPanics \/ PushOverflows
  <2>1. Calling /\ \E F : Unwinds(F)
    <3>1. CASE UserPanics
      <4>1. ~Idle /\ Due /\ Unwinds({})
        BY <3>1 DEF UserPanics
      <4>2. call.made < call.n \/ call.how = "push"
        BY <4>1 DEF Due
      <4> QED BY <4>1, <4>2, CallTypes DEF CInv, Calling
    <3>2. CASE PushOverflows
      BY <3>2 DEF PushOverflows, Calling
    <3> QED BY <1>2, <3>1, <3>2
  <2>2. PICK F : Unwinds(F)
    BY <2>1
  <2>3. /\ LenOf(store', v) = LenOf(store, v)
        /\ \A j \in 0 .. LenOf(store, v) - 1 : Cells(store', v)[j] = Cells(store, v)[j]
    BY <2>1, <2>2, UnwindsLeave
  <2> QED BY <2>1, <2>3, LeavesValues
<1> QED BY <1>1, <1>2

(* In a call that makes its elements one at a time, a panic of user code   *)
(* or of a growth leaves an existing vector the values it had and no half  *)
(* of a change: those already pushed or assigned stay, those a guard       *)
(* guards do not show.  The clone_from of a Copy type is no such call: it  *)
(* clears the vector first, and a growth that panics leaves it empty.      *)
THEOREM PanicsLeaveValues == CloneSpec => PanicKeepsOldValues
<1>1. HInv /\ [CloneNext]_allVars
        => [(UserPanics \/ PushOverflows \/ AssignTailPanics) /\ ~call.fresh =>
              Values(store', v, val) =
                CASE call.how = "push"   -> past.before \o SubSeq(past.want, 1, call.made)
                  [] call.how = "guard"  -> past.before
                  [] call.how = "assign" ->
                       SubSeq(past.want, 1, call.made)
                         \o SubSeq(past.before, call.made + 1, Len(past.before))]_allVars
  <2> SUFFICES ASSUME CInv, Remembers, UserPanics \/ PushOverflows \/ AssignTailPanics, ~call.fresh
               PROVE  Values(store', v, val) = LeftOver
    BY DEF HInv, LeftOver
  <2> QED BY PanicLeavesValues
<1> QED BY <1>1, ClonesRemember, PTL DEF CloneSpec, PanicKeepsOldValues
=============================================================================
