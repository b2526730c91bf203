-------------------------- MODULE OwnershipProofs --------------------------
(***************************************************************************)
(* Every element is in exactly one place.  The inductive invariant speaks  *)
(* of all handles, the dead ones included, which hold nothing; so a step   *)
(* is accounted for on the one or two handles it touches, and the others   *)
(* are known to keep what they hold.                                       *)
(***************************************************************************)
EXTENDS BufferProofs, UserCode, SequenceTheorems

Distinct(s, h) ==
  \A i, j \in 0 .. LenOf(s, h) - 1 : Item(s, h, i) = Item(s, h, j) => i = j

(* Of the elements in E, c is held by the program, d is dropped and the    *)
(* rest is in the vectors, which hold no others.                           *)
Own(s, c, d, E) ==
  /\ \A h \in Handles : Distinct(s, h)
  /\ \A h, k \in Handles : h # k => Owned(s, h) \cap Owned(s, k) = {}
  /\ \A h \in Handles : Owned(s, h) \cap (c \cup d) = {}
  /\ c \cap d = {}
  /\ c \cup d \subseteq E /\ \A h \in Handles : Owned(s, h) \subseteq E
  /\ \A e \in E : e \in c \/ e \in d \/ \E h \in Handles : e \in Owned(s, h)

DeadEmpty(s, l) == \A h \in Handles \ l : LenOf(s, h) = 0

OInv(E) == IInv /\ Own(store, caller, dropped, E) /\ DeadEmpty(store, live)

OwnAfter(E) == Own(store', caller', dropped', E) /\ DeadEmpty(store', live')

----------------------------------------------------------------------------
(* Accounting.                                                             *)

(* Equal items are equal holdings.                                         *)
LEMMA SameOwned ==
  ASSUME NEW s, NEW g, NEW h, NEW k, SameItems(s, h, g, k)
  PROVE  Owned(g, k) = Owned(s, h) /\ (Distinct(s, h) => Distinct(g, k))
  BY DEF SameItems, Owned, Distinct

(* An empty vector holds nothing.                                          *)
LEMMA EmptyOwns ==
  ASSUME NEW s, NEW h, LenOf(s, h) = 0
  PROVE  Owned(s, h) = {} /\ Distinct(s, h)
  BY DEF Owned, Distinct

(* One vector exchanges elements with the program and the dropped ones.    *)
Exchange(s, c, d, g, c2, d2, h) ==
  /\ \A k \in Handles \ {h} : SameItems(s, k, g, k)
  /\ Distinct(g, h)
  /\ Owned(g, h) \cap (c2 \cup d2) = {} /\ c2 \cap d2 = {}
  /\ Owned(g, h) \cup c2 \cup d2 = Owned(s, h) \cup c \cup d

LEMMA MoveOne ==
  ASSUME NEW E, NEW s, NEW c, NEW d, NEW l, Own(s, c, d, E), DeadEmpty(s, l),
         NEW g, NEW c2, NEW d2, NEW m, NEW h \in Handles, Exchange(s, c, d, g, c2, d2, h),
         l \subseteq m \cup {h}, h \in m \/ LenOf(g, h) = 0
  PROVE  Own(g, c2, d2, E) /\ DeadEmpty(g, m)
<1> USE DEF Exchange
<1>1. \A k \in Handles \ {h} :
         Owned(g, k) = Owned(s, k) /\ Distinct(g, k) /\ LenOf(g, k) = LenOf(s, k)
  <2> SUFFICES ASSUME NEW k \in Handles \ {h}
               PROVE  Owned(g, k) = Owned(s, k) /\ Distinct(g, k) /\ LenOf(g, k) = LenOf(s, k)
    OBVIOUS
  <2>1. SameItems(s, k, g, k) /\ Distinct(s, k)
    BY DEF Own
  <2>2. Owned(g, k) = Owned(s, k) /\ Distinct(g, k)
    BY <2>1, SameOwned
  <2> QED BY <2>1, <2>2 DEF SameItems
<1>2. DeadEmpty(g, m)
  BY <1>1 DEF DeadEmpty
<1>3. \A k \in Handles : Distinct(g, k)
  BY <1>1
<1>4. \A a, k \in Handles : a # k => Owned(g, a) \cap Owned(g, k) = {}
  <2>1. \A k \in Handles \ {h} : Owned(g, k) \cap Owned(g, h) = {}
    BY <1>1 DEF Own
  <2> QED BY <1>1, <2>1 DEF Own
<1>5. \A k \in Handles : Owned(g, k) \cap (c2 \cup d2) = {}
  BY <1>1 DEF Own
<1>6. ASSUME NEW e \in E
      PROVE  e \in c2 \/ e \in d2 \/ \E k \in Handles : e \in Owned(g, k)
  <2>1. CASE e \in Owned(s, h) \cup c \cup d
    BY <2>1
  <2>2. CASE e \notin Owned(s, h) \cup c \cup d
    <3>1. PICK k \in Handles \ {h} : e \in Owned(s, k)
      BY <2>2 DEF Own
    <3> QED BY <1>1, <3>1
  <2> QED BY <2>1, <2>2
<1>7. c2 \cup d2 \subseteq E /\ \A k \in Handles : Owned(g, k) \subseteq E
  <2>1. Owned(g, h) \cup c2 \cup d2 \subseteq E
    BY DEF Own
  <2> QED BY <1>1, <2>1 DEF Own
<1> QED BY <1>2, <1>3, <1>4, <1>5, <1>6, <1>7 DEF Own

(* Two vectors exchange elements.                                          *)
LEMMA MoveTwo ==
  ASSUME NEW E, NEW s, NEW c, NEW d, NEW l, Own(s, c, d, E), DeadEmpty(s, l),
         NEW g, NEW m, NEW h \in Handles, NEW k \in Handles, h # k,
         \A a \in Handles \ {h, k} : SameItems(s, a, g, a),
         Distinct(g, h), Distinct(g, k),
         Owned(g, h) \cap Owned(g, k) = {},
         Owned(g, h) \cup Owned(g, k) = Owned(s, h) \cup Owned(s, k),
         l \subseteq m \cup {h, k}, h \in m \/ LenOf(g, h) = 0, k \in m \/ LenOf(g, k) = 0
  PROVE  Own(g, c, d, E) /\ DeadEmpty(g, m)
<1>1. \A a \in Handles \ {h, k} :
         Owned(g, a) = Owned(s, a) /\ Distinct(g, a) /\ LenOf(g, a) = LenOf(s, a)
  BY SameOwned DEF Own, SameItems
<1>2. DeadEmpty(g, m)
  BY <1>1 DEF DeadEmpty
<1>3. \A a \in Handles : Distinct(g, a)
  BY <1>1
<1>4. \A a, b \in Handles : a # b => Owned(g, a) \cap Owned(g, b) = {}
  <2>1. \A a \in Handles \ {h, k} :
           Owned(g, a) \cap Owned(g, h) = {} /\ Owned(g, a) \cap Owned(g, k) = {}
    <3>1. \A a \in Handles \ {h, k} : Owned(s, a) \cap (Owned(s, h) \cup Owned(s, k)) = {}
      BY DEF Own
    <3> QED BY <1>1, <3>1
  <2>2. \A a, b \in Handles \ {h, k} : a # b => Owned(g, a) \cap Owned(g, b) = {}
    BY <1>1 DEF Own
  <2> QED BY <2>1, <2>2
<1>5. \A a \in Handles : Owned(g, a) \cap (c \cup d) = {}
  <2>1. (Owned(s, h) \cup Owned(s, k)) \cap (c \cup d) = {}
    BY DEF Own
  <2> QED BY <1>1, <2>1 DEF Own
<1>6. ASSUME NEW e \in E
      PROVE  e \in c \/ e \in d \/ \E a \in Handles : e \in Owned(g, a)
  <2>1. CASE e \in Owned(s, h) \cup Owned(s, k)
    BY <2>1
  <2>2. CASE e \notin Owned(s, h) \cup Owned(s, k) /\ ~(e \in c \/ e \in d)
    <3>1. PICK a \in Handles \ {h, k} : e \in Owned(s, a)
      BY <2>2 DEF Own
    <3> QED BY <1>1, <3>1
  <2> QED BY <2>1, <2>2
<1>7. \A a \in Handles : Owned(g, a) \subseteq E
  <2>1. Owned(g, h) \cup Owned(g, k) \subseteq E
    BY DEF Own
  <2> QED BY <1>1, <2>1 DEF Own
<1> QED BY <1>2, <1>3, <1>4, <1>5, <1>6, <1>7 DEF Own

----------------------------------------------------------------------------
(* What a write leaves in a vector.                                        *)

(* The items below n of an array of cells, those from n up to len, and     *)
(* their being distinct.                                                   *)
ItemsOf(cells, n) == {cells[i] : i \in 0 .. n - 1}
ItemsFrom(cells, n, len) == {cells[i] : i \in n .. len - 1}
AllDistinct(cells, n) == \A i, j \in 0 .. n - 1 : cells[i] = cells[j] => i = j

(* A vector's items are those of its cells.                                *)
LEMMA OwnedItems ==
  ASSUME NEW s, NEW h
  PROVE  /\ Owned(s, h) = ItemsOf(Cells(s, h), LenOf(s, h))
         /\ Distinct(s, h) <=> AllDistinct(Cells(s, h), LenOf(s, h))
  BY DEF Owned, Distinct, Item, ItemsOf, AllDistinct

(* A write and its set_len leave exactly the cells that were written.      *)
LEMMA WriteItems ==
  ASSUME NEW s, Sound(s), NEW h \in Handles, NEW cells \in Block, NEW n \in 0 .. MaxCap,
         NEW g, g = Edited(s, h, cells, n), Sound(g)
  PROVE  /\ Owned(g, h) = ItemsOf(cells, n) /\ (Distinct(g, h) <=> AllDistinct(cells, n))
         /\ LenOf(g, h) = n /\ Cells(g, h) = cells
         /\ \A k \in Handles \ {h} : SameItems(s, k, g, k)
<1>1. Shaped(s) /\ OnHeap(s, h) \in BOOLEAN /\ n \in Nat
  BY SoundShaped, LenType, RawAssumption DEF Sound
<1>2. LenOf(g, h) = n /\ SamePlace(s, g, h)
  BY <1>1, EditedStays
<1>3. g.mem = [s.mem EXCEPT ![AsPtr(s, h)] = cells]
  BY <1>1, EditedMem
<1>4. Cells(g, h) = cells
  BY <1>1, <1>2, <1>3, SoundLen DEF Cells, SamePlace, Sound, Storage, Memory
<1>5. n <= Capacity(s, h) /\ \A i \in 0 .. n - 1 : cells[i] \in Elems
  BY <1>2, <1>4, SoundLen DEF Sound, Initialised, Item, SamePlace
<1>6. \A k \in Handles \ {h} : SameItems(s, k, g, k)
  BY <1>1, <1>5, EditedSound
<1>7. Owned(g, h) = ItemsOf(cells, n) /\ (Distinct(g, h) <=> AllDistinct(cells, n))
  BY <1>2, <1>4, OwnedItems
<1> QED BY <1>2, <1>4, <1>6, <1>7

(* Items compose.                                                          *)
LEMMA SameItemsCompose ==
  ASSUME NEW s, NEW m, NEW g, NEW h, NEW k, NEW l, SameItems(s, h, m, k), SameItems(m, k, g, l)
  PROVE  SameItems(s, h, g, l)
  BY DEF SameItems

(* Elements laid out by a constructor.                                     *)
LEMMA FilledItems ==
  ASSUME NEW m \in Nat, NEW f \in Arrays(m), NEW n \in Nat, n <= m, n <= MaxCap
  PROVE  ItemsOf(Filled(f, n), n) = Taken(f, n) /\ AllDistinct(Filled(f, n), n)
<1>1. \A i \in 0 .. n - 1 : Filled(f, n)[i] = f[i]
  BY RawAssumption DEF Filled, Slots
<1>2. ItemsOf(Filled(f, n), n) = Taken(f, n)
  BY <1>1 DEF ItemsOf, Taken
<1>3. \A i, j \in 0 .. n - 1 : f[i] = f[j] => i = j
  BY DEF Arrays
<1> QED BY <1>1, <1>2, <1>3 DEF AllDistinct

(* The part of an array that stays and the part that goes.                 *)
LEMMA TakenParts ==
  ASSUME NEW m \in Nat, NEW f \in Arrays(m), NEW n \in Nat, n <= m
  PROVE  LET rest == {f[i] : i \in n .. m - 1}
         IN  /\ Taken(f, n) \cup rest = Taken(f, m)
             /\ Taken(f, n) \cap rest = {}
<1> DEFINE rest == {f[i] : i \in n .. m - 1}
<1>1. \A i, j \in 0 .. m - 1 : f[i] = f[j] => i = j
  BY DEF Arrays
<1>2. \A i \in 0 .. m - 1 : i \in 0 .. n - 1 \/ i \in n .. m - 1
  OBVIOUS
<1>3. Taken(f, n) \cup rest = Taken(f, m)
  BY <1>2 DEF Taken
<1>4. ASSUME NEW i \in 0 .. n - 1, NEW j \in n .. m - 1
      PROVE  f[i] # f[j]
  BY <1>1
<1> QED BY <1>3, <1>4 DEF Taken

----------------------------------------------------------------------------
(* Rearranged cells.  src holds len items.                                 *)

(* All items but the one at i, in another order: cells[j] is src[f[j]].    *)
Reindexes(f, src, len, i, cells) ==
  /\ \A j \in 0 .. len - 2 : f[j] \in 0 .. len - 1 /\ f[j] # i /\ cells[j] = src[f[j]]
  /\ \A j, l \in 0 .. len - 2 : f[j] = f[l] => j = l
  /\ \A l \in (0 .. len - 1) \ {i} : \E j \in 0 .. len - 2 : f[j] = l

(* The others are as distinct as they were.                                *)
LEMMA Reindexed ==
  ASSUME NEW src, NEW cells, NEW len \in Nat, NEW i \in 0 .. len - 1, NEW f,
         Reindexes(f, src, len, i, cells), AllDistinct(src, len), NEW m, m = len - 1
  PROVE  AllDistinct(cells, m) /\ ItemsOf(cells, m) = ItemsOf(src, len) \ {src[i]}
<1>1. AllDistinct(cells, m)
  <2> SUFFICES ASSUME NEW j \in 0 .. len - 2, NEW l \in 0 .. len - 2, cells[j] = cells[l]
               PROVE  j = l
    BY DEF AllDistinct
  <2>1. src[f[j]] = src[f[l]] /\ f[j] \in 0 .. len - 1 /\ f[l] \in 0 .. len - 1
    BY DEF Reindexes
  <2>2. f[j] = f[l]
    BY <2>1 DEF AllDistinct
  <2> QED BY <2>2 DEF Reindexes
<1>2. ItemsOf(cells, m) \subseteq ItemsOf(src, len) \ {src[i]}
  <2> SUFFICES ASSUME NEW j \in 0 .. len - 2
               PROVE  cells[j] \in ItemsOf(src, len) /\ cells[j] # src[i]
    BY DEF ItemsOf
  <2>1. f[j] \in 0 .. len - 1 /\ f[j] # i /\ cells[j] = src[f[j]]
    BY DEF Reindexes
  <2> QED BY <2>1 DEF ItemsOf, AllDistinct
<1>3. ItemsOf(src, len) \ {src[i]} \subseteq ItemsOf(cells, m)
  <2> SUFFICES ASSUME NEW l \in (0 .. len - 1) \ {i}
               PROVE  src[l] \in ItemsOf(cells, m)
    BY DEF ItemsOf
  <2>1. PICK j \in 0 .. len - 2 : f[j] = l
    BY DEF Reindexes
  <2> QED BY <2>1 DEF ItemsOf, Reindexes
<1> QED BY <1>1, <1>2, <1>3

(* A new item at i, those from i on one place up.                          *)
LEMMA Inserted ==
  ASSUME NEW src, NEW cells, NEW len \in Nat, NEW i \in 0 .. len, NEW e,
         \A j \in 0 .. len :
           cells[j] = IF j < i THEN src[j] ELSE IF j = i THEN e ELSE src[j - 1],
         AllDistinct(src, len), e \notin ItemsOf(src, len), NEW m, m = len + 1
  PROVE  AllDistinct(cells, m) /\ ItemsOf(cells, m) = ItemsOf(src, len) \cup {e}
<1>1. ASSUME NEW j \in 0 .. len
      PROVE  /\ j < i => j \in 0 .. len - 1 /\ cells[j] = src[j] /\ cells[j] # e
             /\ j = i => cells[j] = e
             /\ j > i => j - 1 \in 0 .. len - 1 /\ cells[j] = src[j - 1] /\ cells[j] # e
  BY DEF ItemsOf
<1>2. \A j \in 0 .. len : j < i \/ j = i \/ j > i
  OBVIOUS
<1>3. AllDistinct(cells, m)
  <2> SUFFICES ASSUME NEW j \in 0 .. len, NEW l \in 0 .. len, cells[j] = cells[l]
               PROVE  j = l
    BY DEF AllDistinct
  <2>1. CASE j = i \/ l = i
    BY <1>1, <1>2, <2>1
  <2>2. CASE j < i /\ l < i
    BY <1>1, <2>2 DEF AllDistinct
  <2>3. CASE j > i /\ l > i
    <3>1. j - 1 = l - 1
      BY <1>1, <2>3 DEF AllDistinct
    <3> QED BY <3>1
  <2>4. CASE j < i /\ l > i
    <3>1. j = l - 1
      BY <1>1, <2>4 DEF AllDistinct
    <3> QED BY <2>4, <3>1
  <2>5. CASE j > i /\ l < i
    <3>1. l = j - 1
      BY <1>1, <2>5 DEF AllDistinct
    <3> QED BY <2>5, <3>1
  <2> QED BY <1>2, <2>1, <2>2, <2>3, <2>4, <2>5
<1>4. ItemsOf(cells, m) \subseteq ItemsOf(src, len) \cup {e}
  <2> SUFFICES ASSUME NEW j \in 0 .. len
               PROVE  cells[j] \in ItemsOf(src, len) \/ cells[j] = e
    BY DEF ItemsOf
  <2> QED BY <1>1, <1>2 DEF ItemsOf
<1>5. ItemsOf(src, len) \cup {e} \subseteq ItemsOf(cells, m)
  <2>1. e \in ItemsOf(cells, m)
    <3>1. i \in 0 .. m - 1 /\ cells[i] = e
      OBVIOUS
    <3> QED BY <3>1 DEF ItemsOf
  <2>2. ASSUME NEW l \in 0 .. len - 1
        PROVE  src[l] \in ItemsOf(cells, m)
    <3>1. CASE l < i
      <4>1. l \in 0 .. m - 1 /\ cells[l] = src[l]
        BY <3>1
      <4> QED BY <4>1 DEF ItemsOf
    <3>2. CASE ~(l < i)
      <4>1. l + 1 \in 0 .. m - 1 /\ l + 1 \in 0 .. len /\ l + 1 > i /\ l + 1 - 1 = l
        BY <3>2
      <4>2. cells[l + 1] = src[l]
        BY <1>1, <4>1
      <4> QED BY <4>1, <4>2 DEF ItemsOf
    <3> QED BY <3>1, <3>2
  <2> QED BY <2>1, <2>2 DEF ItemsOf
<1> QED BY <1>3, <1>4, <1>5

(* The first n items, and the others.                                      *)
LEMMA Split ==
  ASSUME NEW src, NEW len \in Nat, NEW n \in Nat, n <= len, AllDistinct(src, len),
         NEW low, \A j \in 0 .. n - 1 : low[j] = src[j]
  PROVE  /\ AllDistinct(low, n)
         /\ ItemsOf(low, n) \cap ItemsFrom(src, n, len) = {}
         /\ ItemsOf(low, n) \cup ItemsFrom(src, n, len) = ItemsOf(src, len)
<1>1. ItemsOf(low, n) = {src[j] : j \in 0 .. n - 1}
  BY DEF ItemsOf
<1>2. AllDistinct(low, n)
  BY DEF AllDistinct
<1>3. ASSUME NEW j \in 0 .. n - 1, NEW l \in n .. len - 1
      PROVE  src[j] # src[l]
  BY DEF AllDistinct
<1>4. \A j \in 0 .. len - 1 : j \in 0 .. n - 1 \/ j \in n .. len - 1
  OBVIOUS
<1>5. ItemsOf(low, n) \cup ItemsFrom(src, n, len) = ItemsOf(src, len)
  BY <1>1, <1>4 DEF ItemsOf, ItemsFrom
<1> QED BY <1>1, <1>2, <1>3, <1>5 DEF ItemsFrom

(* The items from n on, moved to the front of another array.               *)
LEMMA Moved ==
  ASSUME NEW src, NEW len \in Nat, NEW n \in Nat, NEW tail \in Nat, n + tail = len,
         AllDistinct(src, len), NEW high, \A j \in 0 .. tail - 1 : high[j] = src[j + n]
  PROVE  AllDistinct(high, tail) /\ ItemsOf(high, tail) = ItemsFrom(src, n, len)
<1>1. \A j \in 0 .. tail - 1 : j + n \in 0 .. len - 1 /\ j + n \in n .. len - 1
  OBVIOUS
<1>2. AllDistinct(high, tail)
  <2> SUFFICES ASSUME NEW j \in 0 .. tail - 1, NEW l \in 0 .. tail - 1, high[j] = high[l]
               PROVE  j = l
    BY DEF AllDistinct
  <2>1. src[j + n] = src[l + n]
    OBVIOUS
  <2>2. j + n = l + n
    BY <1>1, <2>1 DEF AllDistinct
  <2> QED BY <2>2
<1>3. ASSUME NEW j \in n .. len - 1
      PROVE  src[j] \in ItemsOf(high, tail)
  <2>1. j - n \in 0 .. tail - 1 /\ j - n + n = j
    OBVIOUS
  <2>2. high[j - n] = src[j]
    BY <2>1
  <2> QED BY <2>1, <2>2 DEF ItemsOf
<1> QED BY <1>1, <1>2, <1>3 DEF ItemsOf, ItemsFrom

(* The items of one array behind those of another.                         *)
LEMMA Joined ==
  ASSUME NEW dst, NEW len \in Nat, NEW src, NEW n \in Nat,
         AllDistinct(dst, len), AllDistinct(src, n), ItemsOf(dst, len) \cap ItemsOf(src, n) = {},
         NEW cells, NEW m, m = len + n,
         \A j \in 0 .. m - 1 : cells[j] = IF j < len THEN dst[j] ELSE src[j - len]
  PROVE  AllDistinct(cells, m) /\ ItemsOf(cells, m) = ItemsOf(dst, len) \cup ItemsOf(src, n)
<1>1. ASSUME NEW j \in 0 .. m - 1
      PROVE  /\ j < len => j \in 0 .. len - 1 /\ cells[j] = dst[j] /\ cells[j] \in ItemsOf(dst, len)
             /\ j >= len => /\ j - len \in 0 .. n - 1 /\ cells[j] = src[j - len]
                            /\ cells[j] \in ItemsOf(src, n)
  BY DEF ItemsOf
<1>2. \A j \in 0 .. m - 1 : j < len \/ j >= len
  OBVIOUS
<1>3. AllDistinct(cells, m)
  <2> SUFFICES ASSUME NEW j \in 0 .. m - 1, NEW l \in 0 .. m - 1, cells[j] = cells[l]
               PROVE  j = l
    BY DEF AllDistinct
  <2>1. CASE j < len /\ l < len
    BY <1>1, <2>1 DEF AllDistinct
  <2>2. CASE j >= len /\ l >= len
    <3>1. j - len = l - len
      BY <1>1, <2>2 DEF AllDistinct
    <3> QED BY <3>1
  <2>3. CASE (j < len /\ l >= len) \/ (j >= len /\ l < len)
    BY <1>1, <2>3
  <2> QED BY <1>2, <2>1, <2>2, <2>3
<1>4. ItemsOf(cells, m) \subseteq ItemsOf(dst, len) \cup ItemsOf(src, n)
  <2> SUFFICES ASSUME NEW j \in 0 .. m - 1
               PROVE  cells[j] \in ItemsOf(dst, len) \/ cells[j] \in ItemsOf(src, n)
    BY DEF ItemsOf
  <2> QED BY <1>1, <1>2
<1>5. ASSUME NEW l \in 0 .. len - 1
      PROVE  dst[l] \in ItemsOf(cells, m)
  <2>1. l \in 0 .. m - 1 /\ cells[l] = dst[l]
    OBVIOUS
  <2> QED BY <2>1 DEF ItemsOf
<1>6. ASSUME NEW l \in 0 .. n - 1
      PROVE  src[l] \in ItemsOf(cells, m)
  <2>1. l + len \in 0 .. m - 1 /\ l + len >= len /\ l + len - len = l
    OBVIOUS
  <2>2. cells[l + len] = src[l]
    BY <1>1, <2>1
  <2> QED BY <2>1, <2>2 DEF ItemsOf
<1> QED BY <1>3, <1>4, <1>5, <1>6 DEF ItemsOf

----------------------------------------------------------------------------
(* What each call does to the items, wherever the buffers are.             *)

OthersKeep(h) == \A k \in Handles \ {h} : SameItems(store, k, store', k)

(* A call leaves h the n items in cells; the others keep theirs.           *)
Leaves(h, cells, n) ==
  /\ LenOf(store', h) = n
  /\ \A i \in 0 .. n - 1 : Item(store', h, i) = cells[i]
  /\ OthersKeep(h)

(* One write into h, after h may have moved to another buffer.             *)
LEMMA WriteLeaves ==
  ASSUME IInv', NEW h \in Handles, NEW s, Sound(s), \A k \in Handles \ {h} : SameItems(store, k, s, k),
         NEW cells \in Block, NEW n \in 0 .. MaxCap, store' = Edited(s, h, cells, n)
  PROVE  Leaves(h, cells, n)
<1>1. Sound(store')
  BY DEF IInv
<1>2. /\ LenOf(store', h) = n /\ Cells(store', h) = cells
      /\ \A k \in Handles \ {h} : SameItems(s, k, store', k)
  BY <1>1, WriteItems
<1>3. \A k \in Handles \ {h} : SameItems(store, k, store', k)
  BY <1>2, SameItemsCompose
<1> QED BY <1>2, <1>3 DEF Leaves, OthersKeep, Item

(* h is a new vector of the first n of k elements of the program; the      *)
(* others are dropped.                                                     *)
Made(h, n, k, f) ==
  /\ n <= k /\ f \in Arrays(k)
  /\ h \notin live /\ live' = live \cup {h}
  /\ Leaves(h, f, n)
  /\ caller' = caller \ Taken(f, k)
  /\ dropped' = dropped \cup {f[i] : i \in n .. k - 1}

(* The constructors that do not panic.                                     *)
LEMMA ConstructMakes ==
  ASSUME IInv, IInv', NEW h \in Handles, NEW n \in Nat
  PROVE  /\ New(h) \/ NewWithCapacity(h, n) => \E m : m = 0 /\ \E f : Made(h, m, m, f)
         /\ FromBuf(h, n) \/ FromArray(h, n) => \E f : Made(h, n, n, f)
         /\ FromBufAndLen(h, n) => \E f : Made(h, n, InlineSize[h], f)
<1> DEFINE m == NewInline(store, h)
<1>1. Sound(store) /\ Sound(store') /\ InlineSize[h] \in Nat /\ InlineSize[h] \in 0 .. MaxCap
  BY RawAssumption DEF IInv
<1>2. /\ Sound(m) /\ LenOf(m, h) = 0
      /\ \A k \in Handles \ {h} : SameItems(store, k, m, k)
  BY <1>1, NewInlineSound
<1> HIDE DEF m
<1>3. ASSUME New(h) \/ NewWithCapacity(h, n)
      PROVE  \E z : z = 0 /\ \E f : Made(h, z, z, f)
  <2>1. LenOf(store', h) = 0 /\ OthersKeep(h)
    BY <1>1, <1>2, <1>3, WithCapacitySound DEF New, NewWithCapacity, m, OthersKeep
  <2>2. h \notin live /\ live' = live \cup {h} /\ caller' = caller /\ dropped' = dropped
    BY <1>3 DEF New, NewWithCapacity, Construct
  <2> DEFINE zero == 0
             f == [i \in 0 .. zero - 1 |-> Uninit]
  <2>3. zero \in Nat /\ f \in Arrays(zero) /\ Taken(f, zero) = {}
        /\ {f[i] : i \in zero .. zero - 1} = {} /\ zero <= zero
    BY DEF Arrays, Taken
  <2>4. Leaves(h, f, zero) /\ zero = 0
    BY <2>1 DEF Leaves
  <2> HIDE DEF f, zero
  <2>5. Made(h, zero, zero, f)
    BY <2>2, <2>3, <2>4 DEF Made
  <2> QED BY <2>4, <2>5
<1>4. ASSUME NEW k \in Nat, NEW f \in Arrays(k), n <= k, n <= InlineSize[h],
             store' = Edited(m, h, Filled(f, n), n)
      PROVE  Leaves(h, f, n)
  <2>1. n <= MaxCap /\ n \in 0 .. MaxCap
    BY <1>1, <1>4, RawAssumption
  <2>2. Filled(f, n) \in Block /\ \A i \in 0 .. n - 1 : Filled(f, n)[i] = f[i]
    <3>1. Filled(f, n) \in Block
      BY <1>4, <2>1, FilledType DEF IInv
    <3> QED BY <2>1, <3>1, RawAssumption DEF Filled, Slots
  <2>3. Leaves(h, Filled(f, n), n)
    BY <1>2, <1>4, <2>1, <2>2, WriteLeaves
  <2> QED BY <2>2, <2>3 DEF Leaves
<1>5. ASSUME FromBuf(h, n) PROVE \E f : Made(h, n, n, f)
  <2>1. PICK f \in Arrays(n) : store' = Edited(m, h, Filled(f, n), n)
                               /\ caller' = caller \ Taken(f, n)
    BY <1>5 DEF FromBuf, m
  <2>2. /\ n <= n /\ n <= InlineSize[h] /\ h \notin live /\ live' = live \cup {h}
        /\ dropped' = dropped \cup {f[i] : i \in n .. n - 1}
    BY <1>5 DEF FromBuf, Construct
  <2>3. Made(h, n, n, f)
    BY <1>4, <2>1, <2>2 DEF Made
  <2> QED BY <2>3
<1>6. ASSUME FromBufAndLen(h, n) PROVE \E f : Made(h, n, InlineSize[h], f)
  <2> DEFINE k == InlineSize[h]
  <2>1. PICK f \in Arrays(k) :
           /\ store' = Edited(m, h, Filled(f, n), n)
           /\ caller' = caller \ Taken(f, k)
           /\ dropped' = dropped \cup {f[i] : i \in n .. k - 1}
    BY <1>6 DEF FromBufAndLen, m
  <2>2. n <= k /\ h \notin live /\ live' = live \cup {h} /\ k \in Nat
    BY <1>1, <1>6 DEF FromBufAndLen, Construct
  <2>3. Made(h, n, k, f)
    BY <1>4, <2>1, <2>2 DEF Made
  <2> QED BY <2>3
<1>7. ASSUME FromArray(h, n) PROVE \E f : Made(h, n, n, f)
  <2>1. PICK f \in Arrays(n), p \in FreePtrs(store) :
           /\ store' = SetLen(SetOnHeap(NewHeap(m, h, p, n, Filled(f, n)), h), h, n)
           /\ caller' = caller \ Taken(f, n)
    BY <1>7 DEF FromArray, m
  <2>2. /\ n \in 1 .. MaxCap /\ n \in 0 .. MaxCap /\ n <= MaxCap /\ n <= n
        /\ h \notin live /\ live' = live \cup {h}
        /\ dropped' = dropped \cup {f[i] : i \in n .. n - 1}
    BY <1>1, <1>7, RawAssumption DEF FromArray, Construct
  <2> DEFINE cells == Filled(f, n)
             x == SetOnHeap(NewHeap(m, h, p, n, cells), h)
  <2>3. /\ cells \in Block /\ (\A i \in 0 .. n - 1 : cells[i] \in Elems)
        /\ \A i \in 0 .. n - 1 : cells[i] = f[i]
    <3>1. cells \in Block /\ \A i \in 0 .. n - 1 : cells[i] \in Elems
      BY <2>2, FilledType DEF IInv
    <3>2. \A i \in 0 .. n - 1 : cells[i] = f[i]
      BY <2>2, RawAssumption DEF Filled, Slots
    <3> QED BY <3>1, <3>2
  <2>4. p \in Ptrs /\ m.size[p] = 0 /\ store' = SetLen(x, h, n)
    BY <1>1, <2>1, NewInlineSound DEF FreePtrs, m
  <2> HIDE DEF cells
  <2>5. /\ Sound(x) /\ Capacity(x, h) = n /\ Cells(x, h) = cells
        /\ \A k \in Handles : SameItems(m, k, x, k)
    <3>1. (\A i \in 0 .. LenOf(m, h) - 1 : cells[i] = Item(m, h, i)) /\ LenOf(m, h) <= n
      BY <1>2, <2>2
    <3>2. m \in Storage
      BY <1>2 DEF Sound
    <3> QED BY <1>2, <2>2, <2>3, <2>4, <3>1, <3>2, NewHeapSound
  <2> HIDE DEF x
  <2>6. /\ LenOf(store', h) = n /\ Cells(store', h) = cells
        /\ \A k \in Handles \ {h} : SameItems(x, k, store', k)
    <3>1. \A i \in 0 .. n - 1 : Item(x, h, i) \in Elems
      BY <2>3, <2>5 DEF Item
    <3> QED BY <2>2, <2>4, <2>5, <3>1, SetLenSound
  <2>7. OthersKeep(h)
    BY <1>2, <2>5, <2>6, SameItemsCompose DEF OthersKeep
  <2>8. Made(h, n, n, f)
    BY <2>1, <2>2, <2>3, <2>6, <2>7 DEF Made, Leaves, Item
  <2> QED BY <2>8
<1> QED BY <1>3, <1>5, <1>6, <1>7

(* The program's Vec is made in the same way.                              *)
LEMMA VecMakes ==
  ASSUME IInv, IInv', NEW c \in Nat, NEW n \in Nat, VecNew(c, n)
  PROVE  \E f : Made(Std, n, n, f)
<1>1. Sound(store) /\ Std \in Handles
  BY StdAssumption DEF IInv
<1>2. PICK f \in Arrays(n), s \in WithCapacity(store, Std, c) :
         store' = Edited(s, Std, Filled(f, n), n) /\ caller' = caller \ Taken(f, n)
  BY DEF VecNew
<1>3. /\ Sound(s) /\ Capacity(s, Std) >= c /\ Capacity(s, Std) \in 0 .. MaxCap
      /\ \A k \in Handles \ {Std} : SameItems(store, k, s, k)
  BY <1>1, <1>2, WithCapacitySound, SoundLen
<1>4. /\ n <= MaxCap /\ n \in 0 .. MaxCap /\ n <= n /\ Std \notin live
      /\ live' = live \cup {Std} /\ dropped' = dropped \cup {f[i] : i \in n .. n - 1}
  BY <1>3, RawAssumption DEF VecNew
<1>5. Filled(f, n) \in Block /\ \A i \in 0 .. n - 1 : Filled(f, n)[i] = f[i]
  <2>1. Filled(f, n) \in Block
    BY <1>4, FilledType DEF IInv
  <2> QED BY <1>4, <2>1, RawAssumption DEF Filled, Slots
<1>6. Leaves(Std, Filled(f, n), n)
  BY <1>1, <1>2, <1>3, <1>4, <1>5, WriteLeaves
<1>7. Made(Std, n, n, f)
  BY <1>2, <1>4, <1>5, <1>6 DEF Made, Leaves
<1> QED BY <1>7

(* The elements in lost are dropped, and no vector changes.                *)
Rejected(lost) ==
  /\ lost \subseteq caller /\ caller' = caller \ lost /\ dropped' = dropped \cup lost
  /\ store' = store /\ live' = live

(* The calls that panic before they touch a vector.                        *)
LEMMA PanicRejects ==
  ASSUME NEW h, NEW n, caller \subseteq Elems, InlineSize[h] \in Nat
  PROVE  /\ FromBufAndLenPanics(h, n) =>
              \E f \in Arrays(InlineSize[h]) : Rejected(Taken(f, InlineSize[h]))
         /\ PushPanics(h) \/ InsertPanics(h, n) => \E e \in caller : Rejected({e})
<1>1. ASSUME FromBufAndLenPanics(h, n)
      PROVE  \E f \in Arrays(InlineSize[h]) : Rejected(Taken(f, InlineSize[h]))
  <2>1. PICK f \in Arrays(InlineSize[h]) :
           /\ caller' = caller \ Taken(f, InlineSize[h])
           /\ dropped' = dropped \cup Taken(f, InlineSize[h])
    BY <1>1 DEF FromBufAndLenPanics
  <2>2. Taken(f, InlineSize[h]) \subseteq caller /\ store' = store /\ live' = live
    BY <1>1, ArrayFacts DEF FromBufAndLenPanics
  <2> DEFINE lost == Taken(f, InlineSize[h])
  <2>3. Rejected(lost)
    BY <2>1, <2>2 DEF Rejected
  <2> QED BY <2>3
<1>2. ASSUME PushPanics(h) \/ InsertPanics(h, n)
      PROVE  \E e \in caller : Rejected({e})
  <2>1. PICK e \in caller : caller' = caller \ {e} /\ dropped' = dropped \cup {e}
    BY <1>2 DEF PushPanics, InsertPanics, DropArgument
  <2>2. Rejected({e})
    BY <1>2, <2>1 DEF PushPanics, InsertPanics, DropArgument, Rejected
  <2> QED BY <2>2
<1> QED BY <1>1, <1>2

(* The contents of a become those of b, which was not live.                *)
Passed(a, b) ==
  /\ a # b /\ b \notin live /\ live' = (live \ {a}) \cup {b}
  /\ SameItems(store, a, store', b) /\ LenOf(store', a) = 0
  /\ \A k \in Handles \ {a, b} : SameItems(store, k, store', k)
  /\ caller' = caller /\ dropped' = dropped

LEMMA HandOverPasses ==
  ASSUME IInv, NEW a \in Handles, NEW b \in Handles, a # b, b \notin live, OnHeap(store, a),
         store' = HandOver(store, a, b), live' = (live \ {a}) \cup {b},
         caller' = caller, dropped' = dropped
  PROVE  Passed(a, b)
<1>1. b \in Handles \ {a} /\ Sound(store)
  BY DEF IInv
<1>2. /\ LenOf(store', a) = 0 /\ SameItems(store, a, store', b)
      /\ \A k \in Handles \ {a, b} : SameItems(store, k, store', k)
  BY <1>1, HandOverSound
<1> QED BY <1>2 DEF Passed

(* from_raw_parts and leak, which are about spilled vectors.               *)
LEMMA RawPartsPass ==
  ASSUME IInv, NEW h \in Handles
  PROVE  /\ Raw \in Handles
         /\ FromRawParts(h) => Raw \in live /\ Passed(Raw, h)
         /\ Leak(h) => h \in live /\ Passed(h, Raw)
<1>1. ASSUME NEW a \in Handles, NEW b \in Handles, Hands(a, b)
      PROVE  a \in live /\ Passed(a, b)
  BY <1>1, HandOverPasses DEF Hands
<1> QED BY <1>1, RawPartsHand

(* from_vec.  A Vec without an allocation is empty.                        *)
LEMMA FromVecPasses ==
  ASSUME IInv, DeadEmpty(store, live), NEW h \in Handles, FromVec(h)
  PROVE  Std \in live /\ h # Std /\ Passed(Std, h)
<1>1. /\ Std \in Handles /\ Std \in live /\ Std # h /\ h \notin live /\ Sound(store)
      /\ (Capacity(store, Std) # 0 => OnHeap(store, Std))
      /\ live' = (live \ {Std}) \cup {h} /\ caller' = caller /\ dropped' = dropped
  BY StdAssumption DEF IInv, Capacity, FromVec, SmallVecs
<1>2. CASE FromVec(h) /\ Capacity(store, Std) = 0
  <2>1. store' = NewInline(store, h)
    BY <1>2 DEF FromVec
  <2>2. LenOf(store', h) = 0 /\ \A k \in Handles \ {h} : SameItems(store, k, store', k)
    BY <1>1, <2>1, NewInlineSound
  <2>3. LenOf(store, Std) = 0 /\ LenOf(store, h) = 0
    <3>1. LenOf(store, Std) <= 0 /\ LenOf(store, Std) \in 0 .. MaxCap
      BY <1>1, <1>2, SoundLen
    <3> QED BY <1>1, <3>1, RawAssumption DEF DeadEmpty
  <2>4. LenOf(store', Std) = 0
    BY <1>1, <2>2, <2>3 DEF SameItems
  <2>5. SameItems(store, Std, store', h)
    BY <2>2, <2>3 DEF SameItems
  <2> QED BY <1>1, <2>2, <2>4, <2>5 DEF Passed
<1>3. CASE Capacity(store, Std) # 0
  <2>1. OnHeap(store, Std) /\ store' = HandOver(store, Std, h)
    BY <1>1, <1>3 DEF FromVec
  <2>2. Passed(Std, h)
    BY <1>1, <2>1, HandOverPasses
  <2> QED BY <1>1, <2>2
<1> QED BY <1>2, <1>3

(* into_vec.                                                               *)
LEMMA IntoVecPasses ==
  ASSUME IInv, NEW h \in Handles, IntoVec(h)
  PROVE  h \in live /\ h # Std /\ Passed(h, Std)
<1>1. /\ Std \in Handles /\ h \in live /\ h # Std /\ Std \notin live /\ Sound(store)
      /\ live' = (live \ {h}) \cup {Std} /\ caller' = caller /\ dropped' = dropped
  BY StdAssumption DEF IInv, IntoVec, SmallVecs
<1>2. CASE OnHeap(store, h)
  <2>1. store' = HandOver(store, h, Std)
    BY <1>2 DEF IntoVec
  <2>2. Passed(h, Std)
    BY <1>1, <1>2, <2>1, HandOverPasses
  <2> QED BY <1>1, <2>2
<1>3. CASE ~OnHeap(store, h)
  <2> DEFINE len == LenOf(store, h)
             zero == 0
  <2>1. PICK s \in WithCapacity(store, Std, len) :
           store' = NewInline(
                      Edited(s, Std, Copy(Cells(s, h), 0, Cells(s, Std), 0, LenOf(s, h)),
                             LenOf(s, h)), h)
    BY <1>3 DEF IntoVec
  <2>2. len \in 0 .. MaxCap /\ len \in Nat
    BY <1>1, SoundLen, RawAssumption
  <2>3. /\ Sound(s) /\ Capacity(s, Std) >= len
        /\ \A k \in Handles \ {Std} : SameItems(store, k, s, k)
    BY <1>1, <2>1, <2>2, WithCapacitySound
  <2> DEFINE src == Cells(s, h)
             dst == Cells(s, Std)
             cells == Copy(src, zero, dst, zero, len)
             g == Edited(s, Std, cells, len)
  <2>4. /\ src \in Block /\ dst \in Block /\ LenOf(s, h) = len
        /\ \A i \in 0 .. len - 1 : src[i] = Item(store, h, i)
    BY <1>1, <2>2, <2>3, SoundLen DEF SameItems, Item
  <2>5. store' = NewInline(g, h) /\ zero = 0 /\ len <= Capacity(s, Std)
    <3>1. Capacity(s, Std) \in Nat
      BY <1>1, <2>3, SoundLen, RawAssumption
    <3> QED BY <2>1, <2>2, <2>3, <2>4, <3>1
  <2>6. \A i \in 0 .. len - 1 : src[i] \in Elems
    BY <1>1, <2>4 DEF Sound, Initialised
  <2> HIDE DEF src, dst, len, zero
  <2>7. cells \in Block /\ \A i \in 0 .. len - 1 : cells[i] = src[i]
    BY <2>2, <2>4, <2>5, <2>6, RawAssumption DEF Copy, Block, Slots
  <2> HIDE DEF cells
  <2>8. /\ Sound(g) /\ LenOf(g, Std) = len /\ Cells(g, Std) = cells
        /\ \A k \in Handles \ {Std} : SameItems(s, k, g, k)
    BY <1>1, <2>2, <2>3, <2>5, <2>6, <2>7, EditedSound
  <2> HIDE DEF g
  <2>9. LenOf(store', h) = 0 /\ \A k \in Handles \ {h} : SameItems(g, k, store', k)
    BY <2>5, <2>8, NewInlineSound
  <2>10. SameItems(store, h, g, Std)
    BY <2>4, <2>7, <2>8 DEF SameItems, Item, len
  <2>11. SameItems(store, h, store', Std)
    BY <1>1, <2>9, <2>10, SameItemsCompose
  <2>12. \A k \in Handles \ {h, Std} : SameItems(store, k, store', k)
    BY <2>3, <2>8, <2>9, SameItemsCompose
  <2> QED BY <1>1, <2>9, <2>11, <2>12 DEF Passed
<1> QED BY <1>2, <1>3

(* h is gone; what it held is the program's or dropped.                    *)
VectorGone(h) ==
  /\ h \in live /\ live' = live \ {h}
  /\ LenOf(store', h) = 0 /\ OthersKeep(h)

GivenBack(h) == VectorGone(h) /\ caller' = caller \cup Owned(store, h) /\ dropped' = dropped
Destroyed(h) == VectorGone(h) /\ caller' = caller /\ dropped' = dropped \cup Owned(store, h)

Closed(h) == GivenBack(h) \/ Destroyed(h)

LEMMA ReleaseCloses ==
  ASSUME IInv, NEW h \in Handles
  PROVE  /\ IntoInner(h) => GivenBack(h)
         /\ LeakPanics(h) \/ DropVec(h) => Destroyed(h)
<1>1. Sound(store)
  BY DEF IInv
<1>2. ASSUME LeakPanics(h) \/ DropVec(h) PROVE Destroyed(h)
  <2>1. Discard(h) /\ h \in live
    BY <1>2 DEF LeakPanics, DropVec
  <2>2. LenOf(store', h) = 0 /\ OthersKeep(h)
    BY <1>1, <2>1, ReleasedSound DEF Discard, OthersKeep
  <2> QED BY <1>1, <1>2, <2>1, <2>2 DEF Discard, VectorGone, Destroyed
<1>3. ASSUME IntoInner(h) PROVE GivenBack(h)
  <2> DEFINE g == SetLen(store, h, 0)
  <2>1. 0 <= Capacity(store, h) /\ 0 \in Nat /\ \A i \in 0 .. 0 - 1 : Item(store, h, i) \in Elems
    BY <1>1, SoundLen, RawAssumption
  <2>2. Sound(g) /\ \A k \in Handles \ {h} : SameItems(store, k, g, k)
    BY <1>1, <2>1, SetLenSound
  <2>3. store' = Released(g, h)
    BY <1>3 DEF IntoInner
  <2> HIDE DEF g
  <2>4. LenOf(store', h) = 0 /\ \A k \in Handles \ {h} : SameItems(g, k, store', k)
    BY <2>2, <2>3, ReleasedSound
  <2>5. OthersKeep(h)
    BY <2>2, <2>4, SameItemsCompose DEF OthersKeep
  <2> QED BY <1>1, <1>3, <2>4, <2>5 DEF IntoInner, VectorGone, GivenBack
<1> QED BY <1>2, <1>3

(* Item i of h is the program's; its place is closed or is taken by the    *)
(* last item.                                                              *)
ClosedUp(h, i) ==
  \A j \in 0 .. LenOf(store, h) - 2 :
    Item(store', h, j) = IF j < i THEN Item(store, h, j) ELSE Item(store, h, j + 1)

FilledIn(h, i) ==
  \A j \in 0 .. LenOf(store, h) - 2 :
    Item(store', h, j) = IF j = i THEN Item(store, h, LenOf(store, h) - 1)
                         ELSE Item(store, h, j)

TakenOut(h, i) ==
  /\ h \in live /\ live' = live /\ dropped' = dropped
  /\ i \in 0 .. LenOf(store, h) - 1
  /\ caller' = caller \cup {Item(store, h, i)}
  /\ LenOf(store', h) = LenOf(store, h) - 1
  /\ ClosedUp(h, i) \/ FilledIn(h, i)
  /\ OthersKeep(h)

LEMMA TakeOutTakes ==
  ASSUME IInv, IInv', NEW h \in live, NEW i \in Nat, NEW from \in Nat, NEW n \in Nat,
         i < LenOf(store, h), TakeOut(h, i, from, n),
         from + n <= LenOf(store, h),
         NEW swaps \in BOOLEAN,
         IF swaps THEN n = 1 /\ from = LenOf(store, h) - 1
         ELSE from = i + 1 /\ n = LenOf(store, h) - 1 - i
  PROVE  TakenOut(h, i) /\ IF swaps THEN FilledIn(h, i) ELSE ClosedUp(h, i)
<1> DEFINE len   == LenOf(store, h)
           src   == Cells(store, h)
           one   == 1
           wiped == Wipe(src, i, one)
           cells == Shift(wiped, from, i, n)
           m     == len - 1
<1>1. /\ h \in Handles /\ Sound(store) /\ len \in 0 .. MaxCap /\ len \in Nat /\ src \in Block
  BY SoundLen, RawAssumption DEF IInv
<1>2. /\ i < len /\ from + n <= len
      /\ IF swaps THEN n = 1 /\ from = len - 1 ELSE from = i + 1 /\ n = len - 1 - i
      /\ store' = Edited(store, h, cells, m) /\ live' = live /\ dropped' = dropped
      /\ caller' = caller \cup {Item(store, h, i)}
  BY DEF TakeOut
<1>3. one \in Int /\ one = 1 /\ m \in 0 .. MaxCap /\ m = len - 1 /\ from + n <= MaxCap
  BY <1>1, <1>2, RawAssumption
<1>4. (\A j \in Int : src[j] = Item(store, h, j)) /\ len = LenOf(store, h)
  BY DEF Item
<1> HIDE DEF len, src, one, m
<1>5. wiped \in Block /\ \A j \in Slots : wiped[j] =
         IF j \in i .. i + one - 1 THEN Uninit ELSE src[j]
  BY <1>1, <1>3, WipeType
<1> HIDE DEF wiped
<1>6. cells \in Block /\ \A j \in Slots :
         cells[j] = IF j \in i .. i + n - 1 THEN wiped[j - i + from]
                    ELSE IF j \in from .. from + n - 1 THEN Uninit ELSE wiped[j]
  <2>1. ShiftedFrom(wiped, cells, from, i, n)
    BY <1>3, <1>5, ShiftIs
  <2> QED BY <2>1 DEF ShiftedFrom
<1> HIDE DEF cells
<1>7. ASSUME NEW j \in 0 .. len - 2
      PROVE  /\ j \in i .. i + n - 1 => cells[j] = src[j - i + from]
             /\ j \notin i .. i + n - 1 => cells[j] = src[j]
  <2>1. j \in Slots /\ j \in Int /\ \A l \in 0 .. len - 1 : l \in Slots
    BY <1>1, RawAssumption DEF Slots
  <2>2. \A l \in 0 .. len - 1 : l # i => wiped[l] = src[l]
    BY <1>3, <1>5, <2>1
  <2>3. CASE j \in i .. i + n - 1
    <3>1. j - i + from \in 0 .. len - 1 /\ j - i + from # i
      BY <1>1, <1>2, <2>3
    <3>2. cells[j] = wiped[j - i + from]
      BY <1>6, <2>1, <2>3
    <3> QED BY <2>2, <2>3, <3>1, <3>2
  <2>4. CASE j \notin i .. i + n - 1
    <3>1. j \notin from .. from + n - 1 /\ j # i /\ j \in 0 .. len - 1
      BY <1>1, <1>2, <2>4
    <3>2. cells[j] = wiped[j]
      BY <1>6, <2>1, <2>4, <3>1
    <3> QED BY <2>2, <2>4, <3>1, <3>2
  <2> QED BY <2>3, <2>4
<1>8. IF swaps THEN \A j \in 0 .. len - 2 : cells[j] = IF j = i THEN src[len - 1] ELSE src[j]
      ELSE \A j \in 0 .. len - 2 : cells[j] = IF j < i THEN src[j] ELSE src[j + 1]
  <2>1. CASE swaps
    <3>1. \A j \in 0 .. len - 2 : /\ (j \in i .. i + n - 1 <=> j = i)
                                  /\ j = i => j - i + from = len - 1
      BY <1>1, <1>2, <2>1
    <3> QED BY <1>7, <2>1, <3>1
  <2>2. CASE ~swaps
    <3>1. \A j \in 0 .. len - 2 : /\ (j \in i .. i + n - 1 <=> ~(j < i))
                                  /\ j - i + from = j + 1
      BY <1>1, <1>2, <2>2
    <3> QED BY <1>7, <2>2, <3>1
  <2> QED BY <2>1, <2>2
<1>9. Leaves(h, cells, m)
  <2>1. \A k \in Handles \ {h} : SameItems(store, k, store, k)
    BY DEF SameItems
  <2> QED BY <1>1, <1>2, <1>3, <1>6, <2>1, WriteLeaves
<1>10. i \in 0 .. len - 1 /\ h \in live
  BY <1>1, <1>2
<1>11. IF swaps THEN FilledIn(h, i) ELSE ClosedUp(h, i)
  <2>1. \A j \in 0 .. len - 2 : Item(store', h, j) = cells[j] /\ j \in Int /\ j + 1 \in Int
    BY <1>1, <1>3, <1>9 DEF Leaves
  <2>2. len - 1 \in Int
    BY <1>1
  <2> QED BY <1>4, <1>8, <2>1, <2>2 DEF FilledIn, ClosedUp
<1> QED BY <1>2, <1>3, <1>4, <1>9, <1>10, <1>11 DEF TakenOut, Leaves

LEMMA RemoveTakes ==
  ASSUME IInv, IInv', NEW h \in Handles, NEW i \in Nat
  PROVE  /\ Pop(h) => \E j \in Nat : j = LenOf(store, h) - 1 /\ TakenOut(h, j) /\ ClosedUp(h, j)
         /\ Remove(h, i) => TakenOut(h, i) /\ ClosedUp(h, i)
         /\ SwapRemove(h, i) => TakenOut(h, i) /\ FilledIn(h, i)
<1> DEFINE len == LenOf(store, h)
<1>1. len \in Nat /\ (Pop(h) \/ Remove(h, i) \/ SwapRemove(h, i) => h \in live)
  BY SoundLen, RawAssumption DEF IInv, Pop, Remove, SwapRemove
<1>2. ASSUME Pop(h)
      PROVE  \E j \in Nat : j = len - 1 /\ TakenOut(h, j) /\ ClosedUp(h, j)
  <2>1. TakeOut(h, len - 1, len, 0) /\ len > 0
    BY <1>2 DEF Pop
  <2> DEFINE at == len - 1
             none == 0
             no == FALSE
  <2>2. /\ at \in Nat /\ none \in Nat /\ at < len /\ none = len - 1 - at /\ at = len - 1
        /\ len = at + 1 /\ len + none <= len /\ TakeOut(h, at, len, none)
        /\ no \in BOOLEAN /\ ~no
    BY <1>1, <2>1
  <2> HIDE DEF at, none, no
  <2>3. TakenOut(h, at) /\ ClosedUp(h, at)
    BY <1>1, <1>2, <2>2, TakeOutTakes
  <2> QED BY <2>2, <2>3
<1>3. ASSUME Remove(h, i) PROVE TakenOut(h, i) /\ ClosedUp(h, i)
  <2> DEFINE from == i + 1
             n == len - 1 - i
             no == FALSE
  <2>1. TakeOut(h, i, from, n) /\ i < len
    BY <1>3 DEF Remove
  <2>2. /\ from \in Nat /\ n \in Nat /\ from + n <= len /\ from = i + 1 /\ n = len - 1 - i
        /\ no \in BOOLEAN /\ ~no
    BY <1>1, <2>1
  <2> HIDE DEF from, n, no
  <2>3. TakenOut(h, i) /\ ClosedUp(h, i)
    BY <1>1, <1>3, <2>1, <2>2, TakeOutTakes
  <2> QED BY <2>3
<1>4. ASSUME SwapRemove(h, i) PROVE TakenOut(h, i) /\ FilledIn(h, i)
  <2> DEFINE from == len - 1
             one == 1
             yes == TRUE
  <2>1. TakeOut(h, i, from, one) /\ i < len
    BY <1>4 DEF SwapRemove
  <2>2. /\ from \in Nat /\ one \in Nat /\ from + one <= len /\ from = len - 1 /\ one = 1
        /\ yes \in BOOLEAN /\ yes
    BY <1>1, <2>1
  <2> HIDE DEF from, one, yes
  <2>3. TakenOut(h, i) /\ FilledIn(h, i)
    BY <1>1, <1>4, <2>1, <2>2, TakeOutTakes
  <2> QED BY <2>3
<1> QED BY <1>2, <1>3, <1>4

(* h keeps its first n items and the others are dropped.                   *)
CutOff(h, n) ==
  /\ h \in live /\ live' = live /\ caller' = caller /\ n <= LenOf(store, h)
  /\ Leaves(h, Cells(store, h), n)
  /\ dropped' = dropped \cup ItemsFrom(Cells(store, h), n, LenOf(store, h))

LEMMA TruncateCuts ==
  ASSUME IInv, NEW h \in Handles, NEW n \in Nat
  PROVE  /\ Truncate(h, n) => CutOff(h, n)
         /\ Clear(h) => \E z \in Nat : z = 0 /\ CutOff(h, z)
<1>1. Sound(store) /\ LenOf(store, h) \in 0 .. MaxCap /\ LenOf(store, h) \in Nat
  BY SoundLen, RawAssumption DEF IInv
<1>2. ASSUME NEW m \in Nat, h \in live, m <= LenOf(store, h), CutTo(h, m)
      PROVE  CutOff(h, m)
  <2>1. /\ store' = Edited(store, h, Wipe(Cells(store, h), m, LenOf(store, h) - m), m)
        /\ live' = live /\ caller' = caller
        /\ dropped' = dropped \cup ItemsFrom(Cells(store, h), m, LenOf(store, h))
    BY <1>2 DEF CutTo, Item, ItemsFrom
  <2>2. /\ LenOf(store', h) = m /\ OthersKeep(h)
        /\ \A i \in 0 .. m - 1 : Item(store', h, i) = Item(store, h, i)
    BY <1>1, <1>2, <2>1, CutSound DEF OthersKeep
  <2> QED BY <1>2, <2>1, <2>2 DEF CutOff, Leaves, Item
<1>3. ASSUME Truncate(h, n) PROVE CutOff(h, n)
  BY <1>1, <1>2, <1>3 DEF Truncate
<1>4. ASSUME Clear(h) PROVE \E z \in Nat : z = 0 /\ CutOff(h, z)
  <2> DEFINE z == 0
  <2>1. z \in Nat /\ z = 0 /\ z <= LenOf(store, h) /\ CutTo(h, z) /\ h \in live
    BY <1>1, <1>4 DEF Clear
  <2> HIDE DEF z
  <2> QED BY <1>2, <2>1
<1> QED BY <1>3, <1>4

(* e, of the program, is in h at i, and the items from i on are one up.    *)
Entered(h, i, e) ==
  /\ h \in live /\ live' = live /\ dropped' = dropped
  /\ i \in 0 .. LenOf(store, h)
  /\ e \in caller /\ caller' = caller \ {e}
  /\ LenOf(store', h) = LenOf(store, h) + 1
  /\ \A j \in 0 .. LenOf(store, h) :
       Item(store', h, j) = IF j < i THEN Item(store, h, j)
                            ELSE IF j = i THEN e ELSE Item(store, h, j - 1)
  /\ OthersKeep(h)

(* The items of h in s, and e among them at i.                             *)
EntersAt(i, e, s, h, cells) ==
  \A j \in 0 .. LenOf(s, h) :
    cells[j] = IF j < i THEN Cells(s, h)[j] ELSE IF j = i THEN e ELSE Cells(s, h)[j - 1]

LEMMA WriteEnters ==
  ASSUME IInv', NEW h \in Handles, h \in live, live' = live, dropped' = dropped,
         NEW e \in caller, caller' = caller \ {e},
         NEW s, Sound(s), \A k \in Handles : SameItems(store, k, s, k),
         NEW cells \in Block, NEW i \in 0 .. LenOf(s, h), NEW n, n = LenOf(s, h) + 1,
         n <= MaxCap, store' = Edited(s, h, cells, n), EntersAt(i, e, s, h, cells)
  PROVE  Entered(h, i, e)
<1> DEFINE len == LenOf(store, h)
<1>1. /\ LenOf(s, h) = len /\ n = len + 1 /\ i \in 0 .. len
      /\ \A j \in 0 .. len - 1 : Cells(s, h)[j] = Item(store, h, j)
  BY DEF SameItems, Item
<1>2. len \in Nat /\ n \in 0 .. MaxCap
  <2>1. LenOf(s, h) \in 0 .. MaxCap
    BY SoundLen
  <2> QED BY <1>1, <2>1, RawAssumption
<1>3. Leaves(h, cells, n)
  BY <1>2, WriteLeaves
<1> HIDE DEF len
<1>4. ASSUME NEW j \in 0 .. len
      PROVE  Item(store', h, j) = IF j < i THEN Item(store, h, j)
                                  ELSE IF j = i THEN e ELSE Item(store, h, j - 1)
  <2>1. j \in 0 .. n - 1 /\ (j < i => j \in 0 .. len - 1)
        /\ (~(j < i) /\ j # i => j - 1 \in 0 .. len - 1)
    BY <1>1, <1>2
  <2>2. Item(store', h, j) = cells[j]
    BY <1>3, <2>1 DEF Leaves
  <2>3. cells[j] = IF j < i THEN Cells(s, h)[j] ELSE IF j = i THEN e ELSE Cells(s, h)[j - 1]
    BY <1>1 DEF EntersAt
  <2> QED BY <1>1, <2>1, <2>2, <2>3
<1> QED BY <1>1, <1>3, <1>4 DEF Entered, Leaves, len

LEMMA PushEnters ==
  ASSUME IInv, IInv', NEW h \in Handles, Push(h)
  PROVE  \E i \in Nat : i = LenOf(store, h) /\ \E e : Entered(h, i, e)
<1> DEFINE len   == LenOf(store, h)
           grown == IF len = Capacity(store, h) THEN Reserve(store, h, 1) ELSE {store}
<1>1. PICK e \in caller, s \in grown :
         /\ store' = Edited(s, h, [Cells(s, h) EXCEPT ![len] = e], len + 1)
         /\ caller' = caller \ {e}
  BY DEF Push
<1>2. /\ Sound(store) /\ e \in Elems /\ h \in live /\ live' = live /\ dropped' = dropped
  BY <1>1 DEF IInv, Push
<1>3. len \in Nat /\ len <= Capacity(store, h) /\ Capacity(store, h) \in Nat
  BY <1>2, SoundLen, RawAssumption
<1>4. /\ Sound(s) /\ (\A k \in Handles : SameItems(store, k, s, k))
      /\ LenOf(s, h) = len /\ len < Capacity(s, h)
  <2>1. CASE len = Capacity(store, h)
    <3>1. s \in Reserve(store, h, 1) /\ 1 \in Nat
      BY <1>1, <2>1
    <3>2. Resized(store, s, h) /\ Capacity(s, h) >= LenOf(s, h) + 1
      BY <1>2, <3>1, ReserveSound
    <3>3. LenOf(s, h) = len /\ Capacity(s, h) \in Nat
      BY <3>2, ResizedLen, SoundLen, RawAssumption DEF Resized
    <3> QED BY <1>3, <3>2, <3>3 DEF Resized
  <2>2. CASE len # Capacity(store, h)
    BY <1>1, <1>2, <1>3, <2>2 DEF SameItems
  <2> QED BY <2>1, <2>2
<1> DEFINE src == Cells(s, h)
           cells == [src EXCEPT ![len] = e]
           n == len + 1
<1>5. Capacity(s, h) \in 0 .. MaxCap /\ src \in Block
  BY <1>4, SoundLen
<1>6. /\ n \in Nat /\ n <= MaxCap /\ store' = Edited(s, h, cells, n) /\ n = LenOf(s, h) + 1
      /\ len \in 0 .. LenOf(s, h)
  BY <1>1, <1>3, <1>4, <1>5, RawAssumption
<1>7. cells \in Block /\ EntersAt(len, e, s, h, cells)
  <2>1. /\ \A j \in 0 .. len : j \in Slots /\ (j < len \/ j = len)
        /\ LenOf(s, h) = len
    BY <1>3, <1>4, <1>5, RawAssumption DEF Slots
  <2>2. e \in Cell
    BY <1>2 DEF Cell
  <2> HIDE DEF len
  <2> QED BY <1>3, <1>5, <2>1, <2>2 DEF Block, EntersAt
<1>8. caller' = caller \ {e} /\ len \in Nat
  BY <1>1, <1>3
<1>10. len = LenOf(store, h)
  OBVIOUS
<1> HIDE DEF cells, n, src, len, grown
<1>9. Entered(h, len, e)
  BY <1>2, <1>4, <1>6, <1>7, <1>8, WriteEnters
<1> QED BY <1>8, <1>9, <1>10

LEMMA InsertEnters ==
  ASSUME IInv, IInv', NEW h \in Handles, NEW i \in Nat, Insert(h, i)
  PROVE  \E e : Entered(h, i, e)
<1>1. PICK e \in caller, s \in Reserve(store, h, 1) :
         /\ store' = Edited(s, h, [Shift(Cells(s, h), i, i + 1, LenOf(s, h) - i) EXCEPT ![i] = e],
                            LenOf(s, h) + 1)
         /\ caller' = caller \ {e}
  BY DEF Insert
<1>2. /\ Sound(store) /\ e \in Elems /\ h \in live /\ live' = live /\ dropped' = dropped
      /\ i <= LenOf(store, h) /\ 1 \in Nat
  BY <1>1 DEF IInv, Insert
<1>3. Resized(store, s, h) /\ Capacity(s, h) >= LenOf(s, h) + 1
  BY <1>1, <1>2, ReserveSound
<1> DEFINE len   == LenOf(s, h)
           src   == Cells(s, h)
           n     == len - i
           up    == i + 1
           moved == Shift(src, i, up, n)
           cells == [moved EXCEPT ![i] = e]
           m     == len + 1
<1>4. /\ Sound(s) /\ (\A k \in Handles : SameItems(store, k, s, k)) /\ len \in Nat /\ i <= len
      /\ src \in Block /\ m <= MaxCap
  <2>1. Sound(s) /\ Capacity(s, h) \in 0 .. MaxCap /\ LenOf(s, h) = LenOf(store, h)
    BY <1>3, ResizedLen, SoundLen DEF Resized
  <2>2. len \in 0 .. MaxCap /\ src \in Block
    BY <2>1, SoundLen
  <2>3. len \in Nat /\ m <= MaxCap
    BY <1>3, <2>1, <2>2, RawAssumption
  <2> QED BY <1>2, <1>3, <2>1, <2>2, <2>3 DEF Resized
<1>5. store' = Edited(s, h, cells, m) /\ m = LenOf(s, h) + 1 /\ i \in 0 .. LenOf(s, h)
  BY <1>1, <1>4
<1>6. len = LenOf(s, h) /\ src = Cells(s, h) /\ m = len + 1
  OBVIOUS
<1> HIDE DEF len, src
<1>7. n \in Nat /\ i + n = len /\ up \in Nat /\ up = i + 1 /\ i + n <= MaxCap
  BY <1>4, RawAssumption
<1> HIDE DEF n, up, m
<1>8. moved \in Block /\ \A j \in Slots : moved[j] =
         IF j \in up .. up + n - 1 THEN src[j - up + i]
         ELSE IF j \in i .. i + n - 1 THEN Uninit ELSE src[j]
  BY <1>4, <1>7, ShiftType
<1> HIDE DEF moved
<1>9. i \in Slots /\ e \in Cell
  BY <1>2, <1>4, <1>6, RawAssumption DEF Slots, Cell
<1>10. cells \in Block /\ cells[i] = e /\ \A j \in Slots \ {i} : cells[j] = moved[j]
  BY <1>8, <1>9 DEF Block
<1> HIDE DEF cells
<1>11. ASSUME NEW j \in 0 .. len
       PROVE  cells[j] = IF j < i THEN src[j] ELSE IF j = i THEN e ELSE src[j - 1]
  <2>1. j \in Slots /\ j \in Int
    BY <1>4, <1>6, RawAssumption DEF Slots
  <2>2. CASE j = i
    BY <1>10, <2>2
  <2>3. CASE j < i
    BY <1>4, <1>7, <1>8, <1>10, <2>1, <2>3
  <2>4. CASE j > i
    <3>1. cells[j] = src[j - up + i] /\ j - up + i = j - 1
      BY <1>4, <1>7, <1>8, <1>10, <2>1, <2>4
    <3> QED BY <2>1, <2>4, <3>1
  <2> QED BY <2>1, <2>2, <2>3, <2>4
<1>12. EntersAt(i, e, s, h, cells)
  BY <1>6, <1>11 DEF EntersAt
<1>13. Entered(h, i, e)
  BY <1>1, <1>2, <1>4, <1>5, <1>10, <1>12, WriteEnters
<1> QED BY <1>13

(* The items of k are behind those of h, and k has none left.              *)
Appended(h, k) ==
  /\ {h, k} \subseteq live /\ h # k
  /\ live' = live /\ caller' = caller /\ dropped' = dropped
  /\ LenOf(store', h) = LenOf(store, h) + LenOf(store, k)
  /\ \A i \in 0 .. LenOf(store, h) + LenOf(store, k) - 1 :
       Item(store', h, i) = IF i < LenOf(store, h) THEN Item(store, h, i)
                            ELSE Item(store, k, i - LenOf(store, h))
  /\ LenOf(store', k) = 0
  /\ \A a \in Handles \ {h, k} : SameItems(store, a, store', a)

LEMMA AppendAppends ==
  ASSUME IInv, IInv', NEW h \in Handles, NEW k \in Handles, AppendCall(h, k)
  PROVE  Appended(h, k)
<1> DEFINE len   == LenOf(store, h)
           other == LenOf(store, k)
           grown == IF len + other > Capacity(store, h) THEN Reserve(store, h, other)
                    ELSE {store}
<1>1. PICK s \in grown :
         store' = Edited(Edited(s, k, Wipe(Cells(s, k), 0, other), 0), h,
                         Copy(Cells(s, k), 0, Cells(s, h), len, other), len + other)
  BY DEF AppendCall
<1>2. /\ {h, k} \subseteq live /\ h # k /\ live' = live /\ caller' = caller
      /\ dropped' = dropped /\ Sound(store)
  BY DEF AppendCall, IInv
<1>3. len \in Nat /\ other \in Nat /\ Capacity(store, h) \in Nat
  BY <1>2, SoundLen, RawAssumption
<1>4. /\ Sound(s) /\ LenOf(s, h) = len /\ LenOf(s, k) = other /\ len + other <= Capacity(s, h)
      /\ \A a \in Handles : SameItems(store, a, s, a)
  <2>1. CASE len + other > Capacity(store, h)
    <3>1. Resized(store, s, h) /\ Capacity(s, h) >= LenOf(s, h) + other
      BY <1>1, <1>2, <1>3, <2>1, ReserveSound
    <3>2. /\ LenOf(s, h) = len /\ LenOf(s, k) = other /\ Sound(s)
          /\ \A a \in Handles : SameItems(store, a, s, a)
      BY <3>1, ResizedLen DEF Resized
    <3>3. Capacity(s, h) \in Nat
      BY <3>2, SoundLen, RawAssumption
    <3> QED BY <1>3, <3>1, <3>2, <3>3
  <2>2. CASE ~(len + other > Capacity(store, h))
    BY <1>1, <1>2, <1>3, <2>2 DEF SameItems
  <2> QED BY <2>1, <2>2
<1>5. (\A i \in 0 .. len - 1 : Cells(s, h)[i] = Item(store, h, i))
      /\ \A i \in 0 .. other - 1 : Cells(s, k)[i] = Item(store, k, i)
  BY <1>4 DEF SameItems, Item
<1> HIDE DEF grown
<1> DEFINE src   == Cells(s, k)
           dst   == Cells(s, h)
           zero  == 0
           cut   == Edited(s, k, Wipe(src, zero, other), zero)
           cells == Copy(src, zero, dst, len, other)
           total == len + other
<1>6. store' = Edited(cut, h, cells, total) /\ zero = 0 /\ zero \in Nat
  BY <1>1
<1> HIDE DEF len, other
<1>7. /\ src \in Block /\ dst \in Block /\ Capacity(s, h) \in 0 .. MaxCap /\ other <= MaxCap
      /\ total \in 0 .. MaxCap /\ total = len + other
      /\ (\A j \in 0 .. other - 1 : src[j] \in Elems)
      /\ \A j \in 0 .. len - 1 : dst[j] \in Elems
  BY <1>3, <1>4, SoundLen, RawAssumption DEF Sound, Initialised, Item
<1> HIDE DEF zero, src, dst, total
<1>8. /\ Sound(cut) /\ LenOf(cut, k) = 0
      /\ \A a \in Handles \ {k} : SameItems(s, a, cut, a)
  <2> DEFINE rest == other - zero
  <2>1. cut = Edited(s, k, Wipe(Cells(s, k), zero, rest), zero) /\ rest = LenOf(s, k) - zero
    <3>1. rest = other
      BY <1>3, <1>6
    <3> QED BY <1>4, <3>1 DEF src
  <2>2. zero <= LenOf(s, k)
    BY <1>3, <1>4, <1>6
  <2> HIDE DEF cut, rest
  <2> QED BY <1>4, <1>6, <2>1, <2>2, CutSound
<1>9. cells \in Block /\ \A j \in 0 .. total - 1 :
         cells[j] = IF j < len THEN dst[j] ELSE src[j - len]
  <2>1. zero + other <= MaxCap /\ len + other <= MaxCap
        /\ \A j \in zero .. zero + other - 1 : src[j] \in Elems
    BY <1>3, <1>6, <1>7, RawAssumption
  <2>2. /\ src \in Block /\ dst \in Block /\ len \in Nat /\ other \in Nat /\ zero \in Nat
        /\ \A j \in 0 .. len - 1 : dst[j] \in Elems
    BY <1>3, <1>6, <1>7
  <2> HIDE DEF cut
  <2>3. /\ cells \in Block
        /\ \A j \in 0 .. len + other - 1 :
             cells[j] = (IF j < len THEN dst[j] ELSE src[j - len + zero]) /\ cells[j] \in Elems
    BY <2>1, <2>2, AppendedType
  <2> HIDE DEF cells
  <2>4. \A j \in 0 .. total - 1 : j \in 0 .. len + other - 1 /\ j - len + zero = j - len
    BY <1>3, <1>6, <1>7
  <2> QED BY <2>3, <2>4
<1> HIDE DEF cut, cells
<1>10. /\ LenOf(store', h) = total /\ Cells(store', h) = cells
       /\ \A a \in Handles \ {h} : SameItems(cut, a, store', a)
  <2>1. Sound(store')
    BY DEF IInv
  <2> QED BY <1>6, <1>7, <1>8, <1>9, <2>1, WriteItems
<1>11. LenOf(store', k) = 0
  BY <1>2, <1>8, <1>10 DEF SameItems
<1>12. \A a \in Handles \ {h, k} : SameItems(store, a, store', a)
  <2>1. \A a \in Handles \ {h, k} : SameItems(s, a, store', a)
    BY <1>8, <1>10, SameItemsCompose
  <2> QED BY <1>4, <2>1, SameItemsCompose
<1>13. ASSUME NEW i \in 0 .. len + other - 1
       PROVE  Item(store', h, i) = IF i < len THEN Item(store, h, i) ELSE Item(store, k, i - len)
  <2>1. i \in 0 .. total - 1 /\ (i < len => i \in 0 .. len - 1)
        /\ (~(i < len) => i - len \in 0 .. other - 1)
    BY <1>3, <1>7
  <2>2. Item(store', h, i) = IF i < len THEN dst[i] ELSE src[i - len]
    BY <1>9, <1>10, <2>1 DEF Item
  <2> QED BY <1>5, <2>1, <2>2 DEF src, dst
<1>14. len = LenOf(store, h) /\ other = LenOf(store, k) /\ total = len + other
  BY DEF len, other, total
<1> QED BY <1>2, <1>10, <1>11, <1>12, <1>13, <1>14 DEF Appended

(* The items of h from at on are those of k, which was not live.           *)
Divided(h, k, at) ==
  /\ h \in live /\ h # k /\ k \notin live /\ live' = live \cup {k}
  /\ caller' = caller /\ dropped' = dropped
  /\ at <= LenOf(store, h)
  /\ LenOf(store', h) = at
  /\ \A i \in 0 .. at - 1 : Item(store', h, i) = Item(store, h, i)
  /\ LenOf(store', k) = LenOf(store, h) - at
  /\ \A i \in 0 .. LenOf(store, h) - at - 1 : Item(store', k, i) = Item(store, h, i + at)
  /\ \A a \in Handles \ {h, k} : SameItems(store, a, store', a)

LEMMA SplitOffDivides ==
  ASSUME IInv, IInv', NEW h \in Handles, NEW k \in Handles, NEW at \in Nat, SplitOff(h, k, at)
  PROVE  Divided(h, k, at)
<1> DEFINE len  == LenOf(store, h)
           tail == len - at
<1>1. PICK s \in WithCapacity(store, k, tail) :
         store' = Edited(Edited(s, h, Wipe(Cells(s, h), at, tail), at), k,
                         Copy(Cells(s, h), at, Cells(s, k), 0, tail), tail)
  BY DEF SplitOff
<1>2. /\ h \in live /\ h # k /\ at <= len /\ k \notin live /\ live' = live \cup {k}
      /\ caller' = caller /\ dropped' = dropped /\ Sound(store) /\ Sound(store')
  BY DEF SplitOff, Construct, SmallVecs, IInv
<1>3. len \in Nat /\ len <= MaxCap /\ tail \in Nat /\ at + tail = len
  <2>1. len \in 0 .. MaxCap
    BY <1>2, SoundLen
  <2> QED BY <1>2, <2>1, RawAssumption
<1> HIDE DEF tail
<1>4. /\ Sound(s) /\ tail <= Capacity(s, k) /\ LenOf(s, h) = len
      /\ \A a \in Handles \ {k} : SameItems(store, a, s, a)
  <2>1. /\ Sound(s) /\ Capacity(s, k) >= tail
        /\ \A a \in Handles \ {k} : SameItems(store, a, s, a)
    BY <1>1, <1>2, <1>3, WithCapacitySound
  <2>2. Capacity(s, k) \in Nat /\ SameItems(store, h, s, h)
    BY <1>2, <2>1, SoundLen, RawAssumption
  <2> QED BY <1>3, <2>1, <2>2 DEF SameItems
<1>5. \A i \in 0 .. len - 1 : Cells(s, h)[i] = Item(store, h, i)
  BY <1>2, <1>4 DEF SameItems, Item
<1> HIDE DEF len
<1> DEFINE src   == Cells(s, h)
           dst   == Cells(s, k)
           zero  == 0
           cut   == Edited(s, h, Wipe(src, at, tail), at)
           cells == Copy(src, at, dst, zero, tail)
<1>6. store' = Edited(cut, k, cells, tail) /\ zero = 0 /\ zero \in Nat
  BY <1>1
<1>7. /\ src \in Block /\ dst \in Block
      /\ \A j \in 0 .. len - 1 : src[j] \in Elems
  BY <1>4, SoundLen DEF Sound, Initialised, Item
<1>8. /\ Sound(cut) /\ LenOf(cut, h) = at
      /\ (\A a \in Handles \ {h} : SameItems(s, a, cut, a))
      /\ \A i \in 0 .. at - 1 : Item(cut, h, i) = Item(s, h, i)
  <2> DEFINE rest == len - at
  <2>1. cut = Edited(s, h, Wipe(Cells(s, h), at, rest), at) /\ rest = LenOf(s, h) - at
    <3>1. rest = tail
      BY <1>3
    <3> QED BY <1>4, <3>1
  <2>2. at <= LenOf(s, h)
    BY <1>3, <1>4
  <2> HIDE DEF cut, rest
  <2> QED BY <1>4, <2>1, <2>2, CutSound
<1> HIDE DEF zero, src, dst, cut
<1>9. cells \in Block /\ \A j \in 0 .. tail - 1 : cells[j] = src[j + at]
  <2>1. at + tail <= MaxCap /\ zero + tail <= MaxCap
        /\ (\A j \in at .. at + tail - 1 : src[j] \in Elems)
        /\ \A j \in 0 .. zero - 1 : dst[j] \in Elems
    BY <1>3, <1>6, <1>7, RawAssumption
  <2>2. /\ cells \in Block
        /\ \A j \in 0 .. zero + tail - 1 :
             cells[j] = IF j < zero THEN dst[j] ELSE src[j - zero + at]
    BY <1>3, <1>6, <1>7, <2>1, AppendedType
  <2> HIDE DEF cells
  <2> QED BY <1>3, <1>6, <2>2
<1>10. at \in 0 .. MaxCap /\ tail \in 0 .. MaxCap
  BY <1>3, RawAssumption
<1> HIDE DEF cells
<1>11. /\ LenOf(store', k) = tail /\ Cells(store', k) = cells
       /\ \A a \in Handles \ {k} : SameItems(cut, a, store', a)
  BY <1>2, <1>6, <1>8, <1>9, <1>10, WriteItems
<1>12. \A a \in Handles \ {h, k} : SameItems(store, a, store', a)
  <2>1. \A a \in Handles \ {h, k} : SameItems(s, a, store', a)
    BY <1>8, <1>11, SameItemsCompose
  <2> QED BY <1>4, <2>1, SameItemsCompose
<1>13. /\ LenOf(store', h) = at
       /\ \A i \in 0 .. at - 1 : Item(store', h, i) = Item(store, h, i)
  <2>1. SameItems(cut, h, store', h) /\ \A i \in 0 .. at - 1 : i \in 0 .. len - 1
    BY <1>2, <1>3, <1>11
  <2> QED BY <1>5, <1>8, <2>1 DEF SameItems, Item
<1>14. \A i \in 0 .. tail - 1 : Item(store', k, i) = Item(store, h, i + at)
  <2>1. \A i \in 0 .. tail - 1 : i + at \in 0 .. len - 1
    BY <1>3
  <2> QED BY <1>5, <1>9, <1>11, <2>1 DEF Item, src
<1>15. tail = LenOf(store, h) - at /\ len = LenOf(store, h)
  BY DEF tail, len
<1> QED BY <1>2, <1>11, <1>12, <1>13, <1>14, <1>15 DEF Divided

(* The capacity calls move every item and lose none.                       *)
Stays ==
  /\ live' = live /\ caller' = caller /\ dropped' = dropped
  /\ \A k \in Handles : SameItems(store, k, store', k)

LEMMA CapacityMoves ==
  ASSUME IInv, NEW h \in Handles, NEW n \in Nat,
         \/ ReserveCall(h, n) \/ ReserveExactCall(h, n) \/ GrowCall(h, n)
         \/ ShrinkToFitCall(h) \/ ShrinkToCall(h, n)
  PROVE  Stays
<1>1. Sound(store)
  BY DEF IInv
<1>2. live' = live /\ caller' = caller /\ dropped' = dropped
  BY DEF ReserveCall, ReserveExactCall, GrowCall, ShrinkToFitCall, ShrinkToCall, Resize
<1>3. Resized(store, store', h)
  <2>1. CASE ReserveCall(h, n) \/ ReserveExactCall(h, n)
    BY <1>1, <2>1, ReserveSound, ReserveExactSound DEF ReserveCall, ReserveExactCall, Resize
  <2>2. CASE GrowCall(h, n)
    <3>1. LenOf(store, h) <= n
      BY <1>1, <2>2, LenType DEF GrowCall, Sound
    <3> QED BY <1>1, <2>2, <3>1, TryGrowSound DEF GrowCall, Resize
  <2>3. CASE ShrinkToFitCall(h) \/ ShrinkToCall(h, n)
    BY <1>1, <2>3, ShrinkToFitSound, ShrinkToSound DEF ShrinkToFitCall, ShrinkToCall, Resize
  <2> QED BY <2>1, <2>2, <2>3
<1> QED BY <1>2, <1>3 DEF Stays, Resized

----------------------------------------------------------------------------
(* Each of these accounts for every element.                               *)

(* A call on one vector.                                                   *)
LEMMA OneMoves ==
  ASSUME NEW E, Own(store, caller, dropped, E), DeadEmpty(store, live), NEW h \in Handles,
         \A k \in Handles \ {h} : SameItems(store, k, store', k),
         Distinct(store', h), Owned(store', h) \cap (caller' \cup dropped') = {},
         caller' \cap dropped' = {},
         Owned(store', h) \cup caller' \cup dropped' = Owned(store, h) \cup caller \cup dropped,
         live \subseteq live' \cup {h}, h \in live' \/ LenOf(store', h) = 0
  PROVE  OwnAfter(E)
<1>1. Exchange(store, caller, dropped, store', caller', dropped', h)
  BY DEF Exchange
<1>2. Own(store', caller', dropped', E) /\ DeadEmpty(store', live')
  BY <1>1, MoveOne
<1> QED BY <1>2 DEF OwnAfter

(* A new vector.                                                           *)
LEMMA MadeOwns ==
  ASSUME NEW E, OInv(E), NEW h \in Handles, NEW n \in Nat, NEW k \in Nat, NEW f, Made(h, n, k, f)
  PROVE  OwnAfter(E)
<1> DEFINE rest == {f[i] : i \in n .. k - 1}
<1>1. /\ Own(store, caller, dropped, E) /\ DeadEmpty(store, live) /\ n <= k /\ f \in Arrays(k)
      /\ h \notin live /\ live' = live \cup {h} /\ LenOf(store', h) = n
      /\ (\A i \in 0 .. n - 1 : Item(store', h, i) = f[i])
      /\ (\A a \in Handles \ {h} : SameItems(store, a, store', a))
      /\ caller' = caller \ Taken(f, k) /\ dropped' = dropped \cup rest
  BY DEF OInv, Made, Leaves, OthersKeep
<1>2. Owned(store', h) = Taken(f, n) /\ Distinct(store', h)
  BY <1>1 DEF Owned, Taken, Distinct, Arrays
<1>3. Taken(f, n) \cup rest = Taken(f, k) /\ Taken(f, n) \cap rest = {} /\ Taken(f, k) \subseteq caller
  BY <1>1, TakenParts, ArrayFacts DEF OInv, IInv
<1>4. Owned(store, h) = {}
  BY <1>1, EmptyOwns DEF DeadEmpty
<1> HIDE DEF rest
<1>5. /\ Owned(store', h) \cap (caller' \cup dropped') = {} /\ caller' \cap dropped' = {}
      /\ Owned(store', h) \cup caller' \cup dropped' = Owned(store, h) \cup caller \cup dropped
  BY <1>1, <1>2, <1>3, <1>4 DEF Own
<1> QED BY <1>1, <1>2, <1>5, OneMoves

(* Arguments that are dropped.                                             *)
LEMMA RejectedOwns ==
  ASSUME NEW E, OInv(E), NEW lost, Rejected(lost)
  PROVE  OwnAfter(E)
<1>1. caller' \cap dropped' = {} /\ caller' \cup dropped' = caller \cup dropped
  BY DEF OInv, Own, Rejected
<1> QED BY <1>1 DEF OwnAfter, OInv, Own, DeadEmpty, Rejected

(* Contents that change hands.                                             *)
LEMMA PassedOwns ==
  ASSUME NEW E, OInv(E), NEW a \in Handles, NEW b \in Handles, Passed(a, b)
  PROVE  OwnAfter(E)
<1>1. /\ Own(store, caller, dropped, E) /\ DeadEmpty(store, live)
      /\ a # b /\ b \notin live /\ live' = (live \ {a}) \cup {b}
      /\ SameItems(store, a, store', b) /\ LenOf(store', a) = 0
      /\ (\A k \in Handles \ {a, b} : SameItems(store, k, store', k))
      /\ caller' = caller /\ dropped' = dropped
  BY DEF OInv, Passed
<1>2. /\ Owned(store', b) = Owned(store, a) /\ Distinct(store', b)
      /\ Owned(store', a) = {} /\ Distinct(store', a) /\ Owned(store, b) = {}
  BY <1>1, SameOwned, EmptyOwns DEF Own, DeadEmpty
<1>3. /\ Owned(store', a) \cap Owned(store', b) = {}
      /\ Owned(store', a) \cup Owned(store', b) = Owned(store, a) \cup Owned(store, b)
      /\ live \subseteq live' \cup {a, b} /\ b \in live'
  BY <1>1, <1>2
<1>4. Own(store', caller, dropped, E) /\ DeadEmpty(store', live')
  BY <1>1, <1>2, <1>3, MoveTwo
<1> QED BY <1>1, <1>4 DEF OwnAfter

(* Ends of life.                                                           *)
LEMMA ClosedOwns ==
  ASSUME NEW E, OInv(E), NEW h \in Handles, Closed(h)
  PROVE  OwnAfter(E)
<1>1. /\ Own(store, caller, dropped, E) /\ DeadEmpty(store, live)
      /\ LenOf(store', h) = 0 /\ (\A k \in Handles \ {h} : SameItems(store, k, store', k))
      /\ live \subseteq live' \cup {h}
  BY DEF OInv, Closed, GivenBack, Destroyed, VectorGone, OthersKeep
<1>2. Owned(store', h) = {} /\ Distinct(store', h)
  BY <1>1, EmptyOwns
<1>3. /\ Owned(store', h) \cap (caller' \cup dropped') = {} /\ caller' \cap dropped' = {}
      /\ Owned(store', h) \cup caller' \cup dropped' = Owned(store, h) \cup caller \cup dropped
  BY <1>1, <1>2 DEF Own, Closed, GivenBack, Destroyed, VectorGone
<1> QED BY <1>1, <1>2, <1>3, OneMoves

(* One item that leaves.                                                   *)
LEMMA TakenOwns ==
  ASSUME NEW E, OInv(E), NEW h \in Handles, NEW i \in Nat, TakenOut(h, i)
  PROVE  OwnAfter(E)
<1> DEFINE len   == LenOf(store, h)
           src   == Cells(store, h)
           cells == Cells(store', h)
           m     == len - 1
<1>1. /\ Own(store, caller, dropped, E) /\ DeadEmpty(store, live) /\ len \in Nat
      /\ h \in live' /\ live' = live /\ dropped' = dropped /\ i \in 0 .. len - 1
      /\ caller' = caller \cup {src[i]} /\ LenOf(store', h) = m /\ m = len - 1
      /\ \A k \in Handles \ {h} : SameItems(store, k, store', k)
  BY SoundLen, RawAssumption DEF OInv, IInv, TakenOut, OthersKeep, Item
<1>2. /\ Owned(store, h) = ItemsOf(src, len) /\ AllDistinct(src, len)
      /\ Owned(store', h) = ItemsOf(cells, m) /\ (Distinct(store', h) <=> AllDistinct(cells, m))
  BY <1>1, OwnedItems DEF Own
<1>3. \/ \A j \in 0 .. len - 2 : cells[j] = IF j < i THEN src[j] ELSE src[j + 1]
      \/ \A j \in 0 .. len - 2 : cells[j] = IF j = i THEN src[len - 1] ELSE src[j]
  BY DEF TakenOut, ClosedUp, FilledIn, Item
<1> HIDE DEF len, src, cells, m
<1>4. \E f : Reindexes(f, src, len, i, cells)
  <2>1. CASE \A j \in 0 .. len - 2 : cells[j] = IF j < i THEN src[j] ELSE src[j + 1]
    <3> DEFINE f == [j \in 0 .. len - 2 |-> IF j < i THEN j ELSE j + 1]
    <3>1. \A j \in 0 .. len - 2 : f[j] \in 0 .. len - 1 /\ f[j] # i /\ cells[j] = src[f[j]]
      BY <1>1, <2>1
    <3>2. \A j, l \in 0 .. len - 2 : f[j] = f[l] => j = l
      BY <1>1
    <3>3. ASSUME NEW l \in (0 .. len - 1) \ {i} PROVE \E j \in 0 .. len - 2 : f[j] = l
      <4>1. CASE l < i
        <5>1. l \in 0 .. len - 2 /\ f[l] = l
          BY <1>1, <4>1
        <5> QED BY <5>1
      <4>2. CASE ~(l < i)
        <5>1. l - 1 \in 0 .. len - 2 /\ f[l - 1] = l
          BY <1>1, <4>2
        <5> QED BY <5>1
      <4> QED BY <4>1, <4>2
    <3> HIDE DEF f
    <3>4. Reindexes(f, src, len, i, cells)
      BY <3>1, <3>2, <3>3 DEF Reindexes
    <3> QED BY <3>4
  <2>2. CASE \A j \in 0 .. len - 2 : cells[j] = IF j = i THEN src[len - 1] ELSE src[j]
    <3> DEFINE f == [j \in 0 .. len - 2 |-> IF j = i THEN len - 1 ELSE j]
    <3>1. \A j \in 0 .. len - 2 : f[j] \in 0 .. len - 1 /\ f[j] # i /\ cells[j] = src[f[j]]
      BY <1>1, <2>2
    <3>2. \A j, l \in 0 .. len - 2 : f[j] = f[l] => j = l
      BY <1>1
    <3>3. ASSUME NEW l \in (0 .. len - 1) \ {i} PROVE \E j \in 0 .. len - 2 : f[j] = l
      <4>1. CASE l = len - 1
        <5>1. i \in 0 .. len - 2 /\ f[i] = l
          BY <1>1, <4>1
        <5> QED BY <5>1
      <4>2. CASE l # len - 1
        <5>1. l \in 0 .. len - 2 /\ f[l] = l
          BY <1>1, <4>2
        <5> QED BY <5>1
      <4> QED BY <4>1, <4>2
    <3> HIDE DEF f
    <3>4. Reindexes(f, src, len, i, cells)
      BY <3>1, <3>2, <3>3 DEF Reindexes
    <3> QED BY <3>4
  <2> QED BY <1>3, <2>1, <2>2
<1>5. AllDistinct(cells, m) /\ ItemsOf(cells, m) = ItemsOf(src, len) \ {src[i]}
  BY <1>1, <1>2, <1>4, Reindexed
<1>6. src[i] \in Owned(store, h)
  BY <1>1, <1>2 DEF ItemsOf
<1>7. /\ Owned(store', h) \cap (caller' \cup dropped') = {} /\ caller' \cap dropped' = {}
      /\ Owned(store', h) \cup caller' \cup dropped' = Owned(store, h) \cup caller \cup dropped
  BY <1>1, <1>2, <1>5, <1>6 DEF Own
<1> QED BY <1>1, <1>2, <1>5, <1>7, OneMoves

(* A tail that is dropped.                                                 *)
LEMMA CutOffOwns ==
  ASSUME NEW E, OInv(E), NEW h \in Handles, NEW n \in Nat, CutOff(h, n)
  PROVE  OwnAfter(E)
<1> DEFINE len  == LenOf(store, h)
           src  == Cells(store, h)
           low  == Cells(store', h)
           gone == ItemsFrom(src, n, len)
<1>1. /\ Own(store, caller, dropped, E) /\ DeadEmpty(store, live) /\ len \in Nat /\ n <= len
      /\ h \in live' /\ live' = live /\ caller' = caller /\ dropped' = dropped \cup gone
      /\ LenOf(store', h) = n /\ (\A i \in 0 .. n - 1 : low[i] = src[i])
      /\ \A k \in Handles \ {h} : SameItems(store, k, store', k)
  BY SoundLen, RawAssumption DEF OInv, IInv, CutOff, Leaves, OthersKeep, Item
<1>2. /\ Owned(store, h) = ItemsOf(src, len) /\ AllDistinct(src, len)
      /\ Owned(store', h) = ItemsOf(low, n) /\ (Distinct(store', h) <=> AllDistinct(low, n))
  BY <1>1, OwnedItems DEF Own
<1> HIDE DEF len, src, low
<1>3. /\ AllDistinct(low, n) /\ ItemsOf(low, n) \cap gone = {}
      /\ ItemsOf(low, n) \cup gone = ItemsOf(src, len)
  BY <1>1, <1>2, Split
<1> HIDE DEF gone
<1>4. /\ Owned(store', h) \cap (caller' \cup dropped') = {} /\ caller' \cap dropped' = {}
      /\ Owned(store', h) \cup caller' \cup dropped' = Owned(store, h) \cup caller \cup dropped
  BY <1>1, <1>2, <1>3 DEF Own
<1> QED BY <1>1, <1>2, <1>3, <1>4, OneMoves

(* One element that enters.                                                *)
LEMMA EnteredOwns ==
  ASSUME NEW E, OInv(E), NEW h \in Handles, NEW i \in Nat, NEW e, Entered(h, i, e)
  PROVE  OwnAfter(E)
<1> DEFINE len   == LenOf(store, h)
           src   == Cells(store, h)
           cells == Cells(store', h)
           n     == len + 1
<1>1. /\ Own(store, caller, dropped, E) /\ DeadEmpty(store, live) /\ len \in Nat
      /\ h \in live' /\ live' = live /\ dropped' = dropped /\ i \in 0 .. len
      /\ e \in caller /\ caller' = caller \ {e} /\ LenOf(store', h) = n /\ n = len + 1
      /\ (\A j \in 0 .. len :
            cells[j] = IF j < i THEN src[j] ELSE IF j = i THEN e ELSE src[j - 1])
      /\ \A k \in Handles \ {h} : SameItems(store, k, store', k)
  BY SoundLen, RawAssumption DEF OInv, IInv, Entered, OthersKeep, Item
<1>2. /\ Owned(store, h) = ItemsOf(src, len) /\ AllDistinct(src, len)
      /\ Owned(store', h) = ItemsOf(cells, n) /\ (Distinct(store', h) <=> AllDistinct(cells, n))
  BY <1>1, OwnedItems DEF Own
<1> HIDE DEF len, src, cells, n
<1>3. AllDistinct(cells, n) /\ ItemsOf(cells, n) = ItemsOf(src, len) \cup {e}
  <2>1. e \notin ItemsOf(src, len)
    BY <1>1, <1>2 DEF Own
  <2>2. len \in Nat /\ i \in 0 .. len /\ AllDistinct(src, len) /\ n = len + 1
    BY <1>1, <1>2
  <2>3. \A j \in 0 .. len :
          cells[j] = IF j < i THEN src[j] ELSE IF j = i THEN e ELSE src[j - 1]
    BY <1>1
  <2> QED BY <2>1, <2>2, <2>3, Inserted
<1>4. /\ Owned(store', h) \cap (caller' \cup dropped') = {} /\ caller' \cap dropped' = {}
      /\ Owned(store', h) \cup caller' \cup dropped' = Owned(store, h) \cup caller \cup dropped
  BY <1>1, <1>2, <1>3 DEF Own
<1> QED BY <1>1, <1>2, <1>3, <1>4, OneMoves

(* A call that moves elements from one vector to another.                  *)
LEMMA TwoMove ==
  ASSUME NEW E, OInv(E), NEW h \in Handles, NEW k \in Handles, h # k,
         caller' = caller, dropped' = dropped,
         \A a \in Handles \ {h, k} : SameItems(store, a, store', a),
         Distinct(store', h), Distinct(store', k),
         Owned(store', h) \cap Owned(store', k) = {},
         Owned(store', h) \cup Owned(store', k) = Owned(store, h) \cup Owned(store, k),
         live \subseteq live', h \in live', k \in live'
  PROVE  OwnAfter(E)
<1>1. Own(store, caller, dropped, E) /\ DeadEmpty(store, live) /\ live \subseteq live' \cup {h, k}
  BY DEF OInv
<1>2. Own(store', caller, dropped, E) /\ DeadEmpty(store', live')
  BY <1>1, MoveTwo
<1> QED BY <1>2 DEF OwnAfter

(* The items of k go behind those of h.                                    *)
LEMMA AppendedOwns ==
  ASSUME NEW E, OInv(E), NEW h \in Handles, NEW k \in Handles, Appended(h, k)
  PROVE  OwnAfter(E)
<1> DEFINE len   == LenOf(store, h)
           other == LenOf(store, k)
           src   == Cells(store, k)
           dst   == Cells(store, h)
           cells == Cells(store', h)
           total == len + other
<1>1. /\ Own(store, caller, dropped, E) /\ len \in Nat /\ other \in Nat
      /\ h # k /\ h \in live' /\ k \in live' /\ live' = live /\ caller' = caller
      /\ dropped' = dropped /\ LenOf(store', h) = total /\ total = len + other
      /\ LenOf(store', k) = 0
      /\ \A a \in Handles \ {h, k} : SameItems(store, a, store', a)
  BY SoundLen, RawAssumption DEF OInv, IInv, Appended
<1>2. \A j \in 0 .. total - 1 : cells[j] = IF j < len THEN dst[j] ELSE src[j - len]
  <2>1. \A j \in 0 .. total - 1 :
          Item(store', h, j) = IF j < len THEN Item(store, h, j) ELSE Item(store, k, j - len)
    BY <1>1 DEF Appended
  <2> HIDE DEF len, other
  <2> QED BY <2>1 DEF Item
<1>3. /\ Owned(store, k) = ItemsOf(src, other) /\ AllDistinct(src, other)
      /\ Owned(store, h) = ItemsOf(dst, len) /\ AllDistinct(dst, len)
      /\ ItemsOf(dst, len) \cap ItemsOf(src, other) = {}
      /\ Owned(store', h) = ItemsOf(cells, total)
      /\ (Distinct(store', h) <=> AllDistinct(cells, total))
  <2>1. Owned(store, h) \cap Owned(store, k) = {} /\ Distinct(store, h) /\ Distinct(store, k)
    BY <1>1 DEF Own
  <2> QED BY <1>1, <2>1, OwnedItems
<1>4. Owned(store', k) = {} /\ Distinct(store', k)
  BY <1>1, EmptyOwns
<1> HIDE DEF len, other, src, dst, cells, total
<1>5. AllDistinct(cells, total) /\ ItemsOf(cells, total) = ItemsOf(dst, len) \cup ItemsOf(src, other)
  BY <1>1, <1>2, <1>3, Joined
<1>6. /\ Owned(store', h) \cap Owned(store', k) = {} /\ live \subseteq live'
      /\ Owned(store', h) \cup Owned(store', k) = Owned(store, h) \cup Owned(store, k)
  BY <1>1, <1>3, <1>4, <1>5
<1> QED BY <1>1, <1>3, <1>4, <1>5, <1>6, TwoMove

(* The items of h from at on become those of k.                            *)
LEMMA DividedOwns ==
  ASSUME NEW E, OInv(E), NEW h \in Handles, NEW k \in Handles, NEW at \in Nat, Divided(h, k, at)
  PROVE  OwnAfter(E)
<1> DEFINE len  == LenOf(store, h)
           tail == len - at
           src  == Cells(store, h)
           low  == Cells(store', h)
           high == Cells(store', k)
           gone == ItemsFrom(src, at, len)
<1>1. /\ Own(store, caller, dropped, E) /\ DeadEmpty(store, live) /\ len \in Nat
      /\ h # k /\ k \notin live /\ h \in live' /\ k \in live' /\ live \subseteq live'
      /\ caller' = caller /\ dropped' = dropped /\ at <= len
      /\ LenOf(store', h) = at /\ LenOf(store', k) = tail
      /\ \A a \in Handles \ {h, k} : SameItems(store, a, store', a)
  BY SoundLen, RawAssumption DEF OInv, IInv, Divided
<1>2. /\ (\A i \in 0 .. at - 1 : low[i] = src[i]) /\ \A i \in 0 .. tail - 1 : high[i] = src[i + at]
  BY DEF Divided, Item
<1>3. tail \in Nat /\ at + tail = len
  BY <1>1
<1>4. /\ Owned(store, h) = ItemsOf(src, len) /\ AllDistinct(src, len) /\ Owned(store, k) = {}
      /\ Owned(store', h) = ItemsOf(low, at) /\ (Distinct(store', h) <=> AllDistinct(low, at))
      /\ Owned(store', k) = ItemsOf(high, tail) /\ (Distinct(store', k) <=> AllDistinct(high, tail))
  BY <1>1, OwnedItems, EmptyOwns DEF Own, DeadEmpty
<1> HIDE DEF len, src, low, high, tail
<1>5. /\ AllDistinct(low, at) /\ ItemsOf(low, at) \cap gone = {}
      /\ ItemsOf(low, at) \cup gone = ItemsOf(src, len)
  BY <1>1, <1>2, <1>4, Split
<1>6. AllDistinct(high, tail) /\ ItemsOf(high, tail) = gone
  BY <1>1, <1>2, <1>3, <1>4, Moved
<1> HIDE DEF gone
<1>7. /\ Owned(store', h) \cap Owned(store', k) = {}
      /\ Owned(store', h) \cup Owned(store', k) = Owned(store, h) \cup Owned(store, k)
  BY <1>4, <1>5, <1>6
<1> QED BY <1>1, <1>4, <1>5, <1>6, <1>7, TwoMove

(* Buffers that move.                                                      *)
LEMMA StaysOwns ==
  ASSUME NEW E, OInv(E), Stays
  PROVE  OwnAfter(E)
<1>1. \A k \in Handles :
         Owned(store', k) = Owned(store, k) /\ Distinct(store', k) /\ LenOf(store', k) = LenOf(store, k)
  BY SameOwned DEF OInv, Own, Stays, SameItems
<1> QED BY <1>1 DEF OInv, Own, DeadEmpty, OwnAfter, Stays

(* The calls, in groups.                                                   *)
LEMMA ConstructOwns ==
  ASSUME NEW E, OInv(E), IInv', NEW h \in Handles, NEW n \in Nat,
         \/ New(h) \/ NewWithCapacity(h, n) \/ FromBuf(h, n) \/ FromBufAndLen(h, n)
         \/ FromBufAndLenPanics(h, n) \/ FromArray(h, n)
  PROVE  OwnAfter(E)
<1>1. IInv /\ caller \subseteq Elems /\ InlineSize[h] \in Nat
  BY RawAssumption DEF OInv, IInv
<1>2. CASE FromBufAndLenPanics(h, n)
  BY <1>1, <1>2, PanicRejects, RejectedOwns
<1>3. CASE ~FromBufAndLenPanics(h, n)
  BY <1>1, <1>3, ConstructMakes, MadeOwns
<1> QED BY <1>2, <1>3

LEMMA ExchangeOwns ==
  ASSUME NEW E, OInv(E), IInv', NEW h \in Handles, NEW c \in Nat, NEW n \in Nat,
         VecNew(c, n) \/ FromVec(h) \/ FromRawParts(h) \/ IntoVec(h) \/ Leak(h)
  PROVE  OwnAfter(E)
<1>1. IInv /\ DeadEmpty(store, live) /\ Std \in Handles
  BY StdAssumption DEF OInv
<1>2. CASE VecNew(c, n)
  BY <1>1, <1>2, VecMakes, MadeOwns
<1>3. CASE FromVec(h)
  BY <1>1, <1>3, FromVecPasses, PassedOwns
<1>4. CASE IntoVec(h)
  BY <1>1, <1>4, IntoVecPasses, PassedOwns
<1>5. CASE FromRawParts(h) \/ Leak(h)
  BY <1>1, <1>5, RawPartsPass, PassedOwns
<1> QED BY <1>2, <1>3, <1>4, <1>5

LEMMA ReleaseOwns ==
  ASSUME NEW E, OInv(E), NEW h \in Handles, LeakPanics(h) \/ IntoInner(h) \/ DropVec(h)
  PROVE  OwnAfter(E)
<1>1. IInv
  BY DEF OInv
<1> QED BY <1>1, ReleaseCloses, ClosedOwns DEF Closed

LEMMA PushOwns ==
  ASSUME NEW E, OInv(E), IInv', NEW h \in Handles, Push(h) \/ PushPanics(h)
  PROVE  OwnAfter(E)
<1>1. IInv /\ caller \subseteq Elems /\ InlineSize[h] \in Nat
  BY RawAssumption DEF OInv, IInv
<1> QED BY <1>1, PushEnters, EnteredOwns, PanicRejects, RejectedOwns

LEMMA InsertOwns ==
  ASSUME NEW E, OInv(E), IInv', NEW h \in Handles, NEW i \in Nat, Insert(h, i) \/ InsertPanics(h, i)
  PROVE  OwnAfter(E)
<1>1. IInv /\ caller \subseteq Elems /\ InlineSize[h] \in Nat
  BY RawAssumption DEF OInv, IInv
<1> QED BY <1>1, InsertEnters, EnteredOwns, PanicRejects, RejectedOwns

LEMMA RemoveOwns ==
  ASSUME NEW E, OInv(E), IInv', NEW h \in Handles, NEW i \in Nat,
         Pop(h) \/ Remove(h, i) \/ SwapRemove(h, i)
  PROVE  OwnAfter(E)
<1>1. IInv
  BY DEF OInv
<1> QED BY <1>1, RemoveTakes, TakenOwns

LEMMA CutOwns ==
  ASSUME NEW E, OInv(E), NEW h \in Handles, NEW n \in Nat, Truncate(h, n) \/ Clear(h)
  PROVE  OwnAfter(E)
<1>1. IInv
  BY DEF OInv
<1> QED BY <1>1, TruncateCuts, CutOffOwns

LEMMA MoveOwns ==
  ASSUME NEW E, OInv(E), IInv', NEW h \in Handles, NEW k \in Handles, NEW at \in Nat,
         AppendCall(h, k) \/ SplitOff(h, k, at)
  PROVE  OwnAfter(E)
<1>1. IInv
  BY DEF OInv
<1> QED BY <1>1, AppendAppends, AppendedOwns, SplitOffDivides, DividedOwns

LEMMA CapacityOwns ==
  ASSUME NEW E, OInv(E), NEW h \in Handles, NEW n \in Nat,
         \/ ReserveCall(h, n) \/ ReserveExactCall(h, n) \/ GrowCall(h, n)
         \/ ShrinkToFitCall(h) \/ ShrinkToCall(h, n)
  PROVE  OwnAfter(E)
<1>1. IInv
  BY DEF OInv
<1> QED BY <1>1, CapacityMoves, StaysOwns

(* Every step, and stuttering.                                             *)
LEMMA StepOwns ==
  ASSUME NEW E, OInv(E), [Next]_vars
  PROVE  OInv(E)'
<1>1. IInv'
  BY StepInv DEF OInv
<1>2. OwnAfter(E)
  <2>1. CASE UNCHANGED vars
    BY <2>1 DEF vars, OwnAfter, OInv, Own, DeadEmpty
  <2>2. ASSUME NEW h \in Handles,
               \/ New(h) \/ FromVec(h) \/ FromRawParts(h) \/ IntoVec(h) \/ Leak(h)
               \/ LeakPanics(h) \/ IntoInner(h) \/ DropVec(h)
               \/ Push(h) \/ PushPanics(h) \/ Pop(h) \/ Clear(h) \/ ShrinkToFitCall(h)
        PROVE  OwnAfter(E)
    <3>1. 0 \in Nat
      OBVIOUS
    <3> QED BY <1>1, <2>2, <3>1, ConstructOwns, ExchangeOwns, ReleaseOwns, PushOwns,
               RemoveOwns, CutOwns, CapacityOwns
  <2>3. ASSUME NEW h \in Handles, NEW k \in Handles, NEW at \in Slots \cup {MaxCap},
               AppendCall(h, k) \/ SplitOff(h, k, at)
        PROVE  OwnAfter(E)
    <3>1. at \in Nat
      BY RawAssumption DEF Slots
    <3> QED BY <1>1, <2>3, <3>1, MoveOwns
  <2>4. ASSUME NEW h \in Handles, NEW n \in Sizes,
               \/ NewWithCapacity(h, n) \/ FromBuf(h, n) \/ FromBufAndLen(h, n)
               \/ FromBufAndLenPanics(h, n) \/ FromArray(h, n)
               \/ Insert(h, n) \/ InsertPanics(h, n) \/ Remove(h, n) \/ SwapRemove(h, n)
               \/ Truncate(h, n)
               \/ ReserveCall(h, n) \/ ReserveExactCall(h, n) \/ GrowCall(h, n)
               \/ ShrinkToCall(h, n)
        PROVE  OwnAfter(E)
    <3>1. n \in Nat
      BY RawAssumption DEF Sizes
    <3> QED BY <1>1, <2>4, <3>1, ConstructOwns, InsertOwns, RemoveOwns, CutOwns, CapacityOwns
  <2>5. ASSUME NEW h \in Handles, NEW n \in Sizes, NEW m \in Sizes, VecNew(n, m)
        PROVE  OwnAfter(E)
    <3>1. n \in Nat /\ m \in Nat
      BY RawAssumption DEF Sizes
    <3> QED BY <1>1, <2>5, <3>1, ExchangeOwns
  <2> QED BY <2>1, <2>2, <2>3, <2>4, <2>5, RawAssumption DEF Next
<1> QED BY <1>1, <1>2 DEF OwnAfter, OInv

(* The program holds everything.                                           *)
LEMMA InitOwns == Init => OInv(Elems)
<1> SUFFICES ASSUME Init PROVE OInv(Elems)
  OBVIOUS
<1>1. ASSUME NEW h \in Handles
      PROVE  LenOf(store, h) = 0
  BY DEF Init, LenOf
<1>2. \A h \in Handles : Owned(store, h) = {} /\ Distinct(store, h)
  BY <1>1, EmptyOwns
<1>3. caller = Elems /\ dropped = {}
  BY DEF Init
<1>4. Own(store, caller, dropped, Elems) /\ DeadEmpty(store, live)
  BY <1>1, <1>2, <1>3 DEF Own, DeadEmpty
<1> QED BY <1>4, InitInv DEF OInv

(* Whatever calls are made, on vectors of any inline sizes and whichever   *)
(* of them panic, no element is duplicated, lost, read from a cell that    *)
(* was never written, or dropped twice.                                    *)
THEOREM OwnedOnce == Spec => []ElementsOwnedOnce
<1>1. OInv(Elems) => ElementsOwnedOnce
  <2> SUFFICES ASSUME OInv(Elems) PROVE ElementsOwnedOnce
    OBVIOUS
  <2>1. /\ Sound(store) /\ live \subseteq Handles /\ caller \subseteq Elems /\ dropped \subseteq Elems
        /\ Own(store, caller, dropped, Elems) /\ DeadEmpty(store, live)
    BY DEF OInv, IInv
  <2>2. \A h \in live : ContentsOK(store, h)
    BY <2>1 DEF Sound, Initialised, Own, Distinct, ContentsOK
  <2>3. \A h \in Handles \ live : Owned(store, h) = {}
    BY <2>1, EmptyOwns DEF DeadEmpty
  <2>4. \A h \in live : Owned(store, h) \subseteq Elems
    BY <2>1, OwnedType
  <2> DEFINE held == UNION {Owned(store, h) : h \in live}
  <2>5. Elems = caller \cup dropped \cup held
    <3>1. ASSUME NEW e \in Elems
          PROVE  e \in caller \cup dropped \cup held
      BY <2>1, <2>3 DEF Own
    <3>2. held \subseteq Elems
      BY <2>4
    <3> QED BY <2>1, <3>1, <3>2
  <2>6. /\ \A h, k \in live : h # k => Owned(store, h) \cap Owned(store, k) = {}
        /\ \A h \in live : Owned(store, h) \cap (caller \cup dropped) = {}
        /\ caller \cap dropped = {}
    BY <2>1 DEF Own
  <2> QED BY <2>2, <2>5, <2>6 DEF ElementsOwnedOnce
<1>2. OInv(Elems) /\ [Next]_vars => OInv(Elems)'
  BY StepOwns
<1> QED BY <1>1, <1>2, InitOwns, PTL DEF Spec

----------------------------------------------------------------------------
(* Calls that are several steps keep elements in cells of a vector above   *)
(* its length.  They account for them with the dropped ones.               *)

(* Cells a to b - 1 hold the elements of X, each once.                     *)
Holds(cells, a, b, X) ==
  /\ \A i \in a .. b - 1 : cells[i] \in X
  /\ \A i, j \in a .. b - 1 : cells[i] = cells[j] => i = j
  /\ \A x \in X : \E i \in a .. b - 1 : cells[i] = x

(* Of the elements in E, the program holds c, d are dropped or set aside,  *)
(* and the rest is in the vectors, of which l are live.                    *)
Accounts(s, c, d, l, E) ==
  /\ E \subseteq Elems /\ l \subseteq Handles
  /\ Bounded(s) /\ Tidy(s, l)
  /\ Own(s, c, d, E) /\ DeadEmpty(s, l)

(* g is s but for h, which may have another buffer.                        *)
Grown(s, g, h) ==
  BoundedStep(s, g, h) /\ \A k \in Handles \ {h} : SameItems(s, k, g, k)

(* The cells fit the buffer of h, and those below n hold the elements of O.*)
Lays(g, h, cells, n, O) ==
  /\ cells \in Block /\ n \in Nat /\ n <= Capacity(g, h)
  /\ FitIn(cells, Capacity(g, h)) /\ Holds(cells, 0, n, O)

(* O, c and d share X out between them.                                    *)
Shares(O, c, d, X) == O \cap (c \cup d) = {} /\ c \cap d = {} /\ O \cup c \cup d = X

(* What is known of h after a write.                                       *)
Wrote(g, x, h, cells, n) ==
  /\ Sound(x) /\ LenOf(x, h) = n /\ Cells(x, h) = cells /\ Capacity(x, h) = Capacity(g, h)
  /\ \A k \in Handles : Capacity(x, k) = Capacity(g, k)

LEMMA HoldsEmpty ==
  ASSUME NEW cells, NEW a \in Int, NEW b \in Int, b <= a
  PROVE  Holds(cells, a, b, {})
  BY DEF Holds

LEMMA HoldsOne ==
  ASSUME NEW cells, NEW a \in Int, NEW b, b = a + 1
  PROVE  Holds(cells, a, b, {cells[a]})
<1>1. \A i \in a .. b - 1 : i = a
  OBVIOUS
<1>2. a \in a .. b - 1
  OBVIOUS
<1> QED BY <1>1, <1>2 DEF Holds

(* The same cells hold the same elements, also elsewhere.                  *)
LEMMA HoldsSame ==
  ASSUME NEW src, NEW a \in Int, NEW b \in Int, NEW X, Holds(src, a, b, X),
         NEW cells, \A i \in a .. b - 1 : cells[i] = src[i]
  PROVE  Holds(cells, a, b, X)
  BY DEF Holds

LEMMA HoldsMoved ==
  ASSUME NEW src, NEW a \in Int, NEW b \in Int, NEW X, Holds(src, a, b, X),
         NEW cells, NEW to \in Int, NEW n, n = to + (b - a),
         \A i \in to .. n - 1 : cells[i] = src[i - to + a]
  PROVE  Holds(cells, to, n, X)
<1>1. ASSUME NEW i \in to .. n - 1
      PROVE  i - to + a \in a .. b - 1 /\ cells[i] = src[i - to + a]
  OBVIOUS
<1>2. \A i \in to .. n - 1 : cells[i] \in X
  BY <1>1 DEF Holds
<1>3. ASSUME NEW i \in to .. n - 1, NEW j \in to .. n - 1, cells[i] = cells[j]
      PROVE  i = j
  <2>1. src[i - to + a] = src[j - to + a]
    BY <1>1, <1>3
  <2>2. i - to + a = j - to + a
    BY <1>1, <2>1 DEF Holds
  <2> QED BY <2>2
<1>4. ASSUME NEW x \in X
      PROVE  \E i \in to .. n - 1 : cells[i] = x
  <2>1. PICK j \in a .. b - 1 : src[j] = x
    BY DEF Holds
  <2>2. j - a + to \in to .. n - 1 /\ (j - a + to) - to + a = j
    OBVIOUS
  <2>3. cells[j - a + to] = x
    BY <1>1, <2>1, <2>2
  <2> QED BY <2>2, <2>3
<1> QED BY <1>2, <1>3, <1>4 DEF Holds

(* Neighbouring cells taken together, and taken apart.                     *)
LEMMA HoldsJoin ==
  ASSUME NEW cells, NEW a \in Int, NEW b \in Int, NEW c \in Int, a <= b, b <= c,
         NEW X, Holds(cells, a, b, X), NEW Y, Holds(cells, b, c, Y), X \cap Y = {}
  PROVE  Holds(cells, a, c, X \cup Y)
<1>1. \A i \in a .. c - 1 : i \in a .. b - 1 \/ i \in b .. c - 1
  OBVIOUS
<1>2. /\ \A i \in a .. b - 1 : i \in a .. c - 1
      /\ \A i \in b .. c - 1 : i \in a .. c - 1
  OBVIOUS
<1>3. ASSUME NEW i \in a .. c - 1, NEW j \in a .. c - 1, cells[i] = cells[j]
      PROVE  i = j
  BY <1>1, <1>3 DEF Holds
<1> QED BY <1>1, <1>2, <1>3 DEF Holds

LEMMA HoldsCut ==
  ASSUME NEW cells, NEW a \in Int, NEW b \in Int, NEW c \in Int, a <= b, b <= c,
         NEW X, Holds(cells, a, c, X)
  PROVE  /\ Holds(cells, a, b, ItemsFrom(cells, a, b))
         /\ Holds(cells, b, c, ItemsFrom(cells, b, c))
         /\ ItemsFrom(cells, a, b) \cap ItemsFrom(cells, b, c) = {}
         /\ ItemsFrom(cells, a, b) \cup ItemsFrom(cells, b, c) = X
<1>1. /\ \A i \in a .. b - 1 : i \in a .. c - 1
      /\ \A i \in b .. c - 1 : i \in a .. c - 1
      /\ \A i \in a .. c - 1 : i \in a .. b - 1 \/ i \in b .. c - 1
      /\ \A i \in a .. b - 1, j \in b .. c - 1 : i # j
  OBVIOUS
<1> QED BY <1>1 DEF Holds, ItemsFrom

(* Cells that a wipe or a shift spares, and those that a shift moves.      *)
LEMMA WipeSpares ==
  ASSUME NEW src \in Block, NEW from \in Nat, NEW n \in Int, NEW a \in Nat, NEW b \in Int,
         b <= MaxCap, b <= from \/ from + n <= a
  PROVE  \A i \in a .. b - 1 : Wipe(src, from, n)[i] = src[i]
<1>1. \A i \in a .. b - 1 : i \in Slots /\ i \notin from .. from + n - 1
  BY RawAssumption DEF Slots
<1> QED BY <1>1, WipeType

LEMMA ShiftMoves ==
  ASSUME NEW src \in Block, NEW from \in Nat, NEW to \in Nat, NEW n \in Nat,
         from + n <= MaxCap, NEW b, b = to + n, b <= MaxCap
  PROVE  \A i \in to .. b - 1 : Shift(src, from, to, n)[i] = src[i - to + from]
<1>1. \A i \in to .. b - 1 : i \in Slots /\ i \in to .. to + n - 1
  BY RawAssumption DEF Slots
<1>2. \A i \in Slots : Shift(src, from, to, n)[i] =
         IF i \in to .. to + n - 1 THEN src[i - to + from]
         ELSE IF i \in from .. from + n - 1 THEN Uninit ELSE src[i]
  BY ShiftType
<1> QED BY <1>1, <1>2

(* What held its elements still does, or holds them where it moved.        *)
LEMMA WipeHolds ==
  ASSUME NEW src \in Block, NEW from \in Nat, NEW n \in Int, NEW a \in Nat, NEW b \in Int,
         b <= MaxCap, b <= from \/ from + n <= a, NEW X, Holds(src, a, b, X)
  PROVE  Holds(Wipe(src, from, n), a, b, X)
<1> DEFINE cells == Wipe(src, from, n)
<1>1. \A i \in a .. b - 1 : cells[i] = src[i]
  BY WipeSpares
<1>2. a \in Int
  OBVIOUS
<1> HIDE DEF cells
<1>3. Holds(cells, a, b, X)
  BY <1>1, <1>2, HoldsSame
<1> QED BY <1>3 DEF cells

LEMMA ShiftHolds ==
  ASSUME NEW src \in Block, NEW from \in Nat, NEW to \in Nat, NEW n \in Nat,
         from + n <= MaxCap, NEW a \in Nat, NEW b \in Int, b <= MaxCap,
         b <= from \/ from + n <= a, b <= to \/ to + n <= a, NEW X, Holds(src, a, b, X)
  PROVE  Holds(Shift(src, from, to, n), a, b, X)
<1> DEFINE cells == Shift(src, from, to, n)
<1>1. \A i \in a .. b - 1 : cells[i] = src[i]
  <2>1. src \in Block /\ \A i \in Slots : cells[i] =
           IF i \in to .. to + n - 1 THEN src[i - to + from]
           ELSE IF i \in from .. from + n - 1 THEN Uninit ELSE src[i]
    BY ShiftType
  <2>2. \A i \in a .. b - 1 : i \in Slots /\ i \notin to .. to + n - 1 /\ i \notin from .. from + n - 1
    BY RawAssumption DEF Slots
  <2> QED BY <2>1, <2>2
<1>2. a \in Int
  OBVIOUS
<1> HIDE DEF cells
<1>3. Holds(cells, a, b, X)
  BY <1>1, <1>2, HoldsSame
<1> QED BY <1>3 DEF cells

LEMMA ShiftBrings ==
  ASSUME NEW src \in Block, NEW from \in Nat, NEW to \in Nat, NEW n \in Nat,
         from + n <= MaxCap, NEW b, b = to + n, b <= MaxCap,
         NEW e, e = from + n, NEW X, Holds(src, from, e, X)
  PROVE  Holds(Shift(src, from, to, n), to, b, X)
<1> DEFINE cells == Shift(src, from, to, n)
<1>1. \A i \in to .. b - 1 : cells[i] = src[i - to + from]
  BY ShiftMoves
<1>2. from \in Int /\ to \in Int /\ e \in Int
  OBVIOUS
<1>3. b = to + (e - from)
  OBVIOUS
<1> HIDE DEF cells
<1>4. Holds(cells, to, b, X)
  BY <1>1, <1>2, <1>3, HoldsMoved
<1> QED BY <1>4 DEF cells

LEMMA CopyHolds ==
  ASSUME NEW src \in Block, NEW from \in Nat, NEW dst \in Block, NEW to \in Nat, NEW n \in Nat,
         from + n <= MaxCap, NEW a \in Nat, NEW b \in Int, b <= MaxCap,
         b <= to \/ to + n <= a, NEW X, Holds(dst, a, b, X)
  PROVE  Holds(Copy(src, from, dst, to, n), a, b, X)
<1> DEFINE cells == Copy(src, from, dst, to, n)
<1>1. \A i \in a .. b - 1 : cells[i] = dst[i]
  <2>1. \A i \in Slots : cells[i] = IF i \in to .. to + n - 1 THEN src[i - to + from] ELSE dst[i]
    BY CopyType
  <2>2. \A i \in a .. b - 1 : i \in Slots /\ i \notin to .. to + n - 1
    BY RawAssumption DEF Slots
  <2> QED BY <2>1, <2>2
<1>2. a \in Int
  OBVIOUS
<1> HIDE DEF cells
<1>3. Holds(cells, a, b, X)
  BY <1>1, <1>2, HoldsSame
<1> QED BY <1>3 DEF cells

LEMMA CopyBrings ==
  ASSUME NEW src \in Block, NEW from \in Nat, NEW dst \in Block, NEW to \in Nat, NEW n \in Nat,
         from + n <= MaxCap, NEW b, b = to + n, b <= MaxCap,
         NEW e, e = from + n, NEW X, Holds(src, from, e, X)
  PROVE  Holds(Copy(src, from, dst, to, n), to, b, X)
<1> DEFINE cells == Copy(src, from, dst, to, n)
<1>1. \A i \in to .. b - 1 : cells[i] = src[i - to + from]
  <2>1. \A i \in Slots : cells[i] = IF i \in to .. to + n - 1 THEN src[i - to + from] ELSE dst[i]
    BY CopyType
  <2>2. \A i \in to .. b - 1 : i \in Slots /\ i \in to .. to + n - 1
    BY RawAssumption DEF Slots
  <2> QED BY <2>1, <2>2
<1>2. from \in Int /\ to \in Int /\ e \in Int
  OBVIOUS
<1>3. b = to + (e - from)
  OBVIOUS
<1> HIDE DEF cells
<1>4. Holds(cells, to, b, X)
  BY <1>1, <1>2, <1>3, HoldsMoved
<1> QED BY <1>4 DEF cells

(* One cell is written.                                                    *)
PutAt(src, i, e) == [src EXCEPT ![i] = e]

LEMMA PutType ==
  ASSUME NEW src \in Block, NEW c \in Nat, FitIn(src, c), NEW i \in Nat, i < c, c <= MaxCap,
         NEW e \in Elems
  PROVE  PutAt(src, i, e) \in Block /\ FitIn(PutAt(src, i, e), c)
  BY RawAssumption DEF PutAt, FitIn, Block, Slots, Cell

LEMMA PutHolds ==
  ASSUME NEW src \in Block, NEW i \in Nat, NEW e, NEW a \in Nat, NEW b \in Int, b <= MaxCap,
         b <= i \/ i < a, NEW X, Holds(src, a, b, X)
  PROVE  Holds(PutAt(src, i, e), a, b, X)
<1> DEFINE cells == PutAt(src, i, e)
<1>1. \A j \in a .. b - 1 : cells[j] = src[j]
  BY DEF PutAt, Block, Slots
<1>2. a \in Int
  OBVIOUS
<1> HIDE DEF cells
<1>3. Holds(cells, a, b, X)
  BY <1>1, <1>2, HoldsSame
<1> QED BY <1>3 DEF cells

(* A cell is written behind the elements.                                  *)
LEMMA PutJoins ==
  ASSUME NEW src \in Block, NEW i \in Nat, i < MaxCap, NEW e, NEW n, n = i + 1,
         NEW X, Holds(src, 0, i, X), e \notin X
  PROVE  Holds(PutAt(src, i, e), 0, n, X \cup {e})
<1> DEFINE cells == PutAt(src, i, e)
           zero  == 0
<1>1. Holds(cells, zero, i, X)
  <2>1. zero \in Nat /\ i \in Int /\ i <= MaxCap /\ i <= i /\ Holds(src, zero, i, X)
    BY RawAssumption
  <2> HIDE DEF zero
  <2> QED BY <2>1, PutHolds
<1>2. cells[i] = e
  BY RawAssumption DEF PutAt, Block, Slots
<1> HIDE DEF cells
<1>3. Holds(cells, i, n, {e})
  BY <1>2, HoldsOne
<1>4. zero \in Int /\ i \in Int /\ n \in Int /\ zero <= i /\ i <= n /\ X \cap {e} = {}
  OBVIOUS
<1> HIDE DEF zero
<1>5. Holds(cells, zero, n, X \cup {e})
  BY <1>1, <1>3, <1>4, HoldsJoin
<1> QED BY <1>5 DEF cells, zero

(* What the cells hold is what is in them.                                 *)
LEMMA HoldsItems ==
  ASSUME NEW cells, NEW a, NEW b, NEW X, Holds(cells, a, b, X)
  PROVE  X = ItemsFrom(cells, a, b)
  BY DEF Holds, ItemsFrom

LEMMA HoldsOwned ==
  ASSUME NEW s, NEW h
  PROVE  Distinct(s, h) <=> Holds(Cells(s, h), 0, LenOf(s, h), Owned(s, h))
  BY DEF Holds, Distinct, Owned, Item

LEMMA OwnedHolds ==
  ASSUME NEW s, NEW h, NEW X, Holds(Cells(s, h), 0, LenOf(s, h), X)
  PROVE  Owned(s, h) = X /\ Distinct(s, h)
  BY DEF Holds, Distinct, Owned, Item

(* One write, after which the elements are shared out in another way.      *)
LEMMA AccountsWrite ==
  ASSUME NEW E, NEW s, NEW c, NEW d, NEW l, Accounts(s, c, d, l, E), NEW h \in l,
         NEW g, Grown(s, g, h), NEW cells, NEW n, NEW O, Lays(g, h, cells, n, O),
         NEW c2, NEW d2, Shares(O, c2, d2, Owned(s, h) \cup c \cup d),
         NEW x, x = Edited(g, h, cells, n)
  PROVE  Accounts(x, c2, d2, l, E) /\ Wrote(g, x, h, cells, n)
<1>1. h \in Handles /\ Bounded(g) /\ Sound(g)
  BY DEF Accounts, Grown, BoundedStep, Bounded
<1>2. O \subseteq Elems
  BY <1>1 DEF Accounts, Own, Shares
<1>3. \A i \in 0 .. n - 1 : cells[i] \in Elems
  BY <1>2 DEF Lays, Holds
<1>4. Wrote(g, x, h, cells, n) /\ \A k \in Handles \ {h} : SameItems(g, k, x, k)
  BY <1>1, <1>3, EditedSound DEF Lays, Wrote
<1>5. BoundedStep(s, x, h)
  <2>1. BoundedStep(g, x, h)
    BY <1>1, <1>3, EditedFits DEF Lays
  <2> QED BY <2>1, BoundedCompose DEF Grown
<1>6. Bounded(x) /\ Tidy(x, l)
  BY <1>5, TidyStep DEF Accounts
<1>7. Exchange(s, c, d, x, c2, d2, h)
  <2>1. Owned(x, h) = O /\ Distinct(x, h)
    BY <1>4, OwnedHolds DEF Wrote, Lays
  <2>2. \A k \in Handles \ {h} : SameItems(s, k, x, k)
    BY <1>4, SameItemsCompose DEF Grown
  <2> QED BY <2>1, <2>2 DEF Exchange, Shares
<1>8. Own(x, c2, d2, E) /\ DeadEmpty(x, l)
  BY <1>1, <1>7, MoveOne DEF Accounts
<1> QED BY <1>4, <1>6, <1>8 DEF Accounts

(* No write: the elements are only shared out in another way.              *)
LEMMA AccountsShare ==
  ASSUME NEW E, NEW s, NEW c, NEW d, NEW l, Accounts(s, c, d, l, E),
         NEW c2, NEW d2, Shares({}, c2, d2, c \cup d)
  PROVE  Accounts(s, c2, d2, l, E)
  BY DEF Accounts, Own, Shares

(* Elements that are given up are no longer at stake.                      *)
LEMMA AccountsLess ==
  ASSUME NEW E, NEW s, NEW c, NEW d, NEW l, NEW x, Accounts(s, c, d \cup x, l, E), d \cap x = {}
  PROVE  Accounts(s, c, d, l, E \ x)
  BY DEF Accounts, Own

(* set_len is a write of the cells that are there.                         *)
LEMMA SetLenRewrites ==
  ASSUME NEW s \in Storage, NEW h \in Handles, AsPtr(s, h) \in Handles \cup Ptrs, NEW n
  PROVE  SetLen(s, h, n) = Edited(s, h, Cells(s, h), n)
<1>1. Shaped(s) /\ s.mem \in Memory
  BY DEF Storage, Shaped
<1>2. [s.mem EXCEPT ![AsPtr(s, h)] = Cells(s, h)] = s.mem
  BY <1>1 DEF Memory, Cells
<1>3. [s EXCEPT !.mem[AsPtr(s, h)] = Cells(s, h)] =
        [word |-> s.word, ptr |-> s.ptr, cap |-> s.cap,
         mem |-> [s.mem EXCEPT ![AsPtr(s, h)] = Cells(s, h)], size |-> s.size]
  BY <1>1 DEF Shaped
<1>4. [s EXCEPT !.mem[AsPtr(s, h)] = Cells(s, h)] = s
  BY <1>1, <1>2, <1>3 DEF Shaped
<1> QED BY <1>4 DEF Edited

(* Cells written without the length: the length written is the old one.    *)
LEMMA CellsRewrite ==
  ASSUME NEW s \in Storage, NEW h \in Handles, NEW cells
  PROVE  [s EXCEPT !.mem[AsPtr(s, h)] = cells] = Edited(s, h, cells, LenOf(s, h))
<1> DEFINE m == [s EXCEPT !.mem[AsPtr(s, h)] = cells]
           w == s.word[h]
<1>1. s \in Storage /\ w \in 0 .. UMax /\ s.word \in [Handles -> 0 .. UMax]
  BY DEF Storage
<1>2. m = [word |-> s.word, ptr |-> s.ptr, cap |-> s.cap,
           mem |-> [s.mem EXCEPT ![AsPtr(s, h)] = cells], size |-> s.size]
  BY <1>1 DEF Storage
<1> HIDE DEF m, w
<1>3. OnHeap(m, h) = (w % 2 = 1) /\ LenOf(s, h) = w \div 2
  BY <1>2 DEF OnHeap, LenOf, w
<1>4. TaggedLen(w \div 2, w % 2 = 1) = w
  <2>1. 2 * (w \div 2) + (IF w % 2 = 1 THEN 1 ELSE 0) = w
    BY <1>1
  <2> QED BY <1>1, <2>1, RawAssumption DEF TaggedLen
<1>5. [m EXCEPT !.word[h] = w] = m
  <2>1. [m.word EXCEPT ![h] = w] = m.word
    BY <1>1, <1>2 DEF w
  <2> QED BY <1>2, <2>1
<1>6. Edited(s, h, cells, LenOf(s, h)) = [m EXCEPT !.word[h] = w]
  BY <1>3, <1>4 DEF Edited, SetLen, m
<1> QED BY <1>5, <1>6 DEF m

LEMMA SetLenWrites ==
  ASSUME NEW s, Sound(s), NEW h \in Handles, NEW n
  PROVE  SetLen(s, h, n) = Edited(s, h, Cells(s, h), n)
  BY SoundLen, SetLenRewrites DEF Sound

LEMMA InPlaceWrites ==
  ASSUME NEW s, Sound(s), NEW h \in Handles, NEW cells
  PROVE  [s EXCEPT !.mem[AsPtr(s, h)] = cells] = Edited(s, h, cells, LenOf(s, h))
  BY CellsRewrite DEF Sound

(* Staying, writing and growing leave the other vectors alone.             *)
LEMMA GrownStays ==
  ASSUME NEW s, Bounded(s), NEW h
  PROVE  Grown(s, s, h)
  BY BoundedStutter DEF Grown, SameItems

LEMMA GrownCompose ==
  ASSUME NEW s, NEW m, NEW g, NEW h, Grown(s, m, h), Grown(m, g, h)
  PROVE  Grown(s, g, h)
  BY BoundedCompose, SameItemsCompose DEF Grown

LEMMA WriteGrows ==
  ASSUME NEW s, Bounded(s), NEW h \in Handles, NEW cells \in Block, NEW n \in Nat,
         n <= Capacity(s, h), FitIn(cells, Capacity(s, h)),
         \A i \in 0 .. n - 1 : cells[i] \in Elems, NEW x, x = Edited(s, h, cells, n)
  PROVE  Grown(s, x, h) /\ Wrote(s, x, h, cells, n)
<1>1. BoundedStep(s, x, h)
  BY EditedFits
<1>2. Sound(s)
  BY DEF Bounded
<1> QED BY <1>1, <1>2, EditedSound DEF Grown, Wrote

LEMMA ReserveGrows ==
  ASSUME NEW s, Bounded(s), NEW h \in Handles, NEW n \in Nat, NEW g \in Reserve(s, h, n)
  PROVE  /\ Grown(s, g, h) /\ Resized(s, g, h)
         /\ Capacity(g, h) >= LenOf(g, h) + n /\ Capacity(g, h) >= Capacity(s, h)
<1>1. Sound(s) /\ BoundedStep(s, g, h)
  BY ReserveFits DEF Bounded
<1>2. /\ Resized(s, g, h)
      /\ Capacity(g, h) >= LenOf(g, h) + n /\ Capacity(g, h) >= Capacity(s, h)
  BY <1>1, ReserveSound
<1> QED BY <1>1, <1>2 DEF Grown, Resized

(* What Accounts says in terms of the other invariants, and back.          *)
LEMMA AccountsInvariants ==
  ASSUME NEW E, Accounts(store, caller, dropped, live, E)
  PROVE  OInv(E) /\ BInv
  BY DEF Accounts, OInv, BInv, IInv, Bounded, Own

LEMMA AccountsAgain ==
  ASSUME NEW E, Accounts(store, caller, dropped, live, E), IInv', BoundedAfter, OwnAfter(E)
  PROVE  Accounts(store', caller', dropped', live', E)
  BY DEF Accounts, IInv, BoundedAfter, OwnAfter

(* The program's calls between two borrows, loops or clones; push and      *)
(* reserve are also called inside them.                                    *)
LEMMA ProgramKeeps ==
  ASSUME NEW E, Accounts(store, caller, dropped, live, E), OneVector
  PROVE  Accounts(store', caller', dropped', live', E)
<1>1. OInv(E) /\ BInv /\ IInv
  BY AccountsInvariants DEF OInv
<1>2. PICK h \in Handles :
         \/ Push(h) \/ FromVec(h) \/ DropVec(h)
         \/ New(h) \/ (\E n \in Sizes : NewWithCapacity(h, n))
         \/ (\E c, n \in Sizes : VecNew(c, n))
  BY DEF OneVector
<1>3. CASE Push(h)
  <2>1. IInv'
    BY <1>1, <1>3, PushInv
  <2> QED BY <1>1, <1>3, <2>1, PushBounded, PushOwns, AccountsAgain
<1>4. CASE FromVec(h)
  <2>1. 0 \in Nat
    OBVIOUS
  <2>2. IInv'
    BY <1>1, <1>4, <2>1, ExchangeInv
  <2> QED BY <1>1, <1>4, <2>1, <2>2, ExchangeBounded, ExchangeOwns, AccountsAgain
<1>5. CASE DropVec(h)
  <2>1. IInv'
    BY <1>1, <1>5, ReleaseInv
  <2> QED BY <1>1, <1>5, <2>1, ReleaseBounded, ReleaseOwns, AccountsAgain
<1>6. ASSUME NEW n \in Nat, New(h) \/ NewWithCapacity(h, n)
      PROVE  Accounts(store', caller', dropped', live', E)
  <2>1. IInv'
    BY <1>1, <1>6, ConstructInv
  <2> QED BY <1>1, <1>6, <2>1, ConstructBounded, ConstructOwns, AccountsAgain
<1>7. ASSUME NEW c \in Nat, NEW n \in Nat, VecNew(c, n)
      PROVE  Accounts(store', caller', dropped', live', E)
  <2>1. IInv'
    BY <1>1, <1>7, ExchangeInv
  <2> QED BY <1>1, <1>7, <2>1, ExchangeBounded, ExchangeOwns, AccountsAgain
<1>8. 0 \in Nat /\ \A n \in Sizes : n \in Nat
  BY RawAssumption DEF Sizes
<1> QED BY <1>2, <1>3, <1>4, <1>5, <1>6, <1>7, <1>8

LEMMA PushKeeps ==
  ASSUME NEW E, Accounts(store, caller, dropped, live, E), NEW h \in Handles, Push(h) \/ PushPanics(h)
  PROVE  Accounts(store', caller', dropped', live', E)
<1>1. OInv(E) /\ BInv /\ IInv
  BY AccountsInvariants DEF OInv
<1>2. IInv'
  BY <1>1, PushInv
<1> QED BY <1>1, <1>2, PushBounded, PushOwns, AccountsAgain

LEMMA PushGrows ==
  ASSUME Bounded(store), NEW h \in Handles, Push(h)
  PROVE  Capacity(store', h) \in Nat /\ Capacity(store', h) >= Capacity(store, h)
<1> DEFINE len   == LenOf(store, h)
           one   == 1
           grown == IF len = Capacity(store, h) THEN Reserve(store, h, one) ELSE {store}
           n     == len + 1
<1>1. PICK e \in caller, s \in grown :
        store' = Edited(s, h, [Cells(s, h) EXCEPT ![len] = e], n)
  BY DEF Push
<1> DEFINE cells == [Cells(s, h) EXCEPT ![len] = e]
<1>2. /\ Sound(store) /\ len \in Nat /\ len <= Capacity(store, h) /\ Capacity(store, h) \in Nat
      /\ one \in Nat
  BY SoundLen DEF Bounded
<1>3. /\ Bounded(s) /\ LenOf(s, h) = len /\ Capacity(s, h) >= len + one
      /\ Capacity(s, h) >= Capacity(store, h)
  <2>1. CASE len = Capacity(store, h)
    <3>1. s \in Reserve(store, h, one)
      BY <1>1, <2>1
    <3>2. /\ Grown(store, s, h) /\ Resized(store, s, h)
          /\ Capacity(s, h) >= LenOf(s, h) + one /\ Capacity(s, h) >= Capacity(store, h)
      BY <1>2, <3>1, ReserveGrows
    <3>3. Bounded(s) /\ LenOf(s, h) = len
      BY <3>2, ResizedLen DEF Grown, BoundedStep
    <3> QED BY <3>2, <3>3
  <2>2. CASE len # Capacity(store, h)
    BY <1>1, <1>2, <2>2
  <2> QED BY <2>1, <2>2
<1>4. Capacity(store', h) = Capacity(s, h)
  <2>1. Shaped(s) /\ OnHeap(s, h) \in BOOLEAN /\ Capacity(s, h) \in 0 .. MaxCap
    BY <1>3, SoundShaped, SoundLen DEF Bounded, OnHeap
  <2>2. n \in 0 .. MaxCap
    BY <1>2, <1>3, <2>1, RawAssumption
  <2> HIDE DEF n, cells
  <2> QED BY <1>1, <2>1, <2>2, EditedStays DEF SamePlace, cells
<1> QED BY <1>2, <1>3, <1>4, SoundLen DEF Bounded

LEMMA ReserveKeeps ==
  ASSUME NEW E, Accounts(store, caller, dropped, live, E), NEW h \in Handles, NEW n \in Nat,
         ReserveCall(h, n)
  PROVE  Accounts(store', caller', dropped', live', E)
<1>1. OInv(E) /\ BInv /\ IInv
  BY AccountsInvariants DEF OInv
<1>2. IInv'
  BY <1>1, CapacityInv
<1> QED BY <1>1, <1>2, CapacityBounded, CapacityOwns, AccountsAgain

----------------------------------------------------------------------------
(* The items of a vector, in their order.                                  *)

(* What is in a vector after a write.                                      *)
LEMMA Rewritten ==
  ASSUME NEW s, Sound(s), NEW h \in Handles, NEW n \in 0 .. MaxCap, NEW cells,
         NEW g, g = Edited(s, h, cells, n)
  PROVE  LenOf(g, h) = n /\ Cells(g, h) = cells
<1>1. /\ Shaped(s) /\ OnHeap(s, h) \in BOOLEAN /\ s.mem \in Memory
      /\ AsPtr(s, h) \in Handles \cup Ptrs
  BY SoundShaped, SoundLen DEF Sound, Storage, OnHeap
<1>2. LenOf(g, h) = n /\ AsPtr(g, h) = AsPtr(s, h)
  BY <1>1, EditedStays DEF SamePlace
<1>3. g.mem = [s.mem EXCEPT ![AsPtr(s, h)] = cells]
  BY <1>1, EditedMem
<1>4. g.mem[AsPtr(s, h)] = cells
  BY <1>1, <1>3 DEF Memory
<1> QED BY <1>2, <1>4 DEF Cells

(* The n items of a vector from i on, and all of them, as sequences.       *)
LEMMA ItemsAre ==
  ASSUME NEW s, NEW h, NEW i \in Int, NEW n \in Nat, \A k \in i .. i + n - 1 : Cells(s, h)[k] \in Elems
  PROVE  /\ Items(s, h, i, n) \in Seq(Elems) /\ Len(Items(s, h, i, n)) = n
         /\ \A j \in 1 .. n : Items(s, h, i, n)[j] = Cells(s, h)[i + j - 1]
<1> DEFINE e(j) == Cells(s, h)[i + j - 1]
<1>1. Items(s, h, i, n) = [j \in 1 .. n |-> e(j)]
  BY DEF Items, Item
<1>2. \A j \in 1 .. n : i + j - 1 \in i .. i + n - 1
  OBVIOUS
<1>3. \A j \in 1 .. n : e(j) \in Elems
  BY <1>2
<1>4. \A j \in 1 .. n : e(j) = Cells(s, h)[i + j - 1]
  OBVIOUS
<1> HIDE DEF e
<1>5. [j \in 1 .. n |-> e(j)] \in Seq(Elems)
  BY <1>3
<1>6. Len([j \in 1 .. n |-> e(j)]) = n
  OBVIOUS
<1> QED BY <1>1, <1>4, <1>5, <1>6

LEMMA ContentsAre ==
  ASSUME NEW s, NEW h, LenOf(s, h) \in Nat, \A i \in 0 .. LenOf(s, h) - 1 : Cells(s, h)[i] \in Elems
  PROVE  /\ Contents(s, h) \in Seq(Elems) /\ Len(Contents(s, h)) = LenOf(s, h)
         /\ \A j \in 1 .. LenOf(s, h) : Contents(s, h)[j] = Cells(s, h)[j - 1]
<1> DEFINE n    == LenOf(s, h)
           zero == 0
<1>1. Contents(s, h) = Items(s, h, zero, n) /\ zero \in Int /\ n \in Nat
  BY DEF Contents
<1>2. \A k \in zero .. zero + n - 1 : Cells(s, h)[k] \in Elems
  OBVIOUS
<1>3. \A j \in 1 .. n : zero + j - 1 = j - 1
  OBVIOUS
<1> HIDE DEF zero, n
<1>4. /\ Items(s, h, zero, n) \in Seq(Elems) /\ Len(Items(s, h, zero, n)) = n
      /\ \A j \in 1 .. n : Items(s, h, zero, n)[j] = Cells(s, h)[zero + j - 1]
  BY <1>1, <1>2, ItemsAre
<1> QED BY <1>1, <1>3, <1>4 DEF n

(* And what they are.                                                      *)
LEMMA SameContents ==
  ASSUME NEW s, NEW h, NEW k \in Seq(Elems), LenOf(s, h) = Len(k),
         \A j \in 1 .. Len(k) : Cells(s, h)[j - 1] = k[j]
  PROVE  Contents(s, h) = k
<1>1. Len(k) \in Nat /\ \A j \in 1 .. Len(k) : k[j] \in Elems
  OBVIOUS
<1>2. ASSUME NEW i \in 0 .. LenOf(s, h) - 1
      PROVE  Cells(s, h)[i] \in Elems
  <2>1. i + 1 \in 1 .. Len(k) /\ (i + 1) - 1 = i
    BY <1>1
  <2>2. Cells(s, h)[(i + 1) - 1] = k[i + 1]
    BY <2>1
  <2> QED BY <1>1, <2>1, <2>2
<1> DEFINE c == Contents(s, h)
<1>3. c \in Seq(Elems) /\ Len(c) = Len(k) /\ \A j \in 1 .. Len(k) : c[j] = Cells(s, h)[j - 1]
  BY <1>1, <1>2, ContentsAre
<1> HIDE DEF c
<1>4. \A j \in 1 .. Len(c) : c[j] = k[j]
  BY <1>3
<1>5. c = k
  BY <1>3, <1>4, SeqEqual
<1> QED BY <1>5 DEF c

=============================================================================
