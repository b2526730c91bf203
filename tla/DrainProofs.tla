----------------------------- MODULE DrainProofs -----------------------------
(***************************************************************************)
(* Drain and Splice, as long as what they do is defined: whatever the user *)
(* code inside them does and wherever it panics, every element is in one   *)
(* place and every write is within the buffer, for vectors of any inline   *)
(* size, any range, any replacement and any lower bound of its size_hint.  *)
(* The elements that a borrow keeps apart from the length (the rest of the *)
(* range and the tail) are accounted for with the dropped ones, so that    *)
(* the accounting of SmallVec's own calls serves for the steps of a borrow.*)
(* Then the order: what a borrow puts together is what it took apart, with *)
(* what was spliced in between.                                            *)
(***************************************************************************)
EXTENDS Drain, OwnershipProofs

TailEnd == borrow.tail_start + borrow.tail_len

(* What the borrow keeps apart.                                            *)
Apart == IterItems \cup TailItems

Phases == {"free", "drain", "splice", "fill", "refill", "collect", "done", "extend",
           "extending", "unwinding", "poisoned"}

Borrows == [vec : Handles, tail_start : 0 .. MaxCap, tail_len : 0 .. MaxCap,
            front : 0 .. MaxCap, back : 0 .. MaxCap]

Fields ==
  /\ phase \in Phases
  /\ borrow \in Borrows
  /\ leaked \subseteq Elems

(* Where the length, the rest of the range and the tail are.               *)
Layout ==
  /\ phase = "free" => borrow = NoBorrow
  /\ phase # "free" => v \in live \cap SmallVecs /\ TailEnd <= Capacity(store, v)
  /\ IterOut =>
       /\ LenOf(store, v) <= borrow.front /\ borrow.front <= borrow.back
       /\ borrow.back <= borrow.tail_start
  /\ ~IterOut => borrow.front = 0 /\ borrow.back = 0
  /\ phase \in {"fill", "refill", "collect", "done"} => borrow.tail_len > 0
  /\ phase \in {"fill", "refill"} => LenOf(store, v) <= borrow.tail_start
  /\ phase \in {"collect", "done"} => LenOf(store, v) = borrow.tail_start
  /\ phase \in {"extend", "extending"} => borrow.tail_len = 0

(* The cells set aside hold elements of nobody else.                       *)
Aside ==
  /\ dropped \cap Apart = {} /\ IterItems \cap TailItems = {}
  /\ Holds(Cells(store, v), borrow.front, borrow.back, IterItems)
  /\ Holds(Cells(store, v), borrow.tail_start, TailEnd, TailItems)

AtStake == Elems \ leaked

DInv ==
  /\ Fields
  /\ Defined => /\ Accounts(store, caller, dropped \cup Apart, live, AtStake)
                /\ Layout /\ Aside

----------------------------------------------------------------------------
(* Facts about a borrow.                                                   *)

LEMMA FieldTypes ==
  ASSUME Fields
  PROVE  /\ v \in Handles
         /\ borrow.tail_start \in Nat /\ borrow.tail_len \in Nat
         /\ borrow.front \in Nat /\ borrow.back \in Nat /\ TailEnd \in Nat
         /\ borrow.tail_start <= MaxCap /\ borrow.back <= MaxCap
         /\ TailEnd = borrow.tail_start + borrow.tail_len
         /\ TailEnd - 1 = borrow.tail_start + borrow.tail_len - 1
  BY RawAssumption DEF Fields, Borrows, v, TailEnd

(* The vector of a borrow.                                                 *)
LEMMA VectorFacts ==
  ASSUME DInv, Defined, phase # "free"
  PROVE  /\ v \in live /\ v \in SmallVecs /\ TailEnd <= Capacity(store, v)
         /\ Bounded(store) /\ Sound(store)
         /\ LenOf(store, v) \in Nat /\ LenOf(store, v) <= Capacity(store, v)
         /\ Capacity(store, v) \in Nat /\ Capacity(store, v) <= MaxCap
         /\ Cells(store, v) \in Block /\ FitIn(Cells(store, v), Capacity(store, v))
         /\ Holds(Cells(store, v), 0, LenOf(store, v), Owned(store, v))
<1>1. v \in live /\ v \in SmallVecs /\ TailEnd <= Capacity(store, v) /\ v \in Handles
  BY DEF DInv, Layout, SmallVecs
<1>2. Bounded(store) /\ Sound(store)
  BY DEF DInv, Accounts, Bounded
<1>3. Distinct(store, v)
  BY <1>1 DEF DInv, Accounts, Own
<1>4. Holds(Cells(store, v), 0, LenOf(store, v), Owned(store, v))
  BY <1>3, HoldsOwned
<1>5. FitIn(Cells(store, v), Capacity(store, v))
  BY <1>1, <1>2, CellsFit
<1> QED BY <1>1, <1>2, <1>4, <1>5, SoundLen, RawAssumption

(* Nobody has two things.                                                  *)
LEMMA Disjoint ==
  ASSUME DInv, Defined, phase # "free"
  PROVE  /\ Owned(store, v) \cap (caller \cup dropped \cup IterItems \cup TailItems) = {}
         /\ caller \cap (dropped \cup IterItems \cup TailItems) = {}
         /\ dropped \cap (IterItems \cup TailItems) = {}
         /\ IterItems \cap TailItems = {}
         /\ Owned(store, v) \cup caller \cup dropped \cup IterItems \cup TailItems \subseteq AtStake
<1>1. v \in Handles
  BY DEF DInv, Layout, SmallVecs
<1> QED BY <1>1 DEF DInv, Accounts, Own, Aside, Apart

(* After a step in which the borrow goes on: i and t are set aside.        *)
LEMMA StillOut ==
  ASSUME Fields', NEW i, NEW t,
         Accounts(store', caller', dropped' \cup (i \cup t), live', AtStake'),
         Holds(Cells(store', v'), borrow.front', borrow.back', i),
         Holds(Cells(store', v'), borrow.tail_start', TailEnd', t),
         i \cap t = {}, dropped' \cap (i \cup t) = {}
  PROVE  Accounts(store', caller', dropped' \cup Apart', live', AtStake') /\ Aside'
<1>1. IterItems' = i
  <2>1. i = ItemsFrom(Cells(store', v'), borrow.front', borrow.back')
    BY HoldsItems
  <2> QED BY <2>1 DEF IterItems, ItemsFrom, Item
<1>2. TailItems' = t
  <2>1. t = ItemsFrom(Cells(store', v'), borrow.tail_start', TailEnd')
    BY HoldsItems
  <2>2. TailEnd' - 1 = borrow'.tail_start + borrow'.tail_len - 1
    BY RawAssumption DEF Fields, Borrows, TailEnd
  <2> QED BY <2>1, <2>2 DEF TailItems, ItemsFrom, Item
<1> QED BY <1>1, <1>2 DEF Apart, Aside

(* Without a range and a tail nothing is set aside.                        *)
LEMMA NothingAside ==
  ASSUME borrow'.front = 0, borrow'.back = 0, borrow'.tail_len = 0, borrow'.tail_start \in Nat
  PROVE  Apart' = {} /\ Aside' /\ dropped' \cup Apart' = dropped'
<1>1. TailEnd' = borrow'.tail_start /\ borrow'.tail_start \in Int
  BY DEF TailEnd
<1>2. IterItems' = {} /\ TailItems' = {}
  BY <1>1 DEF IterItems, TailItems
<1>3. /\ Holds(Cells(store', v'), borrow'.front, borrow'.back, {})
      /\ Holds(Cells(store', v'), borrow'.tail_start, TailEnd', {})
  BY <1>1, HoldsEmpty
<1> QED BY <1>2, <1>3 DEF Apart, Aside

(* After the step that ends it nothing is.                                 *)
LEMMA NoneOut ==
  ASSUME Accounts(store', caller', dropped', live', AtStake'), leaked' \subseteq Elems,
         borrow' = NoBorrow, phase' = "free"
  PROVE  DInv'
<1>1. /\ v' = Std /\ borrow'.front = 0 /\ borrow'.back = 0 /\ borrow'.tail_start = 0
      /\ borrow'.tail_len = 0
  BY DEF v, NoBorrow
<1>2. Aside' /\ dropped' \cup Apart' = dropped'
  BY <1>1, NothingAside
<1>3. Fields'
  BY <1>1, StdAssumption, RawAssumption DEF Fields, Phases, Borrows, NoBorrow
<1>4. Layout'
  BY <1>1 DEF Layout, IterOut
<1> QED BY <1>2, <1>3, <1>4 DEF DInv

----------------------------------------------------------------------------
(* The steps.                                                              *)

LEMMA FreeAccounts ==
  ASSUME DInv, phase = "free"
  PROVE  /\ Accounts(store, caller, dropped, live, AtStake) /\ borrow = NoBorrow /\ Apart = {}
         /\ leaked \subseteq Elems
<1>1. Defined /\ borrow = NoBorrow
  BY DEF Defined, DInv, Layout
<1>2. Apart = {}
  BY <1>1 DEF Apart, IterItems, TailItems, NoBorrow
<1>3. dropped \cup Apart = dropped
  BY <1>2
<1> QED BY <1>1, <1>2, <1>3 DEF DInv, Fields

LEMMA InitDrain == DrainInit => DInv
<1> SUFFICES ASSUME DrainInit PROVE DInv
  OBVIOUS
<1>1. OInv(Elems) /\ BInv
  BY InitOwns, InitBounded DEF DrainInit
<1>2. Accounts(store, caller, dropped, live, Elems)
  BY <1>1 DEF OInv, BInv, IInv, Accounts
<1>3. borrow = NoBorrow /\ phase = "free" /\ leaked = {}
  BY DEF DrainInit
<1>4. /\ v = Std /\ borrow.front = 0 /\ borrow.back = 0 /\ borrow.tail_start = 0
      /\ borrow.tail_len = 0
  BY <1>3 DEF v, NoBorrow
<1>5. Apart = {} /\ Aside
  <2>1. IterItems = {} /\ TailItems = {}
    BY <1>4 DEF IterItems, TailItems
  <2> QED BY <1>4, <2>1, HoldsEmpty DEF Apart, Aside, TailEnd
<1>6. Fields
  BY <1>3, <1>4, StdAssumption, RawAssumption DEF Fields, Phases, Borrows, NoBorrow
<1>7. Layout
  BY <1>3, <1>4 DEF Layout, IterOut
<1>8. dropped \cup Apart = dropped /\ AtStake = Elems
  BY <1>3, <1>5 DEF AtStake
<1> QED BY <1>2, <1>5, <1>6, <1>7, <1>8 DEF DInv

(* Calls between two borrows.                                              *)
LEMMA ProgramStep ==
  ASSUME DInv, Program
  PROVE  DInv'
<1>1. /\ Accounts(store, caller, dropped, live, AtStake) /\ borrow = NoBorrow
      /\ phase = "free" /\ leaked \subseteq Elems
  BY FreeAccounts DEF Program
<1>2. Accounts(store', caller', dropped', live', AtStake)
  BY <1>1, ProgramKeeps DEF Program
<1>3. borrow' = borrow /\ phase' = phase /\ leaked' = leaked
  BY DEF Program, dvars
<1>4. AtStake' = AtStake
  BY <1>3 DEF AtStake
<1>5. Accounts(store', caller', dropped', live', AtStake') /\ leaked' \subseteq Elems
      /\ borrow' = NoBorrow /\ phase' = "free"
  BY <1>1, <1>2, <1>3, <1>4
<1> QED BY <1>5, NoneOut

(* drain and splice cut the length and set the rest aside.                 *)
LEMMA BorrowBegins ==
  ASSUME DInv, NEW h \in Handles, NEW i \in 0 .. MaxCap, NEW j \in 0 .. MaxCap,
         NEW kind \in {"drain", "splice"}, Borrow(h, i, j, kind)
  PROVE  DInv'
<1> DEFINE len   == LenOf(store, h)
           src   == Cells(store, h)
           own   == ItemsFrom(src, 0, i)
           rest  == ItemsFrom(src, i, len)
           range == ItemsFrom(src, i, j)
           tail  == ItemsFrom(src, j, len)
           zero  == 0
<1>1. /\ phase = "free" /\ h \in live /\ h \in SmallVecs /\ i <= j /\ j <= len
      /\ store' = SetLen(store, h, i) /\ phase' = kind
      /\ borrow' = [vec |-> h, tail_start |-> j, tail_len |-> len - j, front |-> i, back |-> j]
      /\ live' = live /\ caller' = caller /\ dropped' = dropped /\ leaked' = leaked
  BY DEF Borrow
<1>2. /\ Accounts(store, caller, dropped, live, AtStake) /\ leaked \subseteq Elems
  BY <1>1, FreeAccounts
<1>3. /\ Bounded(store) /\ Sound(store) /\ src \in Block /\ FitIn(src, Capacity(store, h))
      /\ len \in Nat /\ len <= Capacity(store, h) /\ Capacity(store, h) \in 0 .. MaxCap
      /\ i \in Nat /\ j \in Nat /\ i \in Int /\ j \in Int /\ len \in Int
      /\ zero \in Int /\ zero <= i
      /\ Holds(src, zero, len, Owned(store, h))
  <2>1. Bounded(store) /\ Sound(store) /\ Distinct(store, h)
    BY <1>2 DEF Accounts, Bounded, Own
  <2>2. Holds(src, zero, len, Owned(store, h))
    BY <2>1, HoldsOwned
  <2>3. /\ src \in Block /\ len \in Nat /\ len <= Capacity(store, h)
        /\ Capacity(store, h) \in 0 .. MaxCap
    BY <2>1, SoundLen
  <2>4. FitIn(src, Capacity(store, h))
    BY <1>1, <2>1, CellsFit
  <2>5. i \in Nat /\ j \in Nat /\ i \in Int /\ j \in Int /\ zero \in Int /\ zero <= i
    BY RawAssumption
  <2>6. len \in Int
    BY <2>3
  <2> HIDE DEF len, src, zero
  <2> QED BY <2>1, <2>2, <2>3, <2>4, <2>5, <2>6
<1> HIDE DEF len, src, zero
<1>4. /\ Holds(src, zero, i, ItemsFrom(src, zero, i))
      /\ Holds(src, i, len, rest)
      /\ ItemsFrom(src, zero, i) \cap rest = {}
      /\ ItemsFrom(src, zero, i) \cup rest = Owned(store, h)
  <2>1. /\ zero \in Int /\ i \in Int /\ len \in Int /\ zero <= i /\ i <= len
        /\ Holds(src, zero, len, Owned(store, h))
    BY <1>1, <1>3
  <2> QED BY <2>1, HoldsCut
<1>5. /\ Holds(src, i, j, range) /\ Holds(src, j, len, tail)
      /\ range \cap tail = {} /\ range \cup tail = rest
  BY <1>1, <1>3, <1>4, HoldsCut
<1>6. Lays(store, h, src, i, own)
  BY <1>1, <1>3, <1>4, RawAssumption DEF Lays, zero
<1> HIDE DEF own, rest, range, tail
<1>7. own \cap rest = {} /\ own \cup rest = Owned(store, h)
  BY <1>4 DEF own, zero
<1>8. /\ Owned(store, h) \cap (caller \cup dropped) = {} /\ caller \cap dropped = {}
  BY <1>2 DEF Accounts, Own
<1>9. Shares(own, caller, dropped \cup (range \cup tail), Owned(store, h) \cup caller \cup dropped)
  BY <1>5, <1>7, <1>8 DEF Shares
<1>10. store' = Edited(store, h, src, i)
  BY <1>1, <1>3, SetLenWrites DEF src
<1>11. Accounts(store', caller, dropped \cup (range \cup tail), live, AtStake)
       /\ Wrote(store, store', h, src, i)
  BY <1>1, <1>2, <1>3, <1>6, <1>9, <1>10, GrownStays, AccountsWrite
<1>12. /\ Cells(store', h) = src /\ LenOf(store', h) = i
       /\ Capacity(store', h) = Capacity(store, h)
  BY <1>11 DEF Wrote
<1>13. /\ v' = h /\ borrow'.front = i /\ borrow'.back = j /\ borrow'.tail_start = j
       /\ borrow'.tail_len = len - j /\ TailEnd' = len
  BY <1>1, <1>3 DEF v, TailEnd
<1>14. Fields'
  <2>1. len \in Nat /\ len <= MaxCap /\ j \in Nat /\ j <= len /\ MaxCap \in Nat
    BY <1>1, <1>3, RawAssumption
  <2>2. len - j \in 0 .. MaxCap
    BY <2>1
  <2> QED BY <1>1, <1>2, <2>2 DEF Fields, Phases, Borrows
<1>15. Accounts(store', caller', dropped' \cup Apart', live', AtStake') /\ Aside'
  <2>1. AtStake = AtStake'
    BY <1>1 DEF AtStake
  <2>2. dropped' \cap (range \cup tail) = {}
    BY <1>1, <1>5, <1>7, <1>8
  <2> QED BY <1>1, <1>5, <1>11, <1>12, <1>13, <1>14, <2>1, <2>2, StillOut
<1>16. Layout'
  BY <1>1, <1>3, <1>12, <1>13 DEF Layout, IterOut
<1> QED BY <1>14, <1>15, <1>16 DEF DInv

(* What is left once n cells from i are wiped: r in a .. b - 1, and the    *)
(* tail.                                                                   *)
Wiped(i, n, a, b, r, c2, d2, x) ==
  LET cells == Wipe(Cells(store, v), i, n)
  IN  /\ Accounts(x, c2, d2 \cup (r \cup TailItems), live, AtStake)
      /\ Wrote(store, x, v, cells, LenOf(store, v))
      /\ Holds(cells, a, b, r) /\ Holds(cells, borrow.tail_start, TailEnd, TailItems)

LEMMA RangeWiped ==
  ASSUME DInv, IterOut, NEW i \in Nat, NEW n \in Nat, borrow.front <= i, i + n <= borrow.back,
         NEW a \in Nat, NEW b \in Nat, b <= MaxCap, b <= i \/ i + n <= a,
         NEW r, Holds(Cells(store, v), a, b, r), NEW c2, NEW d2,
         Shares(Owned(store, v), c2, d2 \cup (r \cup TailItems),
                Owned(store, v) \cup caller \cup (dropped \cup Apart)),
         NEW x, x = Edited(store, v, Wipe(Cells(store, v), i, n), LenOf(store, v))
  PROVE  Wiped(i, n, a, b, r, c2, d2, x)
<1> DEFINE src  == Cells(store, v)
           len  == LenOf(store, v)
           cells == Wipe(src, i, n)
           from == borrow.tail_start
           zero == 0
<1>1. Defined /\ phase # "free"
  BY DEF IterOut, Defined
<1>2. /\ v \in live /\ Bounded(store) /\ Sound(store) /\ src \in Block
      /\ FitIn(src, Capacity(store, v)) /\ len <= Capacity(store, v)
      /\ Capacity(store, v) \in Nat /\ Capacity(store, v) <= MaxCap /\ TailEnd <= Capacity(store, v)
      /\ Holds(src, zero, len, Owned(store, v))
  BY <1>1, VectorFacts
<1>3. /\ v \in Handles /\ from \in Nat /\ TailEnd \in Nat /\ len \in Nat /\ zero \in Nat
      /\ MaxCap \in Nat /\ borrow.front \in Nat /\ borrow.back \in Nat
  BY <1>1, VectorFacts, FieldTypes, RawAssumption DEF DInv
<1>4. len <= borrow.front /\ borrow.front <= borrow.back /\ borrow.back <= from
  BY <1>1 DEF DInv, Layout
<1>5. Holds(src, from, TailEnd, TailItems)
  BY <1>1 DEF DInv, Aside
<1>0. Holds(src, a, b, r) /\ cells = Wipe(src, i, n) /\ x = Edited(store, v, cells, len)
  OBVIOUS
<1> HIDE DEF src, len, from, zero, cells
<1>6. Holds(cells, a, b, r)
  <2>1. \A k \in a .. b - 1 : cells[k] = src[k]
    BY <1>0, <1>2, WipeSpares
  <2> QED BY <1>0, <2>1, HoldsSame
<1>7. Holds(cells, zero, len, Owned(store, v))
  <2>1. len <= MaxCap /\ len <= i
    BY <1>2, <1>3, <1>4
  <2>2. /\ src \in Block /\ n \in Int /\ len \in Int /\ zero \in Nat
        /\ cells = Wipe(src, i, n)
    BY <1>0, <1>2, <1>3
  <2>3. \A k \in zero .. len - 1 : cells[k] = src[k]
    BY <2>1, <2>2, WipeSpares
  <2>4. zero \in Int /\ Holds(src, zero, len, Owned(store, v))
    BY <1>2, <1>3
  <2> QED BY <2>2, <2>3, <2>4, HoldsSame
<1>8. Holds(cells, from, TailEnd, TailItems)
  <2>1. TailEnd <= MaxCap /\ i + n <= from
    BY <1>2, <1>3, <1>4
  <2>2. /\ src \in Block /\ n \in Int /\ TailEnd \in Int /\ from \in Nat /\ from \in Int
        /\ cells = Wipe(src, i, n)
    BY <1>0, <1>2, <1>3
  <2>3. \A k \in from .. TailEnd - 1 : cells[k] = src[k]
    BY <2>1, <2>2, WipeSpares
  <2> QED BY <1>5, <2>2, <2>3, HoldsSame
<1>9. cells \in Block /\ FitIn(cells, Capacity(store, v))
  BY <1>0, <1>2, <1>3, WipeType, WipeFits
<1>10. Lays(store, v, cells, len, Owned(store, v))
  BY <1>2, <1>3, <1>7, <1>9 DEF Lays, zero
<1>11. /\ Accounts(store, caller, dropped \cup Apart, live, AtStake) /\ Grown(store, store, v)
  BY <1>1, <1>2, GrownStays DEF DInv
<1>12. Accounts(x, c2, d2 \cup (r \cup TailItems), live, AtStake) /\ Wrote(store, x, v, cells, len)
  BY <1>0, <1>2, <1>10, <1>11, AccountsWrite
<1> QED BY <1>6, <1>8, <1>12 DEF Wiped, from, len, src, cells

(* One item is read out at either end.                                     *)
LEMMA YieldKeeps ==
  ASSUME DInv, NEW i \in Nat, Yield(i), NEW a \in Nat, NEW b \in Nat,
         \/ i = borrow.front /\ a = i + 1 /\ b = borrow.back
         \/ b = borrow.back - 1 /\ i = b /\ a = borrow.front,
         borrow' = [borrow EXCEPT !.front = a, !.back = b]
  PROVE  DInv'
<1> DEFINE src   == Cells(store, v)
           cells == Wipe(src, i, 1)
           from  == borrow.front
           to    == borrow.back
           e     == src[i]
           one   == 1
           r     == ItemsFrom(src, a, b)
<1>1. /\ IterOut /\ Defined /\ phase # "free" /\ from < to /\ borrow \in Borrows
      /\ store' = Edited(store, v, cells, LenOf(store, v))
      /\ caller' = caller \cup {e} /\ phase' = phase
      /\ live' = live /\ dropped' = dropped /\ leaked' = leaked
  BY DEF Yield, IterOut, Defined, DInv, Fields, Item
<1>2. /\ from \in Nat /\ to \in Nat /\ one \in Nat /\ MaxCap \in Nat /\ to <= MaxCap
  BY FieldTypes, RawAssumption DEF DInv
<1>3. /\ v' = v /\ borrow'.front = a /\ borrow'.back = b
      /\ borrow'.tail_start = borrow.tail_start /\ borrow'.tail_len = borrow.tail_len
      /\ TailEnd' = TailEnd
  BY <1>1 DEF v, Borrows, TailEnd
<1>4. Holds(src, from, to, IterItems) /\ dropped \cap Apart = {} /\ IterItems \cap TailItems = {}
  BY <1>1 DEF DInv, Aside
<1>5. Holds(src, i, i + 1, {e})
  BY HoldsOne
<1> HIDE DEF src, cells, from, to, e
<1>6. /\ Holds(src, a, b, r) /\ {e} \cap r = {} /\ {e} \cup r = IterItems
  <2>1. CASE i = from /\ a = i + 1 /\ b = to
    <3>1. from \in Int /\ a \in Int /\ to \in Int /\ from <= a /\ a <= to
      BY <1>1, <1>2, <2>1
    <3>2. /\ Holds(src, a, to, ItemsFrom(src, a, to))
          /\ ItemsFrom(src, from, a) \cap ItemsFrom(src, a, to) = {}
          /\ ItemsFrom(src, from, a) \cup ItemsFrom(src, a, to) = IterItems
      BY <1>4, <3>1, HoldsCut
    <3>3. ItemsFrom(src, from, a) = {e}
      BY <1>5, <2>1, HoldsItems
    <3> QED BY <2>1, <3>2, <3>3
  <2>2. CASE b = to - 1 /\ i = b /\ a = from
    <3>1. from \in Int /\ b \in Int /\ to \in Int /\ from <= b /\ b <= to /\ to = i + 1
      BY <1>1, <1>2, <2>2
    <3>2. /\ Holds(src, from, b, ItemsFrom(src, from, b))
          /\ ItemsFrom(src, from, b) \cap ItemsFrom(src, b, to) = {}
          /\ ItemsFrom(src, from, b) \cup ItemsFrom(src, b, to) = IterItems
      BY <1>4, <3>1, HoldsCut
    <3>3. ItemsFrom(src, b, to) = {e}
      BY <1>5, <2>2, <3>1, HoldsItems
    <3> QED BY <2>2, <3>2, <3>3
  <2> QED BY <2>1, <2>2 DEF from, to
<1> HIDE DEF r
<1>7. Shares(Owned(store, v), caller \cup {e}, dropped \cup (r \cup TailItems),
             Owned(store, v) \cup caller \cup (dropped \cup Apart))
  BY <1>1, <1>4, <1>6, Disjoint DEF Shares, Apart
<1>8. from <= i /\ i + one <= to /\ a <= to /\ b <= MaxCap /\ (b <= i \/ i + one <= a)
  BY <1>1, <1>2 DEF from, to, one
<1>9. cells = Wipe(src, i, one)
  BY DEF cells, one
<1> HIDE DEF one
<1>10. /\ Accounts(store', caller \cup {e}, dropped \cup (r \cup TailItems), live, AtStake)
       /\ Wrote(store, store', v, cells, LenOf(store, v))
       /\ Holds(cells, a, b, r) /\ Holds(cells, borrow.tail_start, TailEnd, TailItems)
  <2>1. /\ store' = Edited(store, v, Wipe(Cells(store, v), i, one), LenOf(store, v))
        /\ Holds(Cells(store, v), a, b, r)
        /\ borrow.front <= i /\ i + one <= borrow.back /\ IterOut
    BY <1>1, <1>6, <1>8, <1>9 DEF src, from, to
  <2>2. Wiped(i, one, a, b, r, caller \cup {e}, dropped, store')
    BY <1>2, <1>7, <1>8, <2>1, RangeWiped
  <2> QED BY <1>9, <2>2 DEF Wiped, src
<1>11. /\ Cells(store', v') = cells /\ LenOf(store', v') = LenOf(store, v)
       /\ Capacity(store', v') = Capacity(store, v)
  BY <1>3, <1>10 DEF Wrote
<1>12. Fields'
  <2>1. a \in 0 .. MaxCap /\ b \in 0 .. MaxCap
    BY <1>1, <1>2, <1>8
  <2> QED BY <1>1, <2>1 DEF Fields, Borrows, DInv
<1>13. Accounts(store', caller', dropped' \cup Apart', live', AtStake') /\ Aside'
  <2>1. AtStake' = AtStake
    BY <1>1 DEF AtStake
  <2>2. r \cap TailItems = {} /\ dropped' \cap (r \cup TailItems) = {}
    BY <1>1, <1>4, <1>6 DEF Apart
  <2> QED BY <1>1, <1>3, <1>10, <1>11, <1>12, <2>1, <2>2, StillOut
<1>14. Layout'
  <2>1. LenOf(store, v) \in Nat /\ borrow.tail_start \in Nat
    BY <1>1, VectorFacts, FieldTypes DEF DInv
  <2>2. Layout
    BY <1>1 DEF DInv
  <2> QED BY <1>1, <1>2, <1>3, <1>11, <2>1, <2>2 DEF Layout, IterOut, from, to
<1> QED BY <1>12, <1>13, <1>14 DEF DInv

LEMMA NextStep ==
  ASSUME DInv, NextFront \/ NextBack
  PROVE  DInv'
<1>1. /\ borrow.front \in Nat /\ borrow.back \in Nat /\ borrow.front < borrow.back
      /\ borrow \in Borrows
  BY FieldTypes DEF NextFront, NextBack, Yield, DInv, Fields
<1>2. CASE NextFront
  <2>1. borrow' = [borrow EXCEPT !.front = borrow.front + 1, !.back = borrow.back]
    BY <1>1, <1>2 DEF NextFront, Borrows
  <2>2. borrow.front + 1 \in Nat
    BY <1>1
  <2> QED BY <1>1, <1>2, <2>1, <2>2, YieldKeeps DEF NextFront
<1>3. CASE NextBack
  <2>1. borrow' = [borrow EXCEPT !.front = borrow.front, !.back = borrow.back - 1]
    BY <1>1, <1>3 DEF NextBack, Borrows
  <2>2. borrow.back - 1 \in Nat
    BY <1>1
  <2> QED BY <1>1, <1>3, <2>1, <2>2, YieldKeeps DEF NextBack
<1> QED BY <1>2, <1>3

(* mem::forget gives up what was set aside.                                *)
LEMMA ForgetStep ==
  ASSUME DInv, Forget
  PROVE  DInv'
<1>1. /\ Defined /\ phase # "free" /\ leaked' = leaked \cup Apart
      /\ borrow' = NoBorrow /\ phase' = "free"
      /\ store' = store /\ caller' = caller /\ dropped' = dropped /\ live' = live
  BY DEF Forget, IterOut, Defined, EndBorrow, vars, Apart
<1>2. /\ Accounts(store, caller, dropped \cup Apart, live, AtStake) /\ dropped \cap Apart = {}
      /\ Apart \subseteq AtStake /\ leaked \subseteq Elems
  BY <1>1, Disjoint DEF DInv, Aside, Apart, Fields
<1>3. Accounts(store, caller, dropped, live, AtStake \ Apart)
  BY <1>2, AccountsLess
<1>4. AtStake' = AtStake \ Apart /\ leaked' \subseteq Elems
  BY <1>1, <1>2 DEF AtStake
<1>5. Accounts(store', caller', dropped', live', AtStake')
  BY <1>1, <1>3, <1>4
<1> QED BY <1>1, <1>4, <1>5, NoneOut

(* The tail t moves down to the length of v, which then covers it.         *)
LEMMA TailRestored ==
  ASSUME Fields, NEW E, NEW s, NEW c, NEW d, NEW l, NEW t, Accounts(s, c, d \cup t, l, E),
         v \in l, TailEnd <= Capacity(s, v),
         borrow.tail_len > 0 => LenOf(s, v) <= borrow.tail_start,
         Holds(Cells(s, v), borrow.tail_start, TailEnd, t), t \cap d = {}
  PROVE  Accounts(Restored(s), c, d, l, E)
<1> DEFINE src   == Cells(s, v)
           to    == LenOf(s, v)
           from  == borrow.tail_start
           n     == borrow.tail_len
           cells == Shift(src, from, to, n)
           len   == to + n
           zero  == 0
           own   == Owned(s, v)
<1>1. /\ v \in Handles /\ from \in Nat /\ n \in Nat /\ TailEnd \in Nat /\ TailEnd = from + n
      /\ MaxCap \in Nat /\ zero \in Nat
  BY FieldTypes, RawAssumption
<1>2. CASE n = 0
  <2>1. t = {}
    BY <1>1, <1>2 DEF Holds
  <2>2. Restored(s) = s /\ d \cup t = d
    BY <1>2, <2>1 DEF Restored
  <2> QED BY <2>2
<1>3. CASE n # 0
  <2>1. to <= from /\ n > 0
    BY <1>1, <1>3
  <2>2. Bounded(s) /\ Sound(s) /\ Distinct(s, v) /\ v \in l
    BY DEF Accounts, Bounded, Own
  <2>3. /\ src \in Block /\ to \in Nat /\ Capacity(s, v) \in Nat
        /\ Capacity(s, v) <= MaxCap /\ FitIn(src, Capacity(s, v))
    BY <1>1, <2>2, SoundLen, CellsFit
  <2>4. Holds(src, zero, to, own) /\ Holds(src, from, TailEnd, t)
    BY <2>2, HoldsOwned
  <2>5. /\ own \cap (c \cup (d \cup t)) = {} /\ c \cap (d \cup t) = {}
    BY <2>2 DEF Accounts, Own
  <2>6. Restored(s) = Edited(s, v, cells, len)
    BY <2>1 DEF Restored
  <2> HIDE DEF src, to, from, n, cells, len, zero, own
  <2>7. len \in Nat /\ len <= TailEnd /\ TailEnd <= MaxCap /\ len <= MaxCap /\ len = to + n
    BY <1>1, <2>1, <2>3 DEF len
  <2>0. /\ src \in Block /\ from \in Nat /\ to \in Nat /\ n \in Nat /\ zero \in Nat /\ from + n <= MaxCap
        /\ to + n = len /\ len <= MaxCap /\ cells = Shift(src, from, to, n)
    BY <1>1, <2>3, <2>7 DEF cells
  <2>8. Holds(cells, zero, to, own)
    <3>1. to \in Int /\ to <= MaxCap /\ to <= from
      BY <1>1, <2>1, <2>3, <2>7
    <3> QED BY <2>0, <2>4, <3>1, ShiftHolds
  <2>9. Holds(cells, to, len, t)
    <3>1. TailEnd = from + n /\ len = to + n
      BY <1>1, <2>0
    <3> QED BY <2>0, <2>4, <3>1, ShiftBrings
  <2>10. Holds(cells, zero, len, own \cup t)
    <3>1. own \cap t = {}
      BY <2>5
    <3>2. zero \in Int /\ to \in Int /\ len \in Int /\ zero <= to /\ to <= len
      BY <1>1, <2>3, <2>7 DEF zero
    <3> QED BY <2>8, <2>9, <3>1, <3>2, HoldsJoin
  <2>11. cells \in Block /\ FitIn(cells, Capacity(s, v)) /\ len <= Capacity(s, v)
    <3>1. to + n <= Capacity(s, v) /\ len <= Capacity(s, v) /\ n \in Int /\ Capacity(s, v) \in Nat
      BY <1>1, <2>3, <2>7
    <3>2. FitIn(src, Capacity(s, v))
      BY <2>3
    <3>3. FitIn(cells, Capacity(s, v))
      BY <2>0, <3>1, <3>2, ShiftFits
    <3> QED BY <2>0, <3>1, <3>3, ShiftType
  <2>12. Lays(s, v, cells, len, own \cup t)
    BY <2>7, <2>10, <2>11 DEF Lays, zero
  <2>13. Shares(own \cup t, c, d, Owned(s, v) \cup c \cup (d \cup t))
    BY <2>5 DEF Shares, own
  <2>14. Grown(s, s, v)
    BY <2>2, GrownStays
  <2> QED BY <2>2, <2>6, <2>12, <2>13, <2>14, AccountsWrite
<1> QED BY <1>2, <1>3

(* Outside the iteration only the tail is set aside.                       *)
LEMMA TailOnly ==
  ASSUME DInv, Defined, ~IterOut, phase # "free"
  PROVE  /\ IterItems = {} /\ Apart = TailItems
         /\ borrow.tail_len > 0 => LenOf(store, v) <= borrow.tail_start
         /\ borrow.front = 0 /\ borrow.back = 0
<1>1. Layout /\ Fields /\ LenOf(store, v) \in Nat /\ borrow.tail_start \in Nat
  BY VectorFacts, FieldTypes DEF DInv
<1>2. borrow.front = 0 /\ borrow.back = 0
  BY <1>1 DEF Layout
<1>3. IterItems = {}
  BY <1>2 DEF IterItems
<1>4. borrow.tail_len > 0 => LenOf(store, v) <= borrow.tail_start
  BY <1>1 DEF Layout, Fields, Phases, IterOut, Defined
<1> QED BY <1>2, <1>3, <1>4 DEF Apart

(* Drop for Drain while the vector was not touched since the iteration.    *)
LEMMA ReturnStep ==
  ASSUME DInv, Return
  PROVE  DInv'
<1>1. /\ Defined /\ ~IterOut /\ phase # "free" /\ store' = Restored(store)
      /\ borrow' = NoBorrow /\ phase' = "free"
      /\ caller' = caller /\ dropped' = dropped /\ live' = live /\ leaked' = leaked
  BY DEF Return, IterOut, Defined, EndBorrow
<1>2. /\ Accounts(store, caller, dropped \cup TailItems, live, AtStake) /\ Fields
      /\ Holds(Cells(store, v), borrow.tail_start, TailEnd, TailItems)
      /\ TailItems \cap dropped = {}
  BY <1>1, TailOnly DEF DInv, Aside
<1>3. /\ v \in live /\ TailEnd <= Capacity(store, v)
      /\ borrow.tail_len > 0 => LenOf(store, v) <= borrow.tail_start
  BY <1>1, TailOnly, VectorFacts
<1>4. Accounts(Restored(store), caller, dropped, live, AtStake)
  BY <1>2, <1>3, TailRestored
<1>5. AtStake' = AtStake /\ leaked' \subseteq Elems
  BY <1>1, <1>2 DEF AtStake, Fields
<1>6. Accounts(store', caller', dropped', live', AtStake')
  BY <1>1, <1>4, <1>5
<1> QED BY <1>1, <1>5, <1>6, NoneOut

(* What is given to collect and dropped again.                             *)
LEMMA CollectPanicsStep ==
  ASSUME DInv, NEW n \in Nat, CollectPanics(n)
  PROVE  DInv'
<1>1. PICK f \in Arrays(n) : caller' = caller \ Taken(f, n) /\ dropped' = dropped \cup Taken(f, n)
  BY DEF CollectPanics
<1>2. /\ Defined /\ ~IterOut /\ phase # "free" /\ store' = Restored(store)
      /\ borrow' = NoBorrow /\ phase' = "free" /\ live' = live /\ leaked' = leaked
  BY DEF CollectPanics, CanCollect, RangeFilled, IterOut, Defined, EndBorrow
<1>3. /\ Accounts(store, caller, dropped \cup TailItems, live, AtStake) /\ Fields
      /\ Holds(Cells(store, v), borrow.tail_start, TailEnd, TailItems)
      /\ TailItems \cap dropped = {} /\ caller \cap (dropped \cup TailItems) = {}
  BY <1>2, TailOnly, Disjoint DEF DInv, Aside
<1>4. /\ v \in live /\ TailEnd <= Capacity(store, v)
      /\ borrow.tail_len > 0 => LenOf(store, v) <= borrow.tail_start
  BY <1>2, TailOnly, VectorFacts
<1> DEFINE taken == Taken(f, n)
<1>5. taken \subseteq caller
  BY DEF Arrays, Taken
<1> HIDE DEF taken
<1>6. /\ caller' = caller \ taken /\ dropped' = dropped \cup taken
  BY <1>1 DEF taken
<1>7. Shares({}, caller', dropped' \cup TailItems, caller \cup (dropped \cup TailItems))
  BY <1>3, <1>5, <1>6 DEF Shares
<1>8. Accounts(store, caller', dropped' \cup TailItems, live, AtStake)
  BY <1>3, <1>7, AccountsShare
<1>9. TailItems \cap dropped' = {}
  BY <1>3, <1>5, <1>6
<1>10. Accounts(Restored(store), caller', dropped', live, AtStake)
  BY <1>3, <1>4, <1>8, <1>9, TailRestored
<1>11. AtStake' = AtStake /\ leaked' \subseteq Elems
  BY <1>2, <1>3 DEF AtStake, Fields
<1>12. Accounts(store', caller', dropped', live', AtStake')
  BY <1>2, <1>10, <1>11
<1> QED BY <1>2, <1>11, <1>12, NoneOut

(* The rest of the range is dropped in place.                              *)
LEMMA RestDropped ==
  ASSUME DInv, IterOut
  PROVE  /\ Accounts(RangeDropped, caller, (dropped \cup IterItems) \cup TailItems, live, AtStake)
         /\ Holds(Cells(RangeDropped, v), borrow.tail_start, TailEnd, TailItems)
         /\ LenOf(RangeDropped, v) = LenOf(store, v)
         /\ Capacity(RangeDropped, v) = Capacity(store, v)
         /\ TailItems \cap (dropped \cup IterItems) = {}
<1> DEFINE n    == borrow.back - borrow.front
           i    == borrow.front
           zero == 0
           none == {}
           d    == dropped \cup IterItems
           x    == RangeDropped
<1>1. Defined /\ phase # "free"
  BY DEF IterOut, Defined
<1>2. borrow.front \in Nat /\ borrow.back \in Nat /\ borrow.front <= borrow.back
  BY <1>1, FieldTypes DEF DInv, Layout
<1>3. /\ n \in Nat /\ i \in Nat /\ zero \in Nat /\ zero <= MaxCap /\ zero <= i
      /\ borrow.front <= i /\ i + n <= borrow.back
  BY <1>2, RawAssumption
<1>4. Holds(Cells(store, v), zero, zero, none)
  BY HoldsEmpty
<1>5. dropped \cap (IterItems \cup TailItems) = {} /\ IterItems \cap TailItems = {}
      /\ caller \cap (dropped \cup IterItems \cup TailItems) = {}
      /\ Owned(store, v) \cap (caller \cup dropped \cup IterItems \cup TailItems) = {}
  BY <1>1, Disjoint
<1>6. Shares(Owned(store, v), caller, d \cup (none \cup TailItems),
             Owned(store, v) \cup caller \cup (dropped \cup Apart))
  BY <1>5 DEF Shares, Apart
<1>7. x = Edited(store, v, Wipe(Cells(store, v), i, n), LenOf(store, v))
  BY DEF RangeDropped
<1> HIDE DEF n, i, zero, none, d, x
<1>8. Wiped(i, n, zero, zero, none, caller, d, x)
  BY <1>3, <1>4, <1>6, <1>7, RangeWiped
<1>9. d \cup (none \cup TailItems) = d \cup TailItems
  BY DEF none
<1>10. /\ Accounts(x, caller, d \cup TailItems, live, AtStake)
       /\ Holds(Cells(x, v), borrow.tail_start, TailEnd, TailItems)
       /\ LenOf(x, v) = LenOf(store, v) /\ Capacity(x, v) = Capacity(store, v)
  BY <1>8, <1>9 DEF Wiped, Wrote
<1> QED BY <1>5, <1>10 DEF d, x

LEMMA DropDrainStep ==
  ASSUME DInv, DropDrain
  PROVE  DInv'
<1> DEFINE d == dropped \cup IterItems
           s == RangeDropped
<1>1. /\ IterOut /\ Defined /\ phase # "free"
      /\ store' = Restored(s) /\ dropped' = d
      /\ borrow' = NoBorrow /\ phase' = "free"
      /\ caller' = caller /\ live' = live /\ leaked' = leaked
  BY DEF DropDrain, IterOut, Defined, EndBorrow
<1>2. /\ Accounts(s, caller, d \cup TailItems, live, AtStake)
      /\ Holds(Cells(s, v), borrow.tail_start, TailEnd, TailItems)
      /\ LenOf(s, v) = LenOf(store, v) /\ Capacity(s, v) = Capacity(store, v)
      /\ TailItems \cap d = {}
  BY <1>1, RestDropped
<1> HIDE DEF d, s
<1>3. /\ v \in live /\ TailEnd <= Capacity(s, v) /\ Fields
      /\ borrow.tail_len > 0 => LenOf(s, v) <= borrow.tail_start
  <2>1. /\ LenOf(store, v) \in Nat /\ borrow.front \in Nat /\ borrow.back \in Nat
        /\ borrow.tail_start \in Nat /\ Fields /\ Layout
    BY <1>1, VectorFacts, FieldTypes DEF DInv
  <2>2. LenOf(store, v) <= borrow.tail_start
    BY <1>1, <2>1 DEF Layout
  <2> QED BY <1>1, <1>2, <2>1, <2>2, VectorFacts
<1>4. Accounts(Restored(s), caller, d, live, AtStake)
  BY <1>2, <1>3, TailRestored
<1>5. AtStake' = AtStake /\ leaked' \subseteq Elems
  BY <1>1, <1>3 DEF AtStake, Fields
<1>6. Accounts(store', caller', dropped', live', AtStake')
  BY <1>1, <1>4, <1>5
<1> QED BY <1>1, <1>5, <1>6, NoneOut

LEMMA DropSpliceStep ==
  ASSUME DInv, DropSplice
  PROVE  DInv'
<1> DEFINE d    == dropped \cup IterItems
           none == {}
<1>1. /\ IterOut /\ Defined /\ phase # "free"
      /\ store' = RangeDropped /\ dropped' = d
      /\ phase' = IF borrow.tail_len = 0 THEN "extend" ELSE "fill"
      /\ borrow \in Borrows /\ borrow' = [borrow EXCEPT !.front = 0, !.back = 0]
      /\ caller' = caller /\ live' = live /\ leaked' = leaked
  BY DEF DropSplice, IterOut, Defined, DInv, Fields
<1>2. /\ Accounts(store', caller, d \cup TailItems, live, AtStake)
      /\ Holds(Cells(store', v), borrow.tail_start, TailEnd, TailItems)
      /\ LenOf(store', v) = LenOf(store, v) /\ Capacity(store', v) = Capacity(store, v)
      /\ TailItems \cap d = {}
  BY <1>1, RestDropped
<1> HIDE DEF d, none
<1>3. /\ v' = v /\ borrow'.front = 0 /\ borrow'.back = 0
      /\ borrow'.tail_start = borrow.tail_start /\ borrow'.tail_len = borrow.tail_len
      /\ TailEnd' = TailEnd
  BY <1>1 DEF v, Borrows, TailEnd
<1>4. Fields'
  <2>1. phase' \in Phases
    BY <1>1 DEF Phases
  <2>2. 0 \in 0 .. MaxCap
    BY RawAssumption
  <2>3. borrow' \in Borrows
    BY <1>1, <2>2 DEF Borrows
  <2> QED BY <1>1, <2>1, <2>3 DEF Fields, DInv
<1>5. Accounts(store', caller', dropped' \cup Apart', live', AtStake') /\ Aside'
  <2>1. AtStake' = AtStake
    BY <1>1 DEF AtStake
  <2>2. Holds(Cells(store', v'), borrow'.front, borrow'.back, none)
    BY <1>3, HoldsEmpty DEF none
  <2>3. none \cap TailItems = {} /\ dropped' \cap (none \cup TailItems) = {}
        /\ dropped' \cup (none \cup TailItems) = d \cup TailItems
    BY <1>1, <1>2 DEF none
  <2> QED BY <1>1, <1>2, <1>3, <1>4, <2>1, <2>2, <2>3, StillOut
<1>6. Layout'
  <2>1. /\ LenOf(store, v) \in Nat /\ borrow.front \in Nat /\ borrow.back \in Nat
        /\ borrow.tail_start \in Nat /\ borrow.tail_len \in Nat /\ Layout
    BY <1>1, VectorFacts, FieldTypes DEF DInv
  <2>2. LenOf(store, v) <= borrow.tail_start
    BY <1>1, <2>1 DEF Layout
  <2> QED BY <1>1, <1>2, <1>3, <2>1, <2>2, VectorFacts DEF Layout, IterOut
<1> QED BY <1>4, <1>5, <1>6 DEF DInv

(* The vector grows behind its last element: no tail.                      *)
LEMMA ExtendStep ==
  ASSUME DInv, phase \in {"extend", "extending"}, phase' = "extending", borrow' = borrow,
         leaked' = leaked, Accounts(store', caller', dropped', live', AtStake),
         live' = live, Capacity(store', v) \in Nat, Capacity(store', v) >= Capacity(store, v)
  PROVE  DInv'
<1>1. Defined /\ phase # "free" /\ ~IterOut
  BY DEF Defined, IterOut
<1>2. /\ v' = v /\ TailEnd' = TailEnd /\ borrow.front = 0 /\ borrow.back = 0
      /\ borrow.tail_len = 0 /\ borrow.tail_start \in Nat /\ TailEnd = borrow.tail_start
  BY <1>1, FieldTypes DEF v, TailEnd, DInv, Layout
<1>3. Fields'
  BY DEF DInv, Fields, Phases
<1>4. Accounts(store', caller', dropped' \cup Apart', live', AtStake') /\ Aside'
  <2>1. AtStake' = AtStake
    BY DEF AtStake
  <2>2. Aside' /\ dropped' \cup Apart' = dropped'
    BY <1>2, NothingAside
  <2> QED BY <2>1, <2>2
<1>5. Layout'
  BY <1>1, <1>2, VectorFacts DEF Layout, IterOut
<1> QED BY <1>3, <1>4, <1>5 DEF DInv

(* Without a tail nothing is set aside.                                    *)
LEMMA ExtendAccounts ==
  ASSUME DInv, phase \in {"extend", "extending"}
  PROVE  Accounts(store, caller, dropped, live, AtStake) /\ leaked \subseteq Elems
<1>1. Defined /\ phase # "free" /\ ~IterOut /\ Layout
  BY DEF Defined, IterOut, DInv
<1>2. borrow.front = 0 /\ borrow.back = 0 /\ borrow.tail_len = 0 /\ borrow.tail_start \in Nat
  BY <1>1, FieldTypes DEF DInv, Layout
<1>3. Apart = {}
  BY <1>2 DEF Apart, IterItems, TailItems
<1>4. dropped \cup Apart = dropped
  BY <1>3
<1> QED BY <1>1, <1>4 DEF DInv, Fields

LEMMA ExtendReserveStep ==
  ASSUME DInv, NEW n \in Nat, ExtendReserve(n)
  PROVE  DInv'
<1>1. /\ phase \in {"extend", "extending"} /\ phase' = "extending" /\ Defined /\ phase # "free"
      /\ store' \in Reserve(store, v, n)
      /\ live' = live /\ caller' = caller /\ dropped' = dropped /\ borrow' = borrow /\ leaked' = leaked
  BY DEF ExtendReserve, Defined
<1>2. Accounts(store, caller, dropped, live, AtStake)
  BY <1>1, ExtendAccounts
<1>3. v \in Handles /\ v \in live /\ v \in SmallVecs /\ Bounded(store) /\ Capacity(store, v) \in Nat
  BY <1>1, VectorFacts DEF SmallVecs
<1>4. ReserveCall(v, n)
  BY <1>1, <1>3 DEF ReserveCall, Resize
<1>5. Accounts(store', caller', dropped', live', AtStake)
  BY <1>2, <1>3, <1>4, ReserveKeeps
<1>6. Capacity(store', v) >= Capacity(store, v) /\ Capacity(store', v) \in Nat
  <2>1. Bounded(store') /\ Sound(store')
    BY <1>5 DEF Accounts, Bounded
  <2>2. Capacity(store', v) \in Nat
    BY <1>3, <2>1, SoundLen
  <2> QED BY <1>1, <1>3, <2>2, ReserveGrows
<1> QED BY <1>1, <1>5, <1>6, ExtendStep

LEMMA ExtendPushStep ==
  ASSUME DInv, ExtendPush
  PROVE  DInv'
<1>1. /\ phase \in {"extend", "extending"} /\ phase' = "extending" /\ Defined /\ phase # "free"
      /\ Push(v) /\ borrow' = borrow /\ leaked' = leaked
  BY DEF ExtendPush, Defined
<1>2. Accounts(store, caller, dropped, live, AtStake)
  BY <1>1, ExtendAccounts
<1>3. v \in Handles /\ Bounded(store) /\ Capacity(store, v) \in Nat
  BY <1>1, VectorFacts DEF SmallVecs
<1>4. Accounts(store', caller', dropped', live', AtStake)
  BY <1>1, <1>2, <1>3, PushKeeps
<1>5. live' = live /\ Capacity(store', v) >= Capacity(store, v) /\ Capacity(store', v) \in Nat
  BY <1>1, <1>3, PushGrows DEF Push
<1> QED BY <1>1, <1>4, <1>5, ExtendStep

LEMMA ExtendPushPanicsStep ==
  ASSUME DInv, ExtendPushPanics
  PROVE  DInv'
<1>1. /\ phase \in {"extend", "extending"} /\ phase' = "free" /\ Defined /\ phase # "free"
      /\ PushPanics(v) /\ borrow' = NoBorrow /\ leaked' = leaked
  BY DEF ExtendPushPanics, Defined, EndBorrow
<1>2. Accounts(store, caller, dropped, live, AtStake) /\ leaked \subseteq Elems
  BY <1>1, ExtendAccounts
<1>3. v \in Handles
  BY <1>1, VectorFacts DEF SmallVecs
<1>4. Accounts(store', caller', dropped', live', AtStake)
  BY <1>1, <1>2, <1>3, PushKeeps
<1>5. AtStake' = AtStake /\ leaked' \subseteq Elems
  BY <1>1, <1>2 DEF AtStake
<1>6. Accounts(store', caller', dropped', live', AtStake')
  BY <1>4, <1>5
<1> QED BY <1>1, <1>5, <1>6, NoneOut

----------------------------------------------------------------------------
(* The gap is filled and the tail moved on.                                *)

LEMMA FillStep ==
  ASSUME DInv, Fill
  PROVE  DInv'
<1> DEFINE src  == Cells(store, v)
           len  == LenOf(store, v)
           from == borrow.tail_start
           own  == Owned(store, v)
           n    == len + 1
           none == {}
<1>1. /\ phase \in {"fill", "refill"} /\ Defined /\ phase # "free" /\ ~IterOut /\ len < from
      /\ live' = live /\ dropped' = dropped /\ phase' = phase /\ borrow' = borrow
      /\ leaked' = leaked
  BY DEF Fill, Defined, IterOut
<1>2. PICK e \in caller : /\ store' = Edited(store, v, [src EXCEPT ![len] = e], n)
                          /\ caller' = caller \ {e}
  BY DEF Fill
<1> DEFINE cells == PutAt(src, len, e)
<1>3. /\ v \in live /\ v \in Handles /\ Bounded(store) /\ src \in Block
      /\ FitIn(src, Capacity(store, v)) /\ len \in Nat
      /\ Capacity(store, v) \in Nat /\ Capacity(store, v) <= MaxCap
      /\ TailEnd <= Capacity(store, v) /\ Holds(src, 0, len, own)
  BY <1>1, VectorFacts DEF SmallVecs
<1>4. /\ from \in Nat /\ TailEnd \in Nat /\ borrow.tail_len \in Nat /\ TailEnd = from + borrow.tail_len
      /\ Holds(src, from, TailEnd, TailItems) /\ IterItems = {} /\ Apart = TailItems
      /\ borrow.front = 0 /\ borrow.back = 0 /\ borrow.tail_len > 0
      /\ Fields /\ Layout /\ Accounts(store, caller, dropped \cup TailItems, live, AtStake)
  BY <1>1, FieldTypes, TailOnly DEF DInv, Aside, Layout
<1>5. /\ own \cap (caller \cup dropped \cup TailItems) = {}
      /\ caller \cap (dropped \cup TailItems) = {} /\ dropped \cap TailItems = {}
      /\ e \in Elems /\ e \notin own
  BY <1>1, <1>2, Disjoint DEF AtStake
<1>6. store' = Edited(store, v, cells, n)
  BY <1>2 DEF PutAt
<1> HIDE DEF src, len, from, own, cells
<1>7. n \in Nat /\ n = len + 1 /\ n <= from /\ n <= Capacity(store, v) /\ len < Capacity(store, v)
      /\ len < MaxCap /\ from <= MaxCap /\ TailEnd <= MaxCap
  BY <1>1, <1>3, <1>4, RawAssumption
<1> HIDE DEF n
<1>8. cells \in Block /\ FitIn(cells, Capacity(store, v))
  BY <1>3, <1>5, <1>7, PutType DEF cells
<1>9. Holds(cells, 0, n, own \cup {e})
  BY <1>3, <1>5, <1>7, PutJoins DEF cells
<1>10. Holds(cells, from, TailEnd, TailItems)
  <2>1. TailEnd \in Int
    BY <1>4
  <2> QED BY <1>1, <1>3, <1>4, <1>7, <2>1, PutHolds DEF cells
<1>11. Lays(store, v, cells, n, own \cup {e})
  BY <1>7, <1>8, <1>9 DEF Lays
<1>12. Shares(own \cup {e}, caller', dropped \cup TailItems,
              Owned(store, v) \cup caller \cup (dropped \cup TailItems))
  BY <1>2, <1>5 DEF Shares, own
<1>13. Grown(store, store, v)
  BY <1>3, GrownStays
<1>14. /\ Accounts(store', caller', dropped \cup TailItems, live, AtStake)
       /\ Wrote(store, store', v, cells, n)
  BY <1>3, <1>4, <1>6, <1>11, <1>12, <1>13, AccountsWrite
<1>15. /\ Cells(store', v) = cells /\ LenOf(store', v) = n
       /\ Capacity(store', v) = Capacity(store, v)
  BY <1>14 DEF Wrote
<1>16. v' = v /\ TailEnd' = TailEnd
  BY <1>1 DEF v, TailEnd
<1>17. Fields'
  BY <1>1, <1>4 DEF Fields
<1>18. Accounts(store', caller', dropped' \cup Apart', live', AtStake') /\ Aside'
  <2>1. AtStake' = AtStake
    BY <1>1 DEF AtStake
  <2>2. /\ Holds(Cells(store', v'), borrow'.front, borrow'.back, none)
        /\ Holds(Cells(store', v'), borrow'.tail_start, TailEnd', TailItems)
    BY <1>1, <1>4, <1>10, <1>15, <1>16, HoldsEmpty DEF from
  <2>3. /\ none \cap TailItems = {} /\ dropped' \cap (none \cup TailItems) = {}
        /\ dropped' \cup (none \cup TailItems) = dropped \cup TailItems
    BY <1>1, <1>5
  <2> HIDE DEF none
  <2>4. Accounts(store', caller', dropped' \cup (none \cup TailItems), live', AtStake')
    BY <1>1, <1>14, <2>1, <2>3
  <2> QED BY <1>17, <2>2, <2>3, <2>4, StillOut
<1>19. Layout'
  <2>1. /\ v' \in live' \cap SmallVecs /\ TailEnd' <= Capacity(store', v')
        /\ LenOf(store', v') <= borrow'.tail_start
    BY <1>1, <1>3, <1>7, <1>15, <1>16, VectorFacts DEF from
  <2> QED BY <1>1, <1>4, <2>1 DEF Layout, IterOut
<1> QED BY <1>17, <1>18, <1>19 DEF DInv

(* The first len cells are what they were, and so are the n from `from`    *)
(* on, which are now at `to`.                                              *)
Keeps(cells, to, src, from, len, n) ==
  /\ \A j \in 0 .. len - 1 : cells[j] = src[j]
  /\ \A j \in 0 .. n - 1 : cells[to + j] = src[from + j]

(* After move_tail the length is what it was and the tail n cells on.      *)
TailAt(s, n) ==
  /\ Accounts(s, caller, dropped \cup TailItems, live, AtStake)
  /\ LenOf(s, v) = borrow.tail_start /\ TailEnd + n <= Capacity(s, v)
  /\ Owned(s, v) = Owned(store, v)
  /\ Holds(Cells(s, v), borrow.tail_start + n, TailEnd + n, TailItems)
  /\ Keeps(Cells(s, v), borrow.tail_start + n, Cells(store, v), borrow.tail_start,
           borrow.tail_start, borrow.tail_len)

LEMMA TailMoved ==
  ASSUME DInv, Defined, ~IterOut, phase # "free", LenOf(store, v) = borrow.tail_start,
         NEW n \in Nat, NEW s \in MoveTail(n)
  PROVE  TailAt(s, n)
<1> DEFINE src   == Cells(store, v)
           len   == borrow.tail_start
           tail  == borrow.tail_len
           end   == TailEnd
           own   == Owned(store, v)
           zero  == 0
           whole == WholeLength
           to    == len + n
           last  == TailEnd + n
<1>1. /\ Bounded(store) /\ Sound(store) /\ v \in Handles /\ v \in live /\ src \in Block
      /\ FitIn(src, Capacity(store, v)) /\ end <= Capacity(store, v) /\ end \in Nat
      /\ len \in Nat /\ tail \in Nat /\ end = len + tail /\ zero \in Nat /\ len <= end
      /\ Holds(src, zero, len, own) /\ Holds(src, len, end, TailItems)
      /\ Accounts(store, caller, dropped \cup TailItems, live, AtStake)
  <2>1. /\ Bounded(store) /\ Sound(store) /\ v \in Handles /\ v \in live /\ src \in Block
        /\ FitIn(src, Capacity(store, v)) /\ end <= Capacity(store, v) /\ Holds(src, zero, len, own)
    BY VectorFacts DEF SmallVecs
  <2>2. /\ end \in Nat /\ len \in Nat /\ tail \in Nat /\ end = len + tail
    BY FieldTypes DEF DInv
  <2>3. Apart = TailItems
    BY TailOnly
  <2>4. Holds(src, len, end, TailItems) /\ Accounts(store, caller, dropped \cup TailItems, live, AtStake)
    BY <2>3 DEF DInv, Aside
  <2>5. zero \in Nat
    OBVIOUS
  <2> HIDE DEF src, len, tail, end, own, zero
  <2>6. len <= end
    BY <2>2
  <2> QED BY <2>1, <2>2, <2>4, <2>5, <2>6
<1>2. PICK g \in Reserve(whole, v, n) :
        s = Edited(g, v, Shift(Cells(g, v), len, to, tail), len)
  BY DEF MoveTail
<1> DEFINE room  == Cells(g, v)
           cells == Shift(room, len, to, tail)
<1>3. /\ own \cap (caller \cup dropped \cup TailItems) = {} /\ own \cap TailItems = {}
      /\ caller \cap (dropped \cup TailItems) = {} /\ own \cup TailItems \subseteq Elems
  BY Disjoint DEF AtStake
<1>4. whole = Edited(store, v, src, end)
  <2>1. whole = SetLen(store, v, end)
    BY DEF WholeLength, TailEnd
  <2> QED BY <1>1, <2>1, SetLenWrites
<1> HIDE DEF src, len, tail, own, zero, whole, to, last, end, room, cells
<1>5. Holds(src, zero, end, own \cup TailItems)
  <2>1. zero \in Int /\ len \in Int /\ end \in Int /\ zero <= len
    BY <1>1 DEF zero
  <2> QED BY <1>1, <1>3, <2>1, HoldsJoin
<1>6. Grown(store, whole, v) /\ Wrote(store, whole, v, src, end)
  <2>1. \A i \in 0 .. end - 1 : src[i] \in Elems
    BY <1>3, <1>5 DEF Holds, zero
  <2> QED BY <1>1, <1>4, <2>1, WriteGrows
<1>7. /\ Bounded(whole) /\ Sound(whole) /\ LenOf(whole, v) = end /\ Cells(whole, v) = src
  BY <1>6 DEF Grown, BoundedStep, Wrote
<1>8. /\ Grown(whole, g, v) /\ Resized(whole, g, v)
      /\ Capacity(g, v) >= LenOf(g, v) + n
  BY <1>1, <1>2, <1>7, ReserveGrows
<1>9. /\ Bounded(g) /\ Sound(g) /\ Grown(store, g, v) /\ LenOf(g, v) = end
      /\ \A i \in 0 .. end - 1 : room[i] = src[i]
  <2>1. SameItems(whole, v, g, v)
    BY <1>1, <1>8 DEF Resized
  <2> QED BY <1>6, <1>7, <1>8, <2>1, GrownCompose DEF Grown, BoundedStep, Bounded, SameItems, Item, room
<1>10. /\ room \in Block /\ FitIn(room, Capacity(g, v)) /\ Capacity(g, v) \in Nat
       /\ Capacity(g, v) <= MaxCap /\ last <= Capacity(g, v)
  BY <1>1, <1>8, <1>9, SoundLen, CellsFit, RawAssumption DEF room, last, end
<1>11. /\ to \in Nat /\ last \in Nat /\ to = len + n /\ last = to + tail /\ last = end + n
       /\ end = len + tail /\ len + tail <= MaxCap /\ last <= MaxCap /\ len <= MaxCap
       /\ to + tail <= Capacity(g, v) /\ len <= Capacity(g, v) /\ len <= to
  BY <1>1, <1>10, RawAssumption DEF to, last, end
<1>12. Holds(room, zero, len, own) /\ Holds(room, len, end, TailItems)
  <2>1. \A i \in zero .. len - 1 : room[i] = src[i]
    BY <1>1, <1>9 DEF zero
  <2>2. \A i \in len .. end - 1 : room[i] = src[i]
    BY <1>1, <1>9
  <2>3. zero \in Int /\ len \in Int /\ end \in Int
    BY <1>1
  <2> QED BY <1>1, <2>1, <2>2, <2>3, HoldsSame
<1>13. cells = Shift(room, len, to, tail)
  BY DEF cells
<1>14. Holds(cells, zero, len, own)
  <2>1. len \in Int /\ len <= len
    BY <1>1
  <2> QED BY <1>1, <1>10, <1>11, <1>12, <1>13, <2>1, ShiftHolds
<1>15. Holds(cells, to, last, TailItems)
  BY <1>1, <1>10, <1>11, <1>12, <1>13, ShiftBrings
<1>16. cells \in Block /\ FitIn(cells, Capacity(g, v))
  <2>1. tail \in Int
    BY <1>1
  <2> QED BY <1>1, <1>10, <1>11, <1>13, <2>1, ShiftType, ShiftFits
<1>17. Lays(g, v, cells, len, own)
  BY <1>1, <1>11, <1>14, <1>16 DEF Lays, zero
<1>18. Shares(own, caller, dropped \cup TailItems, Owned(store, v) \cup caller \cup (dropped \cup TailItems))
  BY <1>3 DEF Shares, own
<1>19. s = Edited(g, v, cells, len)
  BY <1>2 DEF cells, room
<1>20. Accounts(s, caller, dropped \cup TailItems, live, AtStake) /\ Wrote(g, s, v, cells, len)
  BY <1>1, <1>9, <1>17, <1>18, <1>19, AccountsWrite
<1>21. Cells(s, v) = cells /\ LenOf(s, v) = len /\ Capacity(s, v) = Capacity(g, v)
  BY <1>20 DEF Wrote
<1>22. Owned(s, v) = own
  BY <1>14, <1>21, OwnedHolds DEF zero
<1>23. Keeps(cells, to, src, len, len, tail)
  <2>1. ShiftedFrom(room, cells, len, to, tail)
    BY <1>1, <1>10, <1>11, <1>13, ShiftIs
  <2>2. ASSUME NEW j \in 0 .. len - 1
        PROVE  cells[j] = src[j]
    <3>1. /\ j \in Slots /\ j \notin to .. to + tail - 1 /\ j \notin len .. len + tail - 1
          /\ j \in 0 .. end - 1
      BY <1>1, <1>11, RawAssumption DEF Slots
    <3>2. cells[j] = room[j]
      BY <2>1, <3>1 DEF ShiftedFrom
    <3> QED BY <1>9, <3>1, <3>2
  <2>3. ASSUME NEW j \in 0 .. tail - 1
        PROVE  cells[to + j] = src[len + j]
    <3>1. /\ to + j \in Slots /\ to + j \in to .. to + tail - 1 /\ (to + j) - to + len = len + j
          /\ len + j \in 0 .. end - 1
      BY <1>1, <1>11, RawAssumption DEF Slots
    <3>2. cells[to + j] = room[len + j]
      BY <2>1, <3>1 DEF ShiftedFrom
    <3> QED BY <1>9, <3>1, <3>2
  <2> QED BY <2>2, <2>3 DEF Keeps
<1> QED BY <1>10, <1>15, <1>20, <1>21, <1>22, <1>23 DEF TailAt, len, to, last, own, tail, src

(* Room was made: the borrow goes on with its tail n cells further.        *)
LEMMA TailGoesOn ==
  ASSUME DInv, Defined, ~IterOut, phase # "free", borrow.tail_len > 0, NEW n \in Nat,
         borrow' = [borrow EXCEPT !.tail_start = @ + n], live' = live, leaked' = leaked,
         Accounts(store', caller', dropped \cup TailItems, live, AtStake), dropped' = dropped,
         TailEnd + n <= Capacity(store', v),
         Holds(Cells(store', v), borrow.tail_start + n, TailEnd + n, TailItems),
         \/ phase' = "refill" /\ LenOf(store', v) <= borrow.tail_start + n
         \/ phase' = "done" /\ LenOf(store', v) = borrow.tail_start + n
  PROVE  DInv'
<1> DEFINE none == {}
           from == borrow.tail_start + n
           end  == TailEnd + n
<1>1. /\ v \in Handles /\ v \in live /\ v \in SmallVecs
      /\ borrow.tail_start \in Nat /\ borrow.tail_len \in Nat /\ TailEnd \in Nat
      /\ TailEnd = borrow.tail_start + borrow.tail_len
      /\ borrow.front = 0 /\ borrow.back = 0 /\ Fields /\ borrow \in Borrows
  BY VectorFacts, FieldTypes, TailOnly DEF DInv, Fields, SmallVecs
<1>2. /\ v' = v /\ borrow'.front = 0 /\ borrow'.back = 0 /\ borrow'.tail_start = from
      /\ borrow'.tail_len = borrow.tail_len /\ TailEnd' = end
  BY <1>1 DEF v, TailEnd, Borrows
<1>3. Fields'
  <2>1. Sound(store')
    BY DEF Accounts, Bounded
  <2>2. Capacity(store', v) \in Nat /\ Capacity(store', v) <= MaxCap
    BY <1>1, <2>1, SoundLen, RawAssumption
  <2>3. from \in 0 .. MaxCap
    BY <1>1, <2>2, RawAssumption
  <2> HIDE DEF from
  <2>4. borrow' = [borrow EXCEPT !.tail_start = from]
    BY DEF from
  <2>5. borrow' \in Borrows
    BY <1>1, <2>3, <2>4 DEF Borrows
  <2> QED BY <1>1, <2>5 DEF Fields, Phases
<1>4. Accounts(store', caller', dropped' \cup Apart', live', AtStake') /\ Aside'
  <2>1. AtStake' = AtStake
    BY DEF AtStake
  <2>2. /\ Holds(Cells(store', v'), borrow'.front, borrow'.back, none)
        /\ Holds(Cells(store', v'), borrow'.tail_start, TailEnd', TailItems)
    BY <1>2, HoldsEmpty
  <2>3. dropped \cap TailItems = {}
    BY Disjoint
  <2>4. /\ none \cap TailItems = {} /\ dropped' \cap (none \cup TailItems) = {}
        /\ dropped' \cup (none \cup TailItems) = dropped \cup TailItems
    BY <2>3
  <2> HIDE DEF none
  <2>5. Accounts(store', caller', dropped' \cup (none \cup TailItems), live', AtStake')
    BY <2>1, <2>4
  <2> QED BY <1>3, <2>2, <2>4, <2>5, StillOut
<1>5. Layout'
  <2>1. v' \in live' \cap SmallVecs /\ TailEnd' <= Capacity(store', v')
    BY <1>1, <1>2
  <2>2. \/ phase' = "refill" /\ LenOf(store', v') <= borrow'.tail_start
        \/ phase' = "done" /\ LenOf(store', v') = borrow'.tail_start
    BY <1>2
  <2>3. CASE phase' = "refill" /\ LenOf(store', v') <= borrow'.tail_start
    BY <1>2, <2>1, <2>3 DEF Layout, IterOut
  <2>4. CASE phase' = "done" /\ LenOf(store', v') = borrow'.tail_start
    BY <1>2, <2>1, <2>4 DEF Layout, IterOut
  <2> QED BY <2>2, <2>3, <2>4
<1> QED BY <1>3, <1>4, <1>5 DEF DInv

LEMMA SizeHintStep ==
  ASSUME DInv, NEW n \in Nat, SizeHint(n)
  PROVE  DInv'
<1>1. /\ phase = "fill" /\ Defined /\ phase # "free" /\ ~IterOut
      /\ LenOf(store, v) = borrow.tail_start
      /\ live' = live /\ caller' = caller /\ dropped' = dropped /\ leaked' = leaked
  BY DEF SizeHint, RangeFilled, Defined, IterOut
<1>2. /\ v \in live /\ v \in SmallVecs /\ TailEnd <= Capacity(store, v)
      /\ borrow.front = 0 /\ borrow.back = 0 /\ borrow.tail_len > 0 /\ Fields
      /\ borrow.tail_start \in Nat
  BY <1>1, VectorFacts, FieldTypes, TailOnly DEF DInv, Layout
<1>3. CASE n = 0
  <2>1. phase' = "collect" /\ store' = store /\ borrow' = borrow
    BY <1>3 DEF SizeHint
  <2>2. v' = v /\ Apart' = Apart /\ AtStake' = AtStake /\ TailEnd' = TailEnd
        /\ IterItems' = IterItems /\ TailItems' = TailItems
    BY <1>1, <2>1 DEF v, Apart, AtStake, TailEnd, IterItems, TailItems
  <2>3. Accounts(store', caller', dropped' \cup Apart', live', AtStake') /\ Aside'
    BY <1>1, <2>1, <2>2 DEF DInv, Aside
  <2>4. Fields'
    BY <1>1, <1>2, <2>1 DEF Fields, Phases
  <2>5. Layout'
    BY <1>1, <1>2, <2>1, <2>2 DEF Layout, IterOut
  <2> QED BY <2>3, <2>4, <2>5 DEF DInv
<1>4. CASE n # 0
  <2>1. /\ store' \in MoveTail(n) /\ phase' = "refill"
        /\ borrow' = [borrow EXCEPT !.tail_start = @ + n]
    BY <1>4 DEF SizeHint
  <2>2. TailAt(store', n)
    BY <1>1, <2>1, TailMoved
  <2>3. LenOf(store', v) <= borrow.tail_start + n
    BY <1>2, <2>2 DEF TailAt
  <2> QED BY <1>1, <1>2, <2>1, <2>2, <2>3, TailGoesOn DEF TailAt
<1> QED BY <1>3, <1>4

LEMMA CollectStep ==
  ASSUME DInv, NEW n \in Nat, Collect(n)
  PROVE  DInv'
<1> DEFINE len  == borrow.tail_start
           own  == Owned(store, v)
           zero == 0
           to   == len + n
           end  == TailEnd + n
<1>1. /\ Defined /\ phase # "free" /\ ~IterOut /\ LenOf(store, v) = len /\ borrow.tail_len > 0
      /\ live' = live /\ dropped' = dropped /\ leaked' = leaked /\ phase' = "done"
      /\ borrow' = [borrow EXCEPT !.tail_start = @ + n]
  BY DEF Collect, CanCollect, RangeFilled, Defined, IterOut, DInv, Layout
<1>2. PICK f \in Arrays(n), s \in MoveTail(n) :
        /\ store' = Edited(s, v, Copy(Filled(f, n), 0, Cells(s, v), LenOf(s, v), n), LenOf(s, v) + n)
        /\ caller' = caller \ Taken(f, n)
  BY DEF Collect
<1> DEFINE room  == Cells(s, v)
           given == Filled(f, n)
           taken == Taken(f, n)
           cells == Copy(given, zero, room, len, n)
<1>3. TailAt(s, n)
  BY <1>1, <1>2, TailMoved
<1>4. store' = Edited(s, v, cells, to) /\ caller' = caller \ taken
  BY <1>2, <1>3 DEF TailAt
<1>5. /\ Accounts(s, caller, dropped \cup TailItems, live, AtStake) /\ Bounded(s) /\ Sound(s)
      /\ end <= Capacity(s, v) /\ Owned(s, v) = own /\ Holds(room, to, end, TailItems)
  BY <1>3 DEF TailAt, Accounts, Bounded
<1>6. /\ v \in Handles /\ v \in live /\ len \in Nat /\ TailEnd \in Nat /\ zero \in Nat
      /\ len <= TailEnd
  BY <1>1, VectorFacts, FieldTypes DEF SmallVecs, DInv
<1>7. /\ room \in Block /\ FitIn(room, Capacity(s, v)) /\ Capacity(s, v) \in Nat
      /\ Capacity(s, v) <= MaxCap
  BY <1>5, <1>6, SoundLen, CellsFit, RawAssumption
<1>8. Holds(room, zero, len, own)
  <2>1. Distinct(s, v) /\ LenOf(s, v) = len
    BY <1>3, <1>5, <1>6 DEF Accounts, Own, TailAt
  <2> QED BY <1>5, <2>1, HoldsOwned
<1>9. /\ own \cap (caller \cup dropped \cup TailItems) = {} /\ caller \subseteq Elems
      /\ caller \cap (dropped \cup TailItems) = {} /\ dropped \cap TailItems = {}
  BY <1>1, Disjoint DEF AtStake
<1>10. /\ to \in Nat /\ end \in Int /\ to = len + n /\ to <= end /\ end <= MaxCap
       /\ to <= MaxCap /\ len <= MaxCap /\ n <= MaxCap /\ zero + n <= MaxCap
       /\ to <= Capacity(s, v) /\ n = zero + n
  BY <1>5, <1>6, <1>7, RawAssumption
<1>11. given \in Block /\ Holds(given, zero, n, taken) /\ taken \subseteq caller
  <2>1. n \in Nat /\ n <= n /\ n <= MaxCap
    BY <1>10
  <2>2. given \in Block
    BY <1>9, <2>1, FilledType
  <2>3. ItemsOf(given, n) = taken /\ AllDistinct(given, n)
    BY <2>1, FilledItems
  <2>4. Holds(given, zero, n, taken)
    BY <2>3 DEF Holds, ItemsOf, AllDistinct
  <2>5. taken \subseteq caller
    BY DEF Arrays, Taken
  <2> QED BY <2>2, <2>4, <2>5
<1> HIDE DEF len, own, zero, to, end, room, given, taken, cells
<1>12. cells = Copy(given, zero, room, len, n)
  BY DEF cells
<1>13. Holds(cells, zero, len, own)
  <2>1. len \in Int /\ len <= len
    BY <1>6
  <2> QED BY <1>6, <1>7, <1>8, <1>10, <1>11, <1>12, <2>1, CopyHolds
<1>14. Holds(cells, len, to, taken)
  BY <1>6, <1>7, <1>10, <1>11, <1>12, CopyBrings
<1>15. Holds(cells, to, end, TailItems)
  <2>1. len + n <= to
    BY <1>10, <1>6
  <2> QED BY <1>5, <1>6, <1>7, <1>10, <1>11, <1>12, <2>1, CopyHolds
<1>16. Holds(cells, zero, to, own \cup taken) /\ own \cap taken = {}
  <2>1. own \cap taken = {}
    BY <1>9, <1>11
  <2>2. zero \in Int /\ len \in Int /\ to \in Int /\ zero <= len /\ len <= to
    BY <1>6, <1>10 DEF zero
  <2> QED BY <1>13, <1>14, <2>1, <2>2, HoldsJoin
<1>17. cells \in Block /\ FitIn(cells, Capacity(s, v))
  <2>1. n \in Int /\ len + n <= Capacity(s, v)
    BY <1>10
  <2> QED BY <1>6, <1>7, <1>10, <1>11, <1>12, <2>1, CopyType, CopyFits
<1>18. Lays(s, v, cells, to, own \cup taken)
  BY <1>10, <1>16, <1>17 DEF Lays, zero
<1>19. Shares(own \cup taken, caller', dropped \cup TailItems,
              Owned(s, v) \cup caller \cup (dropped \cup TailItems))
  BY <1>4, <1>5, <1>9, <1>11 DEF Shares
<1>20. Grown(s, s, v)
  BY <1>5, GrownStays
<1>21. /\ Accounts(store', caller', dropped \cup TailItems, live, AtStake)
       /\ Wrote(s, store', v, cells, to)
  BY <1>4, <1>5, <1>6, <1>18, <1>19, <1>20, AccountsWrite
<1>22. /\ Cells(store', v) = cells /\ LenOf(store', v) = to
       /\ Capacity(store', v) = Capacity(s, v)
  BY <1>21 DEF Wrote
<1>23. /\ TailEnd + n <= Capacity(store', v) /\ LenOf(store', v) = borrow.tail_start + n
       /\ Holds(Cells(store', v), borrow.tail_start + n, TailEnd + n, TailItems)
  BY <1>5, <1>15, <1>22 DEF to, end, len
<1> QED BY <1>1, <1>21, <1>23, TailGoesOn

(* Where nothing more is said of the store only the fields have types.     *)
LEMMA LostStep ==
  ASSUME DInv, Unwind \/ Undefined \/ \E n \in Sizes : MoveTailPanics(n)
  PROVE  DInv'
<1>1. borrow' = borrow /\ leaked' = leaked
  BY DEF Unwind, Undefined, MoveTailPanics, allVars, dvars
<1>2. phase' \in {"unwinding", "poisoned"}
  BY DEF Unwind, Undefined, MoveTailPanics, allVars, dvars
<1>3. Fields' /\ ~Defined'
  BY <1>1, <1>2 DEF DInv, Fields, Phases, Defined
<1> QED BY <1>3 DEF DInv

LEMMA StutterKeeps ==
  ASSUME DInv, UNCHANGED allVars
  PROVE  DInv'
<1>1. /\ store' = store /\ live' = live /\ caller' = caller /\ dropped' = dropped
      /\ phase' = phase /\ borrow' = borrow /\ leaked' = leaked
  BY DEF allVars, dvars, vars
<1>2. /\ v' = v /\ IterItems' = IterItems /\ TailItems' = TailItems /\ AtStake' = AtStake
      /\ TailEnd' = TailEnd /\ Defined' = Defined /\ IterOut' = IterOut
  BY <1>1 DEF v, IterItems, TailItems, AtStake, TailEnd, Defined, IterOut
<1>3. Apart' = Apart
  BY <1>2 DEF Apart
<1>4. Fields'
  BY <1>1 DEF DInv, Fields
<1>5. ASSUME Defined
      PROVE  Accounts(store', caller', dropped' \cup Apart', live', AtStake') /\ Layout' /\ Aside'
  BY <1>1, <1>2, <1>3, <1>5 DEF DInv, Layout, Aside
<1> QED BY <1>2, <1>4, <1>5 DEF DInv

LEMMA DrainStep ==
  ASSUME DInv, [DrainNext]_allVars
  PROVE  DInv'
<1>1. CASE Program
  BY <1>1, ProgramStep
<1>2. ASSUME NEW h \in Handles, NEW i \in 0 .. MaxCap, NEW j \in 0 .. MaxCap,
             NEW kind \in {"drain", "splice"}, Borrow(h, i, j, kind)
      PROVE  DInv'
  BY <1>2, BorrowBegins
<1>3. CASE NextFront \/ NextBack
  BY <1>3, NextStep
<1>4. CASE Forget
  BY <1>4, ForgetStep
<1>5. CASE DropDrain
  BY <1>5, DropDrainStep
<1>6. CASE DropSplice
  BY <1>6, DropSpliceStep
<1>7. CASE Return
  BY <1>7, ReturnStep
<1>8. CASE ExtendPush
  BY <1>8, ExtendPushStep
<1>9. CASE ExtendPushPanics
  BY <1>9, ExtendPushPanicsStep
<1>10. CASE Fill
  BY <1>10, FillStep
<1>11. ASSUME NEW n \in Sizes,
              ExtendReserve(n) \/ SizeHint(n) \/ Collect(n) \/ CollectPanics(n)
       PROVE  DInv'
  <2>1. n \in Nat
    BY RawAssumption DEF Sizes
  <2> QED BY <1>11, <2>1, ExtendReserveStep, SizeHintStep, CollectStep, CollectPanicsStep
<1>12. CASE Unwind \/ Undefined \/ \E n \in Sizes : MoveTailPanics(n)
  BY <1>12, LostStep
<1>13. CASE UNCHANGED allVars
  BY <1>13, StutterKeeps
<1>14. ASSUME SpliceStep
       PROVE  DInv'
  BY <1>7, <1>8, <1>9, <1>10, <1>11, <1>12, <1>14 DEF SpliceStep
<1> QED BY <1>1, <1>2, <1>3, <1>4, <1>5, <1>6, <1>12, <1>13, <1>14 DEF DrainNext

LEMMA DrainInvariant == DrainSpec => []DInv
<1>1. DrainInit => DInv
  BY InitDrain
<1>2. DInv /\ [DrainNext]_allVars => DInv'
  BY DrainStep
<1> QED BY <1>1, <1>2, PTL DEF DrainSpec

----------------------------------------------------------------------------
(* What follows from the invariant.                                        *)

(* The fields of the iterator and, until move_tail panics, the vector keep *)
(* their types, whatever size_hint says and wherever user code panics.     *)
THEOREM DrainTypeCorrect == DrainSpec => []DrainTypeOK
<1>1. DInv => DrainTypeOK
  <2> SUFFICES ASSUME DInv PROVE DrainTypeOK
    OBVIOUS
  <2>1. ASSUME Defined PROVE TypeOK
    <3>1. store \in Storage /\ live \subseteq Handles
      BY <2>1 DEF DInv, Accounts, Bounded, Sound
    <3>2. caller \subseteq Elems /\ dropped \subseteq Elems
      BY <2>1 DEF DInv, Accounts, Own
    <3> QED BY <3>1, <3>2 DEF TypeOK
  <2> QED BY <2>1 DEF DInv, Fields, Phases, Borrows, DrainTypeOK
<1> QED BY <1>1, DrainInvariant, PTL

(* Wherever move_tail moves the tail, it stays within the buffer, and      *)
(* nothing is written outside.                                             *)
THEOREM SpliceInBounds == DrainSpec => []SpliceStaysInBounds
<1>1. DInv => SpliceStaysInBounds
  <2> SUFFICES ASSUME DInv, Defined
               PROVE  /\ WritesStayInBounds
                      /\ phase # "free" => borrow.tail_start + borrow.tail_len <= Capacity(store, v)
    BY DEF SpliceStaysInBounds
  <2>1. Bounded(store) /\ live \subseteq Handles
    BY DEF DInv, Accounts
  <2>2. WritesStayInBounds
    BY <2>1 DEF Bounded, Fits, FitIn, WritesStayInBounds
  <2> QED BY <2>2 DEF DInv, Layout, TailEnd
<1> QED BY <1>1, DrainInvariant, PTL

(* The cells I of h are those of the elements X, one each.                 *)
Uses(h, I, X) ==
  /\ \A i \in I : Item(store, h, i) \in X
  /\ \A i, j \in I : Item(store, h, i) = Item(store, h, j) => i = j
  /\ \A x \in X : \E i \in I : Item(store, h, i) = x

Used(h) == IF phase # "free" /\ h = v THEN Owned(store, h) \cup Apart ELSE Owned(store, h)

LEMMA InUseUsed ==
  ASSUME DInv, Defined, NEW h \in live
  PROVE  Uses(h, InUse(h), Used(h))
<1> DEFINE len == LenOf(store, h)
<1>1. /\ h \in Handles /\ Sound(store) /\ Distinct(store, h)
  BY DEF DInv, Accounts, Own, Bounded
<1>2. Holds(Cells(store, h), 0, len, Owned(store, h)) /\ len \in Nat /\ len <= MaxCap
  BY <1>1, HoldsOwned, SoundLen, RawAssumption
<1>3. CASE ~(phase # "free" /\ h = v)
  <2>1. InUse(h) = 0 .. len - 1
    BY <1>2, <1>3, RawAssumption DEF InUse, Slots
  <2>2. Used(h) = Owned(store, h)
    BY <1>3 DEF Used
  <2> QED BY <1>2, <2>1, <2>2 DEF Uses, Holds, Item
<1>4. CASE phase # "free" /\ h = v
  <2> DEFINE range == borrow.front .. borrow.back - 1
             tail  == borrow.tail_start .. TailEnd - 1
             held  == 0 .. len - 1
  <2>1. /\ borrow.back <= MaxCap /\ TailEnd <= MaxCap /\ TailEnd \in Nat /\ borrow.back \in Nat
        /\ borrow.front \in Nat /\ borrow.tail_start \in Nat
        /\ TailEnd - 1 = borrow.tail_start + borrow.tail_len - 1
    <3>1. /\ borrow.back <= MaxCap /\ TailEnd \in Nat /\ borrow.back \in Nat
          /\ borrow.front \in Nat /\ borrow.tail_start \in Nat
          /\ TailEnd - 1 = borrow.tail_start + borrow.tail_len - 1
      BY FieldTypes DEF DInv
    <3>2. TailEnd <= Capacity(store, v) /\ Capacity(store, v) <= MaxCap /\ Capacity(store, v) \in Nat
      BY <1>4, VectorFacts
    <3> QED BY <3>1, <3>2, RawAssumption
  <2>2. InUse(h) = held \cup range \cup tail
    BY <1>2, <1>4, <2>1, RawAssumption DEF InUse, Slots
  <2>3. Used(h) = Owned(store, h) \cup IterItems \cup TailItems
    BY <1>4 DEF Used, Apart
  <2>4. /\ Holds(Cells(store, h), borrow.front, borrow.back, IterItems)
        /\ Holds(Cells(store, h), borrow.tail_start, TailEnd, TailItems)
    BY <1>4 DEF DInv, Aside
  <2>5. /\ Owned(store, h) \cap (IterItems \cup TailItems) = {} /\ IterItems \cap TailItems = {}
    BY <1>4, Disjoint
  <2>6. /\ Uses(h, held, Owned(store, h)) /\ Uses(h, range, IterItems) /\ Uses(h, tail, TailItems)
    BY <1>2, <2>4 DEF Holds, Uses, Item
  <2> HIDE DEF range, tail, held
  <2> QED BY <2>2, <2>3, <2>5, <2>6 DEF Uses
<1> QED BY <1>3, <1>4

LEMMA UsedParted ==
  ASSUME DInv, Defined
  PROVE  /\ \A h, k \in live : h # k => Used(h) \cap Used(k) = {}
         /\ \A h \in live : Used(h) \subseteq AtStake /\ Used(h) \cap (caller \cup dropped) = {}
         /\ caller \cap dropped = {} /\ caller \cup dropped \subseteq AtStake
         /\ \A e \in AtStake : e \in caller \cup dropped \/ \E h \in live : e \in Used(h)
<1>1. /\ Own(store, caller, dropped \cup Apart, AtStake) /\ DeadEmpty(store, live)
      /\ live \subseteq Handles /\ dropped \cap Apart = {}
  BY DEF DInv, Accounts, Aside
<1>2. Apart # {} => phase # "free" /\ v \in live
  BY FreeAccounts DEF DInv, Layout
<1>3. \A h \in live : Used(h) = Owned(store, h) \/ (h = v /\ Used(h) = Owned(store, h) \cup Apart)
  BY DEF Used
<1>4. \A h \in Handles \ live : Owned(store, h) = {}
  BY <1>1, EmptyOwns DEF DeadEmpty
<1>5. ASSUME NEW e \in AtStake
      PROVE  e \in caller \cup dropped \/ \E h \in live : e \in Used(h)
  <2>1. CASE e \in caller \cup dropped
    BY <2>1
  <2>2. CASE e \in Apart
    BY <1>2, <2>2 DEF Used
  <2>3. CASE \E h \in Handles : e \in Owned(store, h)
    BY <1>4, <2>3 DEF Used
  <2> QED BY <1>1, <2>1, <2>2, <2>3 DEF Own
<1> QED BY <1>1, <1>3, <1>5 DEF Own

(* Throughout a borrow, and whatever panics in it, every element is in one *)
(* place: a cell that a vector or its iterator uses, the program, the      *)
(* dropped ones, or the leaked ones, which only mem::forget adds to.       *)
THEOREM DrainAccountsForAll == DrainSpec => []AccountedFor
<1>1. ASSUME DInv, Defined
      PROVE  EachElementOnce(live, InUse, leaked)
  <2>1. ASSUME NEW h \in live, NEW i \in InUse(h)
        PROVE  Item(store, h, i) \in Used(h)
    BY <1>1, <2>1, InUseUsed DEF Uses
  <2>2. \A h \in live : \A i \in InUse(h) : Item(store, h, i) \in Elems \ (caller \cup dropped \cup leaked)
    BY <1>1, <2>1, UsedParted DEF AtStake
  <2>3. ASSUME NEW h \in live, NEW k \in live, NEW i \in InUse(h), NEW j \in InUse(k),
               Item(store, h, i) = Item(store, k, j)
        PROVE  h = k /\ i = j
    <3>1. h = k
      BY <1>1, <2>1, <2>3, UsedParted
    <3>2. i = j
      BY <1>1, <2>3, <3>1, InUseUsed DEF Uses
    <3> QED BY <3>1, <3>2
  <2>4. caller \cap dropped = {} /\ leaked \cap (caller \cup dropped) = {}
    BY <1>1, UsedParted DEF AtStake
  <2> DEFINE held == UNION {{Item(store, h, i) : i \in InUse(h)} : h \in live}
  <2>5. \A e \in Elems : e \in caller \cup dropped \cup leaked \cup held
    <3>1. ASSUME NEW e \in Elems, e \notin caller \cup dropped \cup leaked
          PROVE  e \in held
      <4>1. PICK h \in live : e \in Used(h)
        BY <1>1, <3>1, UsedParted DEF AtStake
      <4>2. PICK i \in InUse(h) : Item(store, h, i) = e
        BY <1>1, <4>1, InUseUsed DEF Uses
      <4> QED BY <4>2
    <3> QED BY <3>1
  <2>6. caller \cup dropped \cup leaked \subseteq Elems
    BY <1>1, UsedParted DEF AtStake, DInv, Fields
  <2>7. held \subseteq Elems
    BY <2>2
  <2> HIDE DEF held
  <2>8. Elems = caller \cup dropped \cup leaked \cup held
    BY <2>5, <2>6, <2>7
  <2> QED BY <2>2, <2>3, <2>4, <2>8 DEF EachElementOnce, held
<1>2. DInv => AccountedFor
  BY <1>1 DEF AccountedFor
<1> QED BY <1>2, DrainInvariant, PTL

----------------------------------------------------------------------------
(* The order of the items.                                                 *)

(* The cells from i on are the items of q.                                 *)
Spells(cells, i, q) == \A j \in 1 .. Len(q) : cells[i + j - 1] = q[j]

Pasts == [before : Seq(Elems), added : Seq(Elems), after : Seq(Elems)]

(* The first len cells are what was before the range and what was added,   *)
(* and those from `from` on what was after it.                             *)
Stands(cells, len, from, p) ==
  /\ p \in Pasts /\ len = Len(p.before) + Len(p.added)
  /\ Spells(cells, 0, p.before) /\ Spells(cells, Len(p.before), p.added)
  /\ Spells(cells, from, p.after)

(* Throughout a borrow nothing is out of its place.                        *)
Remembered ==
  Defined /\ phase # "free" =>
    /\ Stands(Cells(store, v), LenOf(store, v), borrow.tail_start, past)
    /\ borrow.tail_len = Len(past.after)
    /\ IterOut => past.added = <<>>

LEMMA PastTypes ==
  ASSUME NEW p \in Pasts
  PROVE  /\ p.before \in Seq(Elems) /\ p.added \in Seq(Elems) /\ p.after \in Seq(Elems)
         /\ Len(p.before) \in Nat /\ Len(p.added) \in Nat /\ Len(p.after) \in Nat
  BY LenProperties DEF Pasts

LEMMA StandsKept ==
  ASSUME NEW p, NEW src, NEW len, NEW from \in Nat, Stands(src, len, from, p),
         NEW n, n = Len(p.after), NEW to \in Nat, NEW cells, Keeps(cells, to, src, from, len, n)
  PROVE  Stands(cells, len, to, p)
<1> DEFINE b == Len(p.before)
           a == Len(p.added)
<1>1. /\ b \in Nat /\ a \in Nat /\ n \in Nat /\ len = b + a /\ p \in Pasts
  BY PastTypes DEF Stands
<1> HIDE DEF a, b
<1>2. Spells(cells, 0, p.before)
  <2>1. \A j \in 1 .. b : 0 + j - 1 \in 0 .. len - 1
    BY <1>1
  <2> QED BY <2>1 DEF Stands, Spells, Keeps, a, b
<1>3. Spells(cells, b, p.added)
  <2>1. \A j \in 1 .. a : b + j - 1 \in 0 .. len - 1
    BY <1>1
  <2> QED BY <2>1 DEF Stands, Spells, Keeps, a, b
<1>4. Spells(cells, to, p.after)
  <2> SUFFICES ASSUME NEW j \in 1 .. n PROVE cells[to + j - 1] = p.after[j]
    BY DEF Spells
  <2>1. /\ j - 1 \in 0 .. n - 1 /\ to + (j - 1) = to + j - 1 /\ from + (j - 1) = from + j - 1
    BY <1>1
  <2>2. cells[to + (j - 1)] = src[from + (j - 1)]
    BY <2>1 DEF Keeps
  <2> QED BY <2>1, <2>2 DEF Stands, Spells
<1> QED BY <1>1, <1>2, <1>3, <1>4 DEF Stands, a, b

(* More was added behind what the vector holds.                            *)
LEMMA StandsMore ==
  ASSUME NEW p, NEW cells, NEW len, NEW from \in Nat, Stands(cells, len, from, p),
         NEW r \in Seq(Elems), Spells(cells, len, r), NEW n, n = len + Len(r),
         NEW q, q = [p EXCEPT !.added = p.added \o r]
  PROVE  Stands(cells, n, from, q)
<1> DEFINE b == Len(p.before)
           a == Len(p.added)
           k == Len(r)
           s == p.added \o r
<1>1. /\ b \in Nat /\ a \in Nat /\ k \in Nat /\ len = b + a /\ p \in Pasts
      /\ p.added \in Seq(Elems)
  BY PastTypes, LenProperties DEF Stands
<1>2. /\ s \in Seq(Elems) /\ Len(s) = a + k
      /\ \A i \in 1 .. a + k : s[i] = IF i <= a THEN p.added[i] ELSE r[i - a]
  BY <1>1, ConcatProperties
<1> HIDE DEF a, b, k, s
<1>3. /\ q \in Pasts /\ q.before = p.before /\ q.after = p.after /\ q.added = s
  BY <1>1, <1>2 DEF Pasts, s
<1>4. Spells(cells, b, s)
  <2> SUFFICES ASSUME NEW i \in 1 .. a + k PROVE cells[b + i - 1] = s[i]
    BY <1>2 DEF Spells
  <2>1. CASE i <= a
    <3>1. i \in 1 .. a
      BY <1>1, <2>1
    <3> QED BY <1>2, <2>1, <3>1 DEF Stands, Spells, a, b
  <2>2. CASE ~(i <= a)
    <3>1. i - a \in 1 .. k /\ len + (i - a) - 1 = b + i - 1
      BY <1>1, <2>2
    <3>2. cells[len + (i - a) - 1] = r[i - a]
      BY <3>1 DEF Spells, k
    <3>3. s[i] = r[i - a]
      BY <1>1, <1>2, <2>2
    <3> QED BY <3>1, <3>2, <3>3
  <2> QED BY <2>1, <2>2
<1>5. /\ Spells(cells, 0, q.before) /\ Spells(cells, from, q.after)
      /\ Spells(cells, Len(q.before), q.added)
  <2>1. Spells(cells, 0, p.before) /\ Spells(cells, from, p.after)
    BY DEF Stands
  <2>2. Spells(cells, Len(q.before), q.added)
    BY <1>3, <1>4 DEF Spells, b
  <2>3. Spells(cells, 0, q.before) /\ Spells(cells, from, q.after)
    BY <1>3, <2>1
  <2> QED BY <2>2, <2>3
<1>6. n = Len(q.before) + Len(q.added)
  <2>1. Len(q.before) = b /\ Len(q.added) = a + k
    BY <1>2, <1>3 DEF b
  <2>2. n = len + k
    BY DEF k
  <2>3. n = b + (a + k)
    BY <1>1, <2>2
  <2> QED BY <2>1, <2>3
<1> QED BY <1>3, <1>5, <1>6 DEF Stands

(* Where the tail follows what was added the vector is whole.              *)
LEMMA StandsTogether ==
  ASSUME NEW s, NEW h, NEW cells, cells = Cells(s, h), NEW len, NEW p, Stands(cells, len, len, p),
         LenOf(s, h) = len + Len(p.after)
  PROVE  Contents(s, h) = p.before \o (p.added \o p.after)
<1> DEFINE b == Len(p.before)
           a == Len(p.added)
           n == Len(p.after)
           t == p.added \o p.after
           k == p.before \o t
<1>1. /\ b \in Nat /\ a \in Nat /\ n \in Nat /\ len = b + a
      /\ LenOf(s, h) = len + n
      /\ p.before \in Seq(Elems) /\ p.added \in Seq(Elems) /\ p.after \in Seq(Elems)
  BY PastTypes DEF Stands
<1>2. /\ t \in Seq(Elems) /\ Len(t) = a + n
      /\ \A i \in 1 .. a + n : t[i] = IF i <= a THEN p.added[i] ELSE p.after[i - a]
  BY <1>1, ConcatProperties
<1> HIDE DEF a, b, n, t
<1>3. /\ k \in Seq(Elems) /\ Len(k) = b + (a + n)
      /\ \A i \in 1 .. b + (a + n) : k[i] = IF i <= b THEN p.before[i] ELSE t[i - b]
  <2>1. /\ k \in Seq(Elems) /\ Len(k) = b + Len(t)
        /\ \A i \in 1 .. b + Len(t) : k[i] = IF i <= b THEN p.before[i] ELSE t[i - b]
    <3>1. p.before \in Seq(Elems) /\ t \in Seq(Elems)
      BY <1>1, <1>2
    <3> QED BY <3>1, ConcatProperties DEF b
  <2> QED BY <1>2, <2>1
<1> HIDE DEF k
<1>4. ASSUME NEW i \in 1 .. Len(k)
      PROVE  Cells(s, h)[i - 1] = k[i]
  <2>1. CASE i <= b
    <3>1. i \in 1 .. b /\ 0 + i - 1 = i - 1
      BY <1>1, <2>1
    <3> QED BY <1>3, <2>1, <3>1 DEF Stands, Spells, a, b, n
  <2>2. CASE ~(i <= b) /\ i - b <= a
    <3>1. /\ i - b \in 1 .. a /\ i - b \in 1 .. a + n /\ b + (i - b) - 1 = i - 1
      BY <1>1, <1>3, <2>2
    <3>2. cells[b + (i - b) - 1] = p.added[i - b]
      BY <3>1 DEF Stands, Spells, a, b, n
    <3> QED BY <1>2, <1>3, <2>2, <3>1, <3>2
  <2>3. CASE ~(i <= b) /\ ~(i - b <= a)
    <3>1. /\ (i - b) - a \in 1 .. n /\ i - b \in 1 .. a + n /\ len + ((i - b) - a) - 1 = i - 1
      BY <1>1, <1>3, <2>3
    <3>2. cells[len + ((i - b) - a) - 1] = p.after[(i - b) - a]
      BY <3>1 DEF Stands, Spells, a, b, n
    <3>3. t[i - b] = p.after[(i - b) - a]
      BY <1>1, <1>2, <2>3, <3>1
    <3>4. k[i] = t[i - b]
      BY <1>1, <1>3, <2>3
    <3> QED BY <3>1, <3>2, <3>3, <3>4
  <2> QED BY <2>1, <2>2, <2>3
<1>5. LenOf(s, h) = Len(k)
  BY <1>1, <1>3
<1>6. Contents(s, h) = k
  BY <1>3, <1>4, <1>5, SameContents
<1> QED BY <1>6 DEF k, t
(* What is remembered, in the state before a step and in the one after.    *)
LEMMA RemembersNow ==
  ASSUME DInv, Remembered, Defined, phase # "free"
  PROVE  /\ Stands(Cells(store, v), LenOf(store, v), borrow.tail_start, past)
         /\ past \in Pasts /\ borrow.tail_len = Len(past.after)
         /\ IterOut => past.added = <<>>
         /\ v \in Handles /\ Sound(store) /\ Cells(store, v) \in Block
         /\ LenOf(store, v) \in Nat /\ LenOf(store, v) <= MaxCap
         /\ borrow.tail_start \in Nat /\ borrow.tail_len \in Nat /\ MaxCap \in Nat
         /\ borrow.tail_start + borrow.tail_len <= MaxCap
<1>1. /\ Stands(Cells(store, v), LenOf(store, v), borrow.tail_start, past)
      /\ borrow.tail_len = Len(past.after) /\ (IterOut => past.added = <<>>)
  BY DEF Remembered
<1>2. past \in Pasts
  BY <1>1 DEF Stands
<1>3. /\ v \in Handles /\ Sound(store) /\ Cells(store, v) \in Block
      /\ LenOf(store, v) \in Nat /\ LenOf(store, v) <= Capacity(store, v)
      /\ Capacity(store, v) \in Nat /\ Capacity(store, v) <= MaxCap
      /\ TailEnd <= Capacity(store, v)
  BY VectorFacts DEF SmallVecs
<1>4. /\ borrow.tail_start \in Nat /\ borrow.tail_len \in Nat /\ MaxCap \in Nat
      /\ TailEnd = borrow.tail_start + borrow.tail_len
  BY FieldTypes, RawAssumption DEF DInv
<1> QED BY <1>1, <1>2, <1>3, <1>4

LEMMA RemembersThen ==
  ASSUME NEW cells, cells = Cells(store', v'), NEW len, len = LenOf(store', v'),
         NEW from, from = borrow'.tail_start, NEW p, p = past', Stands(cells, len, from, p),
         borrow'.tail_len = Len(p.after), IterOut' => p.added = <<>>
  PROVE  Remembered'
  BY DEF Remembered

LEMMA BorrowRemembers ==
  ASSUME DInv, NEW h \in Handles, NEW i \in 0 .. MaxCap, NEW j \in 0 .. MaxCap,
         NEW kind \in {"drain", "splice"}, Borrow(h, i, j, kind)
  PROVE  Remembered'
<1> DEFINE src  == Cells(store, h)
           all  == LenOf(store, h)
           zero == 0
           rest == all - j
           none == <<>>
           p    == [before |-> Items(store, h, zero, i), added |-> none,
                    after |-> Items(store, h, j, rest)]
<1>1. /\ phase = "free" /\ i <= j /\ j <= all /\ store' = SetLen(store, h, i) /\ past' = p
      /\ borrow' = [vec |-> h, tail_start |-> j, tail_len |-> rest, front |-> i, back |-> j]
  BY DEF Borrow
<1>2. Sound(store) /\ all \in Nat /\ i \in 0 .. MaxCap /\ i \in Nat /\ j \in Nat
  <2>1. Sound(store)
    BY <1>1, FreeAccounts DEF Accounts, Bounded
  <2> QED BY <2>1, SoundLen, RawAssumption
<1>3. \A k \in 0 .. all - 1 : src[k] \in Elems
  BY <1>2 DEF Sound, Initialised, Item
<1>4. LenOf(store', h) = i /\ Cells(store', h) = src
  <2>1. store' = Edited(store, h, src, i)
    BY <1>1, <1>2, SetLenWrites
  <2> HIDE DEF src
  <2> QED BY <1>2, <2>1, Rewritten
<1>5. v' = h /\ borrow'.tail_start = j /\ borrow'.tail_len = rest
  BY <1>1 DEF v
<1>6. /\ none \in Seq(Elems) /\ Len(none) = 0
  BY EmptySeq
<1>7. rest \in Nat /\ zero \in Int /\ j \in Int
  BY <1>1, <1>2
<1> HIDE DEF src, all, zero, rest, none
<1>8. /\ \A k \in zero .. zero + i - 1 : Cells(store, h)[k] \in Elems
      /\ \A k \in j .. j + rest - 1 : Cells(store, h)[k] \in Elems
  <2>1. /\ \A k \in zero .. zero + i - 1 : k \in 0 .. all - 1
        /\ \A k \in j .. j + rest - 1 : k \in 0 .. all - 1
    BY <1>1, <1>2, <1>7 DEF zero, rest
  <2> QED BY <1>3, <2>1 DEF src
<1>9. /\ p.before \in Seq(Elems) /\ Len(p.before) = i
      /\ \A k \in 1 .. i : p.before[k] = src[zero + k - 1]
  BY <1>2, <1>7, <1>8, ItemsAre DEF src
<1>10. /\ p.after \in Seq(Elems) /\ Len(p.after) = rest
       /\ \A k \in 1 .. rest : p.after[k] = src[j + k - 1]
  BY <1>7, <1>8, ItemsAre DEF src
<1>11. p \in Pasts /\ p.added = none
  BY <1>6, <1>9, <1>10 DEF Pasts
<1> HIDE DEF p
<1>12. Stands(src, i, j, p)
  <2>1. Spells(src, 0, p.before)
    BY <1>9 DEF Spells, zero
  <2>2. Spells(src, Len(p.before), p.added)
    BY <1>6, <1>11 DEF Spells
  <2>3. Spells(src, j, p.after)
    BY <1>10 DEF Spells
  <2>4. i = Len(p.before) + Len(p.added)
    BY <1>2, <1>6, <1>9, <1>11
  <2> QED BY <1>11, <2>1, <2>2, <2>3, <2>4 DEF Stands
<1> QED BY <1>1, <1>4, <1>5, <1>10, <1>11, <1>12, RemembersThen DEF none

(* A wipe between the two keeps both.                                      *)
LEMMA WipeKeeps ==
  ASSUME NEW src \in Block, NEW i \in Nat, NEW n \in Nat, NEW len \in Nat, NEW from \in Nat,
         NEW m \in Nat, len <= i, i + n <= from, len <= MaxCap, from + m <= MaxCap
  PROVE  Keeps(Wipe(src, i, n), from, src, from, len, m)
<1> DEFINE cells == Wipe(src, i, n)
           zero  == 0
           end   == from + m
<1>1. \A j \in zero .. len - 1 : cells[j] = src[j]
  <2>1. zero \in Nat /\ len \in Int /\ n \in Int
    OBVIOUS
  <2> HIDE DEF zero
  <2> QED BY <2>1, WipeSpares
<1>2. \A j \in from .. end - 1 : cells[j] = src[j]
  <2>1. end \in Int /\ n \in Int /\ end <= MaxCap
    OBVIOUS
  <2> HIDE DEF end
  <2> QED BY <2>1, WipeSpares
<1>3. \A j \in 0 .. m - 1 : from + j \in from .. end - 1
  OBVIOUS
<1> HIDE DEF cells, end
<1>4. Keeps(cells, from, src, from, len, m)
  BY <1>1, <1>2, <1>3 DEF Keeps
<1> QED BY <1>4 DEF cells

(* The cells of the range are wiped, and nothing else is.                  *)
LEMMA WipeRemembers ==
  ASSUME DInv, Remembered, IterOut, NEW i \in Nat, NEW n \in Nat, borrow.front <= i,
         i + n <= borrow.back, store' = Edited(store, v, Wipe(Cells(store, v), i, n), LenOf(store, v)),
         v' = v, borrow'.tail_start = borrow.tail_start, borrow'.tail_len = borrow.tail_len, past' = past
  PROVE  Remembered'
<1> DEFINE src   == Cells(store, v)
           len   == LenOf(store, v)
           from  == borrow.tail_start
           m     == borrow.tail_len
           cells == Wipe(src, i, n)
<1>1. Defined /\ phase # "free"
  BY DEF IterOut, Defined
<1>2. /\ Stands(src, len, from, past) /\ m = Len(past.after) /\ past.added = <<>>
      /\ v \in Handles /\ Sound(store) /\ src \in Block
      /\ len \in Nat /\ len <= MaxCap /\ from \in Nat /\ m \in Nat /\ MaxCap \in Nat
      /\ from + m <= MaxCap
  BY <1>1, RemembersNow
<1>3. len <= i /\ i + n <= from
  <2>1. /\ len <= borrow.front /\ borrow.back <= from /\ borrow.front \in Nat /\ borrow.back \in Nat
    BY <1>1, FieldTypes DEF DInv, Layout
  <2> QED BY <1>2, <2>1
<1>4. store' = Edited(store, v, cells, len)
  OBVIOUS
<1>5. cells = Wipe(src, i, n)
  OBVIOUS
<1> HIDE DEF src, len, from, m, cells
<1>6. Keeps(cells, from, src, from, len, m)
  BY <1>2, <1>3, <1>5, WipeKeeps
<1>7. Stands(cells, len, from, past)
  BY <1>2, <1>6, StandsKept
<1>8. LenOf(store', v) = len /\ Cells(store', v) = cells
  <2>1. len \in 0 .. MaxCap
    BY <1>2
  <2> QED BY <1>2, <1>4, <2>1, Rewritten
<1> QED BY <1>2, <1>7, <1>8, RemembersThen DEF from, m
LEMMA NextRemembers ==
  ASSUME DInv, Remembered, NextFront \/ NextBack
  PROVE  Remembered'
<1> DEFINE one == 1
<1>1. /\ IterOut /\ borrow.front < borrow.back /\ borrow \in Borrows
      /\ borrow.front \in Nat /\ borrow.back \in Nat /\ one \in Nat /\ past' = past
  BY FieldTypes DEF NextFront, NextBack, Yield, DInv, Fields
<1>2. CASE NextFront
  <2>1. /\ borrow' = [borrow EXCEPT !.front = @ + 1]
        /\ store' = Edited(store, v, Wipe(Cells(store, v), borrow.front, one), LenOf(store, v))
    BY <1>2 DEF NextFront, Yield
  <2>2. v' = v /\ borrow'.tail_start = borrow.tail_start /\ borrow'.tail_len = borrow.tail_len
    BY <1>1, <2>1 DEF v, Borrows
  <2>3. borrow.front <= borrow.front /\ borrow.front + one <= borrow.back
    BY <1>1
  <2> HIDE DEF one
  <2> QED BY <1>1, <2>1, <2>2, <2>3, WipeRemembers
<1>3. CASE NextBack
  <2> DEFINE i == borrow.back - 1
  <2>1. /\ borrow' = [borrow EXCEPT !.back = @ - 1]
        /\ store' = Edited(store, v, Wipe(Cells(store, v), i, one), LenOf(store, v))
    BY <1>3 DEF NextBack, Yield
  <2>2. v' = v /\ borrow'.tail_start = borrow.tail_start /\ borrow'.tail_len = borrow.tail_len
    BY <1>1, <2>1 DEF v, Borrows
  <2>3. i \in Nat /\ borrow.front <= i /\ i + one <= borrow.back
    BY <1>1
  <2> HIDE DEF one, i
  <2> QED BY <1>1, <2>1, <2>2, <2>3, WipeRemembers
<1> QED BY <1>2, <1>3

LEMMA DropSpliceRemembers ==
  ASSUME DInv, Remembered, DropSplice
  PROVE  Remembered'
<1> DEFINE n == borrow.back - borrow.front
           i == borrow.front
<1>1. /\ IterOut /\ Defined /\ phase # "free" /\ past' = past /\ borrow \in Borrows
      /\ borrow' = [borrow EXCEPT !.front = 0, !.back = 0]
      /\ store' = Edited(store, v, Wipe(Cells(store, v), i, n), LenOf(store, v))
  BY DEF DropSplice, IterOut, Defined, DInv, Fields, RangeDropped
<1>2. v' = v /\ borrow'.tail_start = borrow.tail_start /\ borrow'.tail_len = borrow.tail_len
  BY <1>1 DEF v, Borrows
<1>3. i \in Nat /\ n \in Nat /\ borrow.front <= i /\ i + n <= borrow.back
  <2>1. i \in Nat /\ borrow.back \in Nat /\ i <= borrow.back
    BY <1>1, FieldTypes DEF DInv, Layout
  <2> QED BY <2>1
<1> HIDE DEF n, i
<1> QED BY <1>1, <1>2, <1>3, WipeRemembers

(* The step that leaves every item where it was.                           *)
LEMMA SameRemembers ==
  ASSUME DInv, Remembered, Defined, phase # "free", ~IterOut', NEW cells, cells = Cells(store', v),
         LenOf(store', v) = LenOf(store, v), v' = v, past' = past,
         borrow'.tail_len = borrow.tail_len, borrow'.tail_start \in Nat,
         Keeps(cells, borrow'.tail_start, Cells(store, v), borrow.tail_start,
               LenOf(store, v), borrow.tail_len)
  PROVE  Remembered'
<1> DEFINE src  == Cells(store, v)
           len  == LenOf(store, v)
           from == borrow.tail_start
           to   == borrow'.tail_start
           m    == borrow.tail_len
<1>1. /\ Stands(src, len, from, past) /\ m = Len(past.after) /\ from \in Nat
  BY RemembersNow
<1>2. Keeps(cells, to, src, from, len, m) /\ to \in Nat
  OBVIOUS
<1> HIDE DEF src, len, from, to, m
<1>3. Stands(cells, len, to, past)
  BY <1>1, <1>2, StandsKept
<1> QED BY <1>1, <1>3, RemembersThen DEF len, to, m

LEMMA ExtendReserveRemembers ==
  ASSUME DInv, Remembered, NEW n \in Nat, ExtendReserve(n)
  PROVE  Remembered'
<1>1. /\ Defined /\ phase # "free" /\ ~IterOut' /\ store' \in Reserve(store, v, n)
      /\ borrow' = borrow /\ past' = past /\ phase = "extend"
  BY DEF ExtendReserve, Defined, IterOut
<1>2. /\ v' = v /\ borrow'.tail_start \in Nat /\ borrow.tail_len = 0
      /\ borrow'.tail_len = borrow.tail_len
  BY <1>1, RemembersNow DEF v, DInv, Layout
<1>3. Bounded(store) /\ v \in Handles
  BY <1>1, VectorFacts DEF SmallVecs
<1>4. SameItems(store, v, store', v)
  BY <1>1, <1>3, ReserveGrows DEF Resized
<1> DEFINE cells == Cells(store', v)
<1>5. Keeps(cells, borrow'.tail_start, Cells(store, v), borrow.tail_start, LenOf(store, v), borrow.tail_len)
  BY <1>2, <1>4 DEF Keeps, SameItems, Item
<1>6. LenOf(store', v) = LenOf(store, v)
  BY <1>4 DEF SameItems
<1> HIDE DEF cells
<1> QED BY <1>1, <1>2, <1>5, <1>6, SameRemembers DEF cells

LEMMA SizeHintRemembers ==
  ASSUME DInv, Remembered, NEW n \in Nat, SizeHint(n)
  PROVE  Remembered'
<1>1. /\ Defined /\ phase # "free" /\ ~IterOut /\ ~IterOut' /\ LenOf(store, v) = borrow.tail_start
      /\ past' = past /\ borrow \in Borrows
  BY DEF SizeHint, RangeFilled, Defined, IterOut, DInv, Fields
<1>2. /\ borrow.tail_start \in Nat /\ borrow.tail_len \in Nat
  BY <1>1, RemembersNow
<1>3. CASE n = 0
  <2>1. store' = store /\ borrow' = borrow
    BY <1>3 DEF SizeHint
  <2>2. v' = v
    BY <2>1 DEF v
  <2>3. Keeps(Cells(store, v), borrow.tail_start, Cells(store, v), borrow.tail_start,
              LenOf(store, v), borrow.tail_len)
    BY DEF Keeps
  <2> QED BY <1>1, <1>2, <2>1, <2>2, <2>3, SameRemembers
<1>4. CASE n # 0
  <2>1. store' \in MoveTail(n) /\ borrow' = [borrow EXCEPT !.tail_start = @ + n]
    BY <1>4 DEF SizeHint
  <2>2. /\ v' = v /\ borrow'.tail_start = borrow.tail_start + n
        /\ borrow'.tail_len = borrow.tail_len /\ borrow'.tail_start \in Nat
    BY <1>1, <1>2, <2>1 DEF v, Borrows
  <2>3. TailAt(store', n)
    BY <1>1, <2>1, TailMoved
  <2>4. /\ LenOf(store', v) = LenOf(store, v)
        /\ Keeps(Cells(store', v), borrow'.tail_start, Cells(store, v), borrow.tail_start,
                 LenOf(store, v), borrow.tail_len)
    BY <1>1, <2>2, <2>3 DEF TailAt
  <2> DEFINE cells == Cells(store', v)
  <2>5. cells = Cells(store', v)
    OBVIOUS
  <2> HIDE DEF cells
  <2> QED BY <1>1, <2>2, <2>4, <2>5, SameRemembers
<1> QED BY <1>3, <1>4
(* One item is written behind what the vector holds.                       *)
LEMMA PutStands ==
  ASSUME NEW p, NEW src \in Block, NEW len \in Nat, NEW from \in Nat, Stands(src, len, from, p),
         NEW m, m = Len(p.after), from + m <= MaxCap, len < MaxCap, len < from \/ m = 0,
         NEW e \in Elems, NEW cells, cells = PutAt(src, len, e), NEW n, n = len + 1,
         NEW q, q = [p EXCEPT !.added = Append(p.added, e)]
  PROVE  Stands(cells, n, from, q)
<1> DEFINE one == <<e>>
<1>1. p \in Pasts /\ p.added \in Seq(Elems) /\ m \in Nat /\ MaxCap \in Nat
  BY PastTypes, RawAssumption DEF Stands
<1>2. one \in Seq(Elems) /\ Len(one) = 1 /\ one[1] = e
  OBVIOUS
<1>3. Append(p.added, e) = p.added \o one
  BY <1>1, AppendIsConcat, Zenon
<1>4. /\ len \in Slots /\ \A j \in 0 .. len - 1 : j \in Slots /\ j # len
      /\ \A j \in 0 .. m - 1 : from + j \in Slots /\ from + j # len
  BY <1>1 DEF Slots
<1>5. cells[len] = e /\ \A j \in Slots : j # len => cells[j] = src[j]
  BY <1>4 DEF PutAt, Block
<1>6. Keeps(cells, from, src, from, len, m)
  BY <1>4, <1>5 DEF Keeps
<1>7. Stands(cells, len, from, p)
  BY <1>6, StandsKept
<1>8. Spells(cells, len, one)
  BY <1>2, <1>5 DEF Spells
<1>9. q = [p EXCEPT !.added = p.added \o one] /\ n = len + Len(one)
  BY <1>2, <1>3
<1> HIDE DEF one
<1>10. one \in Seq(Elems)
  BY <1>2
<1> QED BY <1>7, <1>8, <1>9, <1>10, StandsMore

LEMMA FillRemembers ==
  ASSUME DInv, Remembered, Fill
  PROVE  Remembered'
<1> DEFINE src  == Cells(store, v)
           len  == LenOf(store, v)
           from == borrow.tail_start
           m    == borrow.tail_len
           n    == len + 1
<1>1. /\ Defined /\ phase # "free" /\ ~IterOut' /\ len < from /\ borrow' = borrow
  BY DEF Fill, Defined, IterOut
<1>2. PICK e \in caller : /\ store' = Edited(store, v, PutAt(src, len, e), n)
                          /\ past' = [past EXCEPT !.added = Append(@, e)]
  BY DEF Fill, PutAt
<1> DEFINE cells == PutAt(src, len, e)
           q     == [past EXCEPT !.added = Append(past.added, e)]
<1>3. /\ Stands(src, len, from, past) /\ m = Len(past.after) /\ past \in Pasts
      /\ v \in Handles /\ Sound(store) /\ src \in Block
      /\ len \in Nat /\ from \in Nat /\ m \in Nat /\ MaxCap \in Nat /\ from + m <= MaxCap
  BY <1>1, RemembersNow
<1>4. e \in Elems
  BY <1>1, Disjoint DEF AtStake
<1>5. past' = q /\ q.after = past.after /\ cells = PutAt(src, len, e)
      /\ store' = Edited(store, v, cells, n) /\ v' = v
  BY <1>1, <1>2, <1>3 DEF Pasts, v
<1>6. len < MaxCap /\ n \in 0 .. MaxCap /\ n = len + 1
  BY <1>1, <1>3
<1>7. q = [past EXCEPT !.added = Append(past.added, e)]
  OBVIOUS
<1> HIDE DEF src, len, from, m, n, cells, q
<1>8. Stands(cells, n, from, q)
  BY <1>1, <1>3, <1>4, <1>5, <1>6, <1>7, PutStands
<1>9. LenOf(store', v) = n /\ Cells(store', v) = cells
  BY <1>3, <1>5, <1>6, Rewritten
<1>10. from = borrow'.tail_start /\ borrow'.tail_len = Len(q.after)
  BY <1>1, <1>3, <1>5 DEF from, m
<1> QED BY <1>1, <1>5, <1>8, <1>9, <1>10, RemembersThen

LEMMA ExtendPushRemembers ==
  ASSUME DInv, Remembered, ExtendPush
  PROVE  Remembered'
<1> DEFINE len   == LenOf(store, v)
           from  == borrow.tail_start
           n     == len + 1
           one   == 1
           grown == IF len = Capacity(store, v) THEN Reserve(store, v, one) ELSE {store}
<1>1. /\ Defined /\ phase # "free" /\ ~IterOut' /\ borrow' = borrow /\ phase = "extending"
      /\ past' = [past EXCEPT !.added = Append(@, Item(store', v, LenOf(store', v) - 1))]
  BY DEF ExtendPush, Defined, IterOut
<1>2. PICK e \in caller, s \in grown : store' = Edited(s, v, PutAt(Cells(s, v), len, e), n)
  BY DEF ExtendPush, Push, PutAt
<1> DEFINE src   == Cells(s, v)
           cells == PutAt(src, len, e)
           q     == [past EXCEPT !.added = Append(past.added, e)]
<1>3. /\ Stands(Cells(store, v), len, from, past) /\ borrow.tail_len = Len(past.after) /\ past \in Pasts
      /\ v \in Handles /\ Sound(store)
      /\ len \in Nat /\ from \in Nat /\ MaxCap \in Nat /\ from + borrow.tail_len <= MaxCap
      /\ Bounded(store) /\ len <= Capacity(store, v) /\ Capacity(store, v) \in Nat
      /\ Capacity(store, v) <= MaxCap
  BY <1>1, RemembersNow, VectorFacts
<1>4. e \in Elems
  BY <1>1, Disjoint DEF AtStake
<1>5. borrow.tail_len = 0 /\ v' = v
  BY <1>1 DEF DInv, Layout, v
<1>6. /\ Sound(s) /\ SameItems(store, v, s, v) /\ len < MaxCap
  <2>1. CASE len = Capacity(store, v)
    <3>1. s \in Reserve(store, v, one)
      BY <2>1
    <3>2. one \in Nat
      OBVIOUS
    <3>3. /\ Resized(store, s, v) /\ Capacity(s, v) >= LenOf(s, v) + one
      BY <1>3, <3>1, <3>2, ReserveGrows
    <3>4. SameItems(store, v, s, v) /\ Sound(s) /\ LenOf(s, v) = len
      BY <1>3, <3>3, ResizedLen DEF Resized
    <3>5. Capacity(s, v) <= MaxCap /\ Capacity(s, v) \in Nat
      BY <1>3, <3>4, SoundLen
    <3> QED BY <1>3, <3>3, <3>4, <3>5
  <2>2. CASE len # Capacity(store, v)
    <3>1. s = store
      BY <2>2
    <3> QED BY <1>3, <2>2, <3>1 DEF SameItems
  <2> QED BY <2>1, <2>2
<1>7. Keeps(src, from, Cells(store, v), from, len, 0)
  BY <1>6 DEF SameItems, Item, Keeps
<1>8. src \in Block /\ n \in 0 .. MaxCap
  BY <1>3, <1>6, SoundLen
<1>9. /\ q.after = past.after /\ cells = PutAt(src, len, e)
      /\ store' = Edited(s, v, cells, n) /\ n = len + 1
      /\ q = [past EXCEPT !.added = Append(past.added, e)]
  BY <1>2, <1>3 DEF Pasts
<1>10. cells[len] = e
  BY <1>3, <1>6, <1>8 DEF PutAt, Block, Slots
<1> HIDE DEF src, cells, q, grown
<1>11. LenOf(store', v) = n /\ Cells(store', v) = cells
  BY <1>3, <1>6, <1>8, <1>9, Rewritten
<1>12. past' = q
  <2>1. LenOf(store', v) - 1 = len
    BY <1>3, <1>11
  <2>2. Item(store', v, LenOf(store', v) - 1) = e
    BY <1>10, <1>11, <2>1 DEF Item
  <2> QED BY <1>1, <1>9, <2>2
<1>13. Stands(cells, n, from, q)
  <2> DEFINE m   == borrow.tail_len
             old == Cells(store, v)
  <2>1. m = 0 /\ m = Len(past.after) /\ from + m <= MaxCap /\ Keeps(src, from, old, from, len, m)
        /\ Stands(old, len, from, past)
    BY <1>3, <1>5, <1>7
  <2> HIDE DEF m, old, len, from, n
  <2>2. Stands(src, len, from, past)
    BY <1>3, <2>1, StandsKept
  <2> QED BY <1>3, <1>4, <1>6, <1>8, <1>9, <2>1, <2>2, PutStands
<1>14. from = borrow'.tail_start /\ borrow'.tail_len = Len(q.after)
  BY <1>1, <1>3, <1>9
<1> HIDE DEF len, from, n
<1> QED BY <1>1, <1>5, <1>11, <1>12, <1>13, <1>14, RemembersThen
(* What was collected, in its order.                                       *)
LEMMA CollectedItems ==
  ASSUME caller \subseteq Elems, NEW n \in Nat, NEW f \in Arrays(n)
  PROVE  /\ [i \in 1 .. n |-> f[i - 1]] \in Seq(Elems) /\ Len([i \in 1 .. n |-> f[i - 1]]) = n
         /\ \A j \in 1 .. n : [i \in 1 .. n |-> f[i - 1]][j] = f[j - 1]
<1>1. \A i \in 1 .. n : i - 1 \in 0 .. n - 1
  OBVIOUS
<1>2. \A i \in 1 .. n : f[i - 1] \in Elems
  BY <1>1 DEF Arrays
<1> QED BY <1>2

LEMMA CollectRemembers ==
  ASSUME DInv, Remembered, NEW n \in Nat, Collect(n)
  PROVE  Remembered'
<1> DEFINE len == borrow.tail_start
           m   == borrow.tail_len
           to  == len + n
<1>1. /\ Defined /\ phase # "free" /\ ~IterOut /\ ~IterOut' /\ LenOf(store, v) = len
      /\ borrow' = [borrow EXCEPT !.tail_start = @ + n] /\ borrow \in Borrows
  BY DEF Collect, CanCollect, RangeFilled, Defined, IterOut, DInv, Layout, Fields
<1>2. PICK f \in Arrays(n), s \in MoveTail(n) :
        /\ store' = Edited(s, v, Copy(Filled(f, n), 0, Cells(s, v), LenOf(s, v), n), LenOf(s, v) + n)
        /\ past' = [past EXCEPT !.added = @ \o [i \in 1 .. n |-> f[i - 1]]]
  BY DEF Collect
<1> DEFINE room  == Cells(s, v)
           given == Filled(f, n)
           zero  == 0
           cells == Copy(given, zero, room, len, n)
           r     == [i \in 1 .. n |-> f[i - 1]]
           q     == [past EXCEPT !.added = past.added \o r]
<1>3. TailAt(s, n)
  BY <1>1, <1>2, TailMoved
<1>4. /\ Stands(Cells(store, v), len, len, past) /\ m = Len(past.after) /\ past \in Pasts
      /\ v \in Handles /\ len \in Nat /\ m \in Nat /\ MaxCap \in Nat
  BY <1>1, RemembersNow
<1>5. /\ LenOf(s, v) = len /\ TailEnd + n <= Capacity(s, v) /\ TailEnd = len + m
      /\ Keeps(room, to, Cells(store, v), len, len, m) /\ Sound(s)
  BY <1>1, <1>3, <1>4 DEF TailAt, Accounts, Bounded, TailEnd
<1>6. to \in Nat /\ to + m <= MaxCap /\ room \in Block /\ to = len + n /\ to \in 0 .. MaxCap
      /\ n <= MaxCap
  <2>1. room \in Block /\ Capacity(s, v) \in Nat /\ Capacity(s, v) <= MaxCap
    BY <1>4, <1>5, SoundLen
  <2>2. len \in Nat /\ m \in Nat /\ MaxCap \in Nat /\ len + m + n <= Capacity(s, v)
    BY <1>4, <1>5
  <2> HIDE DEF room, len, m
  <2> QED BY <2>1, <2>2
<1>7. /\ store' = Edited(s, v, cells, to) /\ past' = q /\ v' = v
      /\ borrow'.tail_start = to /\ borrow'.tail_len = m /\ q.after = past.after
  BY <1>1, <1>2, <1>4, <1>5 DEF Pasts, Borrows, v
<1>8. caller \subseteq Elems
  BY <1>1, Disjoint DEF AtStake
<1>9. /\ r \in Seq(Elems) /\ Len(r) = n /\ \A j \in 1 .. n : r[j] = f[j - 1]
  BY <1>8, CollectedItems
<1>10. given \in Block /\ \A j \in 1 .. n : given[j - 1] = f[j - 1]
  <2>1. given \in Block
    BY <1>6, <1>8, FilledType
  <2>2. \A j \in 1 .. n : j - 1 \in Slots /\ j - 1 < n
    BY <1>4, <1>6 DEF Slots
  <2> QED BY <2>1, <2>2 DEF Filled
<1>11. q = [past EXCEPT !.added = past.added \o r]
  OBVIOUS
<1>12. \A i \in Slots : cells[i] = IF i \in len .. len + n - 1 THEN given[i - len + zero] ELSE room[i]
  <2>1. /\ n \in Int /\ zero \in Nat /\ zero + n <= MaxCap /\ len \in Nat
        /\ given \in Block /\ room \in Block
    BY <1>4, <1>6, <1>10
  <2> HIDE DEF zero, given, room, len
  <2> QED BY <2>1, CopyType
<1> HIDE DEF room, given, cells, r, q
<1>13. Keeps(cells, to, room, to, len, m)
  <2>1. /\ len \in Nat /\ m \in Nat /\ to = len + n /\ to + m <= MaxCap /\ to <= MaxCap
        /\ MaxCap \in Nat
    BY <1>4, <1>6
  <2> HIDE DEF len, m, to
  <2>2. \A j \in 0 .. len - 1 : j \in Slots /\ j \notin len .. len + n - 1
    BY <2>1 DEF Slots
  <2>3. \A j \in 0 .. m - 1 : to + j \in Slots /\ to + j \notin len .. len + n - 1
    BY <2>1 DEF Slots
  <2> QED BY <1>12, <2>2, <2>3 DEF Keeps
<1>14. Spells(cells, len, r)
  <2> SUFFICES ASSUME NEW j \in 1 .. n PROVE cells[len + j - 1] = r[j]
    BY <1>9 DEF Spells
  <2>1. /\ len + j - 1 \in Slots /\ len + j - 1 \in len .. len + n - 1
        /\ (len + j - 1) - len + zero = j - 1
    BY <1>4, <1>6 DEF Slots
  <2>2. cells[len + j - 1] = given[j - 1]
    BY <1>12, <2>1
  <2> QED BY <1>9, <1>10, <2>2
<1>15. LenOf(store', v) = to /\ Cells(store', v) = cells
  BY <1>4, <1>5, <1>6, <1>7, Rewritten
<1> HIDE DEF len, m, to
<1>16. Stands(room, len, to, past)
  BY <1>4, <1>5, <1>6, StandsKept
<1>17. Stands(cells, len, to, past)
  BY <1>4, <1>6, <1>13, <1>16, StandsKept
<1>18. Stands(cells, to, to, q)
  <2>1. to = len + Len(r) /\ r \in Seq(Elems)
    BY <1>6, <1>9
  <2> QED BY <1>6, <1>11, <1>14, <1>17, <2>1, StandsMore
<1> QED BY <1>1, <1>4, <1>7, <1>15, <1>18, RemembersThen
LEMMA RememberedStep ==
  ASSUME DInv, Remembered, [DrainNext]_allVars
  PROVE  Remembered'
<1>1. CASE phase' = "free" \/ phase' \in {"unwinding", "poisoned"}
  BY <1>1 DEF Remembered, Defined
<1>2. ASSUME phase' # "free", phase' \notin {"unwinding", "poisoned"}
      PROVE  Remembered'
  <2>1. CASE UNCHANGED allVars
    <3>1. store' = store /\ phase' = phase /\ borrow' = borrow /\ past' = past
      BY <2>1 DEF allVars, dvars, vars
    <3> QED BY <3>1 DEF Remembered, Defined, IterOut, v
  <2>2. ASSUME NEW h \in Handles, NEW i \in 0 .. MaxCap, NEW j \in 0 .. MaxCap,
               NEW kind \in {"drain", "splice"}, Borrow(h, i, j, kind)
        PROVE  Remembered'
    BY <2>2, BorrowRemembers
  <2>3. CASE NextFront \/ NextBack
    BY <2>3, NextRemembers
  <2>4. CASE DropSplice
    BY <2>4, DropSpliceRemembers
  <2>5. CASE ExtendPush
    BY <2>5, ExtendPushRemembers
  <2>6. CASE Fill
    BY <2>6, FillRemembers
  <2>7. ASSUME NEW n \in Sizes, ExtendReserve(n) \/ SizeHint(n) \/ Collect(n)
        PROVE  Remembered'
    <3>1. n \in Nat
      BY RawAssumption DEF Sizes
    <3> QED BY <2>7, <3>1, ExtendReserveRemembers, SizeHintRemembers, CollectRemembers
  <2>8. ~Program /\ ~Forget /\ ~DropDrain /\ ~Return /\ ~ExtendPushPanics /\ ~Unwind
        /\ ~Undefined /\ \A n \in Sizes : ~CollectPanics(n) /\ ~MoveTailPanics(n)
    BY <1>2 DEF Program, dvars, Forget, DropDrain, Return, ExtendPushPanics, CollectPanics,
                MoveTailPanics, Unwind, Undefined, allVars, EndBorrow
  <2>9. ASSUME SpliceStep PROVE Remembered'
    BY <2>5, <2>6, <2>7, <2>8, <2>9 DEF SpliceStep
  <2> QED BY <2>1, <2>2, <2>3, <2>4, <2>8, <2>9 DEF DrainNext
<1> QED BY <1>1, <1>2

LEMMA RememberedInvariant == DrainSpec => [](DInv /\ Remembered)
<1>1. DrainInit => DInv /\ Remembered
  BY InitDrain DEF DrainInit, Remembered
<1>2. DInv /\ Remembered /\ [DrainNext]_allVars => DInv' /\ Remembered'
  BY DrainStep, RememberedStep
<1> QED BY <1>1, <1>2, PTL DEF DrainSpec

LEMMA ShiftKeeps ==
  ASSUME NEW src \in Block, NEW from \in Nat, NEW len \in Nat, NEW m \in Nat, len <= from,
         from + m <= MaxCap, NEW cells, cells = Shift(src, from, len, m)
  PROVE  Keeps(cells, len, src, from, len, m)
<1>1. ShiftedFrom(src, cells, from, len, m)
  BY ShiftIs
<1>2. \A j \in 0 .. len - 1 : /\ j \in Slots /\ j \notin len .. len + m - 1
                              /\ j \notin from .. from + m - 1
  BY RawAssumption DEF Slots
<1>3. \A j \in 0 .. m - 1 : /\ len + j \in Slots /\ len + j \in len .. len + m - 1
                            /\ (len + j) - len + from = from + j
  BY RawAssumption DEF Slots
<1> QED BY <1>1, <1>2, <1>3 DEF ShiftedFrom, Keeps

(* Drop for Drain puts the tail behind what the vector holds.              *)
LEMMA RestoredWhole ==
  ASSUME NEW s, Sound(s), v \in Handles, NEW len \in Nat, len = LenOf(s, v), len <= MaxCap,
         NEW from \in Nat, from = borrow.tail_start, NEW p, Stands(Cells(s, v), len, from, p),
         NEW m, m = borrow.tail_len, m = Len(p.after), from + m <= MaxCap, m > 0 => len <= from
  PROVE  Contents(Restored(s), v) = p.before \o (p.added \o p.after)
<1> DEFINE src   == Cells(s, v)
           cells == Shift(src, from, len, m)
           n     == len + m
<1>1. m \in Nat /\ MaxCap \in Nat /\ src \in Block /\ Stands(src, len, from, p)
  BY PastTypes, SoundLen, RawAssumption DEF Stands
<1>2. CASE m = 0
  <2>1. Restored(s) = s /\ LenOf(s, v) = len + Len(p.after)
    BY <1>2 DEF Restored
  <2>2. Keeps(src, len, src, from, len, m)
    BY <1>2 DEF Keeps
  <2>3. src = Cells(s, v)
    OBVIOUS
  <2> HIDE DEF src
  <2>4. Stands(src, len, len, p)
    BY <1>1, <2>2, StandsKept
  <2>5. LenOf(s, v) = len + Len(p.after)
    BY <2>1
  <2>6. Contents(s, v) = p.before \o (p.added \o p.after)
    BY <2>3, <2>4, <2>5, StandsTogether
  <2> QED BY <2>1, <2>6
<1>3. CASE m # 0
  <2> DEFINE g == Restored(s)
  <2>1. g = Edited(s, v, cells, n)
    BY <1>1, <1>3 DEF Restored
  <2>2. len <= from /\ n = len + m /\ n \in 0 .. MaxCap /\ cells = Shift(src, from, len, m)
    BY <1>1, <1>3
  <2> HIDE DEF g, src, cells, n
  <2>4. Keeps(cells, len, src, from, len, m)
    BY <1>1, <2>2, ShiftKeeps
  <2>5. Stands(cells, len, len, p)
    BY <1>1, <2>4, StandsKept
  <2>6. LenOf(g, v) = n /\ Cells(g, v) = cells
    BY <2>1, <2>2, Rewritten
  <2>7. LenOf(g, v) = len + Len(p.after)
    BY <2>2, <2>6
  <2>8. Contents(g, v) = p.before \o (p.added \o p.after)
    BY <2>5, <2>6, <2>7, StandsTogether
  <2> QED BY <2>8 DEF g
<1> QED BY <1>2, <1>3
(* A forgotten iterator leaves what was before its range.                  *)
LEMMA ForgetRestores ==
  ASSUME DInv, Remembered, Forget
  PROVE  Contents(store', v) = past.before \o <<>>
<1> DEFINE src  == Cells(store, v)
           len  == LenOf(store, v)
           none == <<>>
           p    == [past EXCEPT !.after = none]
<1>1. Defined /\ phase # "free" /\ IterOut /\ store' = store
  BY DEF Forget, IterOut, Defined, vars
<1>2. Stands(src, len, borrow.tail_start, past) /\ past \in Pasts /\ past.added = none /\ len \in Nat
  BY <1>1, RemembersNow
<1>3. none \in Seq(Elems) /\ Len(none) = 0
  BY EmptySeq
<1>4. /\ p \in Pasts /\ p.before = past.before /\ p.added = none /\ p.after = none
  BY <1>2, <1>3 DEF Pasts
<1>5. none \o none = none
  BY <1>3, ConcatEmptySeq
<1>6. src = Cells(store, v) /\ LenOf(store, v) = len
  OBVIOUS
<1> HIDE DEF src, len, none, p
<1>7. Stands(src, len, len, p)
  <2>1. Spells(src, len, p.after) /\ Spells(src, Len(p.before), p.added)
    BY <1>3, <1>4 DEF Spells
  <2>2. Spells(src, 0, p.before) /\ len = Len(p.before) + Len(p.added)
    BY <1>2, <1>4 DEF Stands
  <2> QED BY <1>4, <2>1, <2>2 DEF Stands
<1>8. LenOf(store, v) = len + Len(p.after)
  BY <1>2, <1>3, <1>4, <1>6
<1>9. Contents(store, v) = p.before \o (p.added \o p.after)
  BY <1>6, <1>7, <1>8, StandsTogether
<1>10. Contents(store, v) = past.before \o none
  BY <1>4, <1>5, <1>9
<1> QED BY <1>1, <1>10 DEF none

(* Any other end of a borrow leaves the whole.                             *)
LEMMA EndRestores ==
  ASSUME DInv, Remembered, DropDrain \/ Return \/ ExtendPushPanics \/ \E n \in Sizes : CollectPanics(n)
  PROVE  Contents(store', v) = past.before \o (past.added \o past.after)
<1> DEFINE len  == LenOf(store, v)
           from == borrow.tail_start
           m    == borrow.tail_len
<1>1. Defined /\ phase # "free"
  BY DEF DropDrain, Return, ExtendPushPanics, CollectPanics, CanCollect, RangeFilled, IterOut, Defined
<1>2. /\ Stands(Cells(store, v), len, from, past) /\ m = Len(past.after)
      /\ v \in Handles /\ Sound(store) /\ Cells(store, v) \in Block
      /\ len \in Nat /\ len <= MaxCap /\ from \in Nat /\ m \in Nat /\ MaxCap \in Nat
      /\ from + m <= MaxCap
  BY <1>1, RemembersNow
<1>3. m > 0 => len <= from
  <2>1. CASE IterOut
    <3>1. /\ len <= borrow.front /\ borrow.front <= borrow.back /\ borrow.back <= from
          /\ borrow.front \in Nat /\ borrow.back \in Nat
      BY <1>1, <2>1, FieldTypes DEF DInv, Layout
    <3> QED BY <1>2, <3>1
  <2>2. CASE ~IterOut
    BY <1>1, <2>2, TailOnly
  <2> QED BY <2>1, <2>2
<1>4. CASE DropDrain
  <2> DEFINE s     == RangeDropped
             i     == borrow.front
             n     == borrow.back - borrow.front
             cells == Wipe(Cells(store, v), i, n)
  <2>1. store' = Restored(s) /\ IterOut
    BY <1>4 DEF DropDrain, IterOut
  <2>2. LenOf(s, v) = len /\ Accounts(s, caller, (dropped \cup IterItems) \cup TailItems, live, AtStake)
    BY <2>1, RestDropped
  <2>3. Sound(s)
    BY <2>2 DEF Accounts, Bounded
  <2>4. Stands(Cells(s, v), len, from, past)
    <3>1. /\ i \in Nat /\ n \in Nat /\ len <= i /\ i + n <= from
      <4>1. /\ len <= borrow.front /\ borrow.front <= borrow.back /\ borrow.back <= from
            /\ borrow.front \in Nat /\ borrow.back \in Nat
        BY <1>1, <2>1, FieldTypes DEF DInv, Layout
      <4> QED BY <1>2, <4>1
    <3>2. s = Edited(store, v, cells, len) /\ len \in 0 .. MaxCap
      BY <1>2 DEF RangeDropped
    <3> HIDE DEF s, cells
    <3>3. Cells(s, v) = cells
      BY <1>2, <3>2, Rewritten
    <3> HIDE DEF i, n, len, from, m
    <3>4. Keeps(cells, from, Cells(store, v), from, len, m)
      BY <1>2, <3>1, WipeKeeps DEF cells
    <3>5. Stands(cells, len, from, past)
      BY <1>2, <3>4, StandsKept
    <3> QED BY <3>3, <3>5
  <2> HIDE DEF s, len, from, m
  <2>5. Contents(Restored(s), v) = past.before \o (past.added \o past.after)
    <3>1. len = LenOf(s, v)
      BY <2>2
    <3>2. from = borrow.tail_start /\ m = borrow.tail_len
      BY DEF from, m
    <3>3. /\ v \in Handles /\ len \in Nat /\ len <= MaxCap /\ from \in Nat
          /\ m = Len(past.after) /\ from + m <= MaxCap /\ (m > 0 => len <= from)
      BY <1>2, <1>3
    <3> QED BY <2>3, <2>4, <3>1, <3>2, <3>3, RestoredWhole
  <2> QED BY <2>1, <2>5
<1>5. CASE ~DropDrain
  <2>1. store' = Restored(store)
    <3>1. CASE Return \/ \E n \in Sizes : CollectPanics(n)
      BY <3>1 DEF Return, CollectPanics
    <3>2. CASE ExtendPushPanics
      <4>1. store' = store /\ phase = "extending"
        BY <3>2 DEF ExtendPushPanics, PushPanics, DropArgument
      <4>2. borrow.tail_len = 0
        BY <1>1, <4>1 DEF DInv, Layout
      <4> QED BY <4>1, <4>2 DEF Restored
    <3> QED BY <1>5, <3>1, <3>2
  <2> HIDE DEF len, from, m
  <2>2. len = LenOf(store, v) /\ from = borrow.tail_start /\ m = borrow.tail_len
    BY DEF len, from, m
  <2>3. /\ v \in Handles /\ Sound(store) /\ len \in Nat /\ len <= MaxCap /\ from \in Nat
        /\ m = Len(past.after) /\ from + m <= MaxCap /\ (m > 0 => len <= from)
        /\ Stands(Cells(store, v), len, from, past)
    BY <1>2, <1>3
  <2>4. Contents(Restored(store), v) = past.before \o (past.added \o past.after)
    BY <2>2, <2>3, RestoredWhole
  <2> QED BY <2>1, <2>4
<1> QED BY <1>4, <1>5

(* Whatever a Splice was given, by however many fills, hints and           *)
(* collections and wherever user code panicked, its end puts before the    *)
(* tail what was added, in order; a Drain puts nothing there.              *)
THEOREM VectorRestored == DrainSpec => VectorIsRestored
<1>1. ASSUME DInv, Remembered, [DrainNext]_allVars, phase # "free", phase' = "free"
      PROVE  Contents(store', v) =
               past.before \o (IF Forget THEN <<>> ELSE past.added \o past.after)
  <2>1. CASE Forget
    BY <1>1, <2>1, ForgetRestores
  <2>2. CASE ~Forget
    <3>1. /\ ~Program /\ ~NextFront /\ ~NextBack /\ ~DropSplice /\ ~UNCHANGED allVars
          /\ ~ExtendPush /\ ~Fill /\ ~Unwind /\ ~Undefined
          /\ \A n \in Sizes : ~ExtendReserve(n) /\ ~SizeHint(n) /\ ~Collect(n) /\ ~MoveTailPanics(n)
          /\ \A h \in Handles, i, j \in 0 .. MaxCap, kind \in {"drain", "splice"} : ~Borrow(h, i, j, kind)
      BY <1>1 DEF Program, NextFront, NextBack, Yield, DropSplice, allVars, dvars, ExtendPush, Fill,
                  Unwind, Undefined, ExtendReserve, SizeHint, Collect, MoveTailPanics, Borrow
    <3>2. DropDrain \/ Return \/ ExtendPushPanics \/ \E n \in Sizes : CollectPanics(n)
      BY <1>1, <2>2, <3>1 DEF DrainNext, SpliceStep
    <3>3. Contents(store', v) = past.before \o (past.added \o past.after)
      BY <1>1, <3>2, EndRestores
    <3> QED BY <2>2, <3>3
  <2> QED BY <2>1, <2>2
<1>2. DInv /\ Remembered /\ [DrainNext]_allVars
        => [phase # "free" /\ phase' = "free" =>
              Contents(store', v) =
                past.before \o (IF Forget THEN <<>> ELSE past.added \o past.after)]_allVars
  BY <1>1
<1> QED BY <1>2, RememberedInvariant, PTL DEF DrainSpec, VectorIsRestored
=============================================================================
