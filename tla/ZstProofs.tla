------------------------------ MODULE ZstProofs ------------------------------
(***************************************************************************)
(* slice_range computes the range that its bounds mean, for a usize of any *)
(* width; lengths of vectors of a zero-sized type never leave a usize, so  *)
(* that every drain finds the range its bounds mean; and every destructor  *)
(* of such a type runs once.                                               *)
(***************************************************************************)
EXTENDS ZstSmallVec, FiniteSetTheorems, TLAPS

----------------------------------------------------------------------------
(* Ranges.                                                                 *)

(* A bound that does not overflow when it is moved is moved by one.  One   *)
(* that does is out of range of any vector.                                *)
LEMMA CheckedSuccFact ==
  ASSUME NEW n \in Usize
  PROVE  /\ n < UMax => CheckedSucc(n) = {n + 1}
         /\ n = UMax => CheckedSucc(n) = {}
BY UMaxAssumption DEF Usize, CheckedSucc

(* A range has one start and one end at most.                              *)
LEMMA RangeMember ==
  ASSUME NEW lo \in Bounds, NEW hi \in Bounds, NEW len \in Usize, NEW r
  PROVE  r \in SliceRange(lo, hi, len) <=>
           \E s \in StartIndex(lo), e \in EndIndex(hi, len) :
             r = [start |-> s, end |-> e] /\ s <= e /\ e <= len
BY DEF SliceRange

(* slice_range (lib.rs:159): for all bounds and every length, usize::MAX   *)
(* included, it panics exactly when the bounds cross or leave the vector,  *)
(* and returns the indices that both bounds admit.                         *)
THEOREM SliceRangeIsRight ==
  ASSUME NEW lo \in Bounds, NEW hi \in Bounds, NEW len \in Usize
  PROVE  RangeIsRight(lo, hi, len)
<1> DEFINE First == CASE lo.kind = "included"  -> lo.at
                      [] lo.kind = "excluded"  -> lo.at + 1
                      [] lo.kind = "unbounded" -> 0
           After == CASE hi.kind = "included"  -> hi.at + 1
                      [] hi.kind = "excluded"  -> hi.at
                      [] hi.kind = "unbounded" -> len
<1>1. lo.at \in 0 .. UMax /\ lo.kind \in {"included", "excluded", "unbounded"}
  BY UMaxAssumption DEF Bounds, Usize
<1>2. hi.at \in 0 .. UMax /\ hi.kind \in {"included", "excluded", "unbounded"}
  BY UMaxAssumption DEF Bounds, Usize
<1>3. len \in 0 .. UMax
  BY DEF Usize
<1>4. StartIndex(lo) = {s \in {First} : s <= UMax}
  BY <1>1, UMaxAssumption, CheckedSuccFact DEF StartIndex, Usize
<1>5. EndIndex(hi, len) = {e \in {After} : e <= UMax}
  BY <1>2, <1>3, UMaxAssumption, CheckedSuccFact DEF EndIndex, Usize
<1>6. First \in Nat /\ After \in Nat
  BY <1>1, <1>2, <1>3
<1>7. OutOfRange(lo, hi, len) <=> First > After \/ After > len
  BY DEF OutOfRange
<1>8. ASSUME NEW i \in Usize
      PROVE  Admits(lo, hi, len, i) <=> First <= i /\ i < After
  BY <1>1, <1>2, <1>3 DEF Admits, Usize
<1> HIDE DEF First, After
<1>9. ASSUME NEW r
      PROVE  r \in SliceRange(lo, hi, len) <=>
               r = [start |-> First, end |-> After] /\ First <= After /\ After <= len
  BY <1>3, <1>4, <1>5, <1>6, UMaxAssumption, RangeMember
<1>10. SliceRange(lo, hi, len) = {} <=> OutOfRange(lo, hi, len)
  <2>1. OutOfRange(lo, hi, len) <=> ~(First <= After /\ After <= len)
    BY <1>3, <1>6, <1>7
  <2>2. [start |-> First, end |-> After] \in SliceRange(lo, hi, len)
          <=> First <= After /\ After <= len
    BY <1>9
  <2>3. QED
    BY <2>1, <2>2, <1>9
<1>11. ASSUME NEW r \in SliceRange(lo, hi, len)
       PROVE  /\ r.end <= len
              /\ \A i \in Usize : i \in r.start .. r.end - 1 <=> Admits(lo, hi, len, i)
  <2>1. r.start = First /\ r.end = After /\ After <= len
    BY <1>9
  <2>2. QED
    BY <2>1, <1>6, <1>8 DEF Usize
<1>12. QED
  BY <1>10, <1>11 DEF RangeIsRight

----------------------------------------------------------------------------
(* Lengths.                                                                *)

(* The words of all handles are lengths; no iterator has passed its end,   *)
(* and one that is gone starts at 0 again.                                 *)
WordsOK ==
  /\ word \in [Handles -> Usize]
  /\ live \subseteq Handles
  /\ iters \subseteq Vecs
  /\ begin \in [Handles -> Nat]
  /\ \A h \in Handles : begin[h] <= word[h]
  /\ \A h \in Handles \ iters : begin[h] = 0

(* What a Drain gives back fits the vector it was taken from.              *)
BorrowFits ==
  /\ borrow \in [vec : Handles, tail_start : Usize, tail_len : Usize, left : Usize]
  /\ borrow.vec = Std => borrow = NoBorrow
  /\ borrow.vec # Std =>
       /\ borrow.vec \in live \ iters
       /\ LenOf(borrow.vec) + borrow.left + borrow.tail_len <= UMax

(* A live vector is not an iterator as well.                               *)
Apart == live \cap iters = {}

ZInv == WordsOK /\ BorrowFits /\ Apart

LEMMA InitInv == Init => ZInv
<1> SUFFICES ASSUME Init PROVE ZInv
  OBVIOUS
<1> USE UMaxAssumption DEF Init, Usize
<1>1. WordsOK
  BY DEF WordsOK, Handles
<1>2. BorrowFits
  BY DEF BorrowFits, NoBorrow, Handles
<1>3. QED
  BY <1>1, <1>2 DEF ZInv, Apart

(* Any step that begins with no borrow out and sets words to lengths.      *)
LEMMA StillFree ==
  ASSUME ZInv, Free, UNCHANGED borrow
  PROVE  BorrowFits'
BY DEF ZInv, BorrowFits, Free

(* A call on a live vector changes its word to a length.                   *)
LEMMA OneWord ==
  ASSUME ZInv, NEW h \in Handles, NEW n \in Usize, h \notin iters,
         SetLen(h, n), UNCHANGED <<iters, begin>>, live' \subseteq Handles
  PROVE  WordsOK'
BY UMaxAssumption DEF ZInv, WordsOK, SetLen, Usize

(* A range of a vector is made of indices of that vector.                  *)
LEMMA RangeFits ==
  ASSUME NEW lo \in Bounds, NEW hi \in Bounds, NEW len \in Usize,
         NEW r \in SliceRange(lo, hi, len)
  PROVE  r.start \in 0 .. UMax /\ r.end \in 0 .. UMax /\ r.start <= r.end /\ r.end <= len
<1> USE UMaxAssumption DEF Usize
<1>1. PICK s \in StartIndex(lo), e \in EndIndex(hi, len) :
        r = [start |-> s, end |-> e] /\ s <= e /\ e <= len
  BY RangeMember
<1>2. s \in Nat
  <2>1. lo.at \in 0 .. UMax /\ lo.kind \in {"included", "excluded", "unbounded"}
    BY DEF Bounds
  <2>2. QED
    BY <2>1, CheckedSuccFact DEF StartIndex
<1>3. e \in Nat
  <2>1. hi.at \in 0 .. UMax /\ hi.kind \in {"included", "excluded", "unbounded"}
    BY DEF Bounds
  <2>2. QED
    BY <2>1, CheckedSuccFact DEF EndIndex
<1>4. QED
  BY <1>1, <1>2, <1>3

LEMMA StepInv == ZInv /\ [Next]_vars => ZInv'
<1> SUFFICES ASSUME ZInv, [Next]_vars PROVE ZInv'
  OBVIOUS
<1> USE UMaxAssumption, ZstAssumption DEF Usize
<1>0. ASSUME UNCHANGED vars PROVE ZInv'
  BY <1>0 DEF vars, ZInv, WordsOK, BorrowFits, Apart, LenOf
<1>1. ASSUME Free, NEW h \in Handles, New(h) PROVE ZInv'
  <2>1. WordsOK'
    BY <1>1, OneWord DEF New, Construct, ZInv, WordsOK
  <2>2. QED
    BY <1>1, <2>1, StillFree DEF New, Construct, ZInv, Apart
<1>2. ASSUME Free, NEW h \in Handles, FromVec(h) PROVE ZInv'
  <2>1. WordsOK'
    BY <1>2 DEF FromVec, ZInv, WordsOK, Handles, LenOf
  <2>2. QED
    BY <1>2, <2>1, StillFree DEF FromVec, ZInv, Apart
<1>3. ASSUME Free, NEW h \in Handles, IntoVec(h) PROVE ZInv'
  <2>1. WordsOK'
    BY <1>3 DEF IntoVec, ZInv, WordsOK, Handles, LenOf, Apart
  <2>2. QED
    BY <1>3, <2>1, StillFree DEF IntoVec, ZInv, Apart, WordsOK
<1>4. ASSUME Free, NEW h \in Handles, IntoInner(h) \/ DropVec(h) PROVE ZInv'
  <2>1. WordsOK'
    BY <1>4, OneWord DEF IntoInner, DropVec, ZInv, WordsOK, Apart
  <2>2. QED
    BY <1>4, <2>1, StillFree DEF IntoInner, DropVec, ZInv, Apart
<1>5. ASSUME Free, NEW h \in Handles, TakeOut(h) \/ AddPanics(h) PROVE ZInv'
  <2>1. WordsOK'
    BY <1>5, OneWord DEF TakeOut, AddPanics, Call, ZInv, WordsOK, Apart, LenOf
  <2>2. QED
    BY <1>5, <2>1, StillFree DEF TakeOut, AddPanics, Call, ZInv, Apart
<1>6. ASSUME Free, NEW h \in Handles, IntoIter(h) PROVE ZInv'
  <2>1. WordsOK'
    BY <1>6 DEF IntoIter, ZInv, WordsOK, Handles
  <2>2. QED
    BY <1>6, <2>1, StillFree DEF IntoIter, ZInv, Apart
<1>7. ASSUME Free, NEW h \in Vecs, NEW n \in Usize,
             FromBufAndLen(h, n) \/ Add(h, n) \/ Truncate(h, n)
      PROVE  ZInv'
  <2>1. WordsOK'
    BY <1>7, OneWord DEF FromBufAndLen, Construct, Add, Truncate, Call, Reserves, Capacity,
                         ZInv, WordsOK, Apart, LenOf, Handles
  <2>2. QED
    BY <1>7, <2>1, StillFree DEF FromBufAndLen, Construct, Add, Truncate, Call, ZInv, Apart
<1>8. ASSUME Free, NEW n \in Usize, VecNew(n) PROVE ZInv'
  <2>1. WordsOK'
    BY <1>8, OneWord DEF VecNew, Construct, ZInv, WordsOK, Handles
  <2>2. QED
    BY <1>8, <2>1, StillFree DEF VecNew, Construct, ZInv, Apart
<1>9. ASSUME Free, NEW h \in Vecs, NEW k \in Vecs, Append(h, k) PROVE ZInv'
  <2>1. (LenOf(h) + LenOf(k)) % (UMax + 1) \in Usize
    BY DEF ZInv, WordsOK, LenOf, Handles
  <2>2. WordsOK'
    BY <1>9, <2>1 DEF Append, Call, ZInv, WordsOK, Apart, Handles
  <2>3. QED
    BY <1>9, <2>2, StillFree DEF Append, Call, ZInv, Apart
<1>10. ASSUME Free, NEW h \in Vecs, NEW k \in Vecs, NEW at \in Usize, SplitOff(h, k, at)
       PROVE  ZInv'
  <2>1. WordsOK'
    BY <1>10 DEF SplitOff, Construct, ZInv, WordsOK, Apart, Handles, LenOf
  <2>2. QED
    BY <1>10, <2>1, StillFree DEF SplitOff, Construct, ZInv, Apart
<1>11. ASSUME Free, NEW h \in Vecs, NEW lo \in Bounds, NEW hi \in Bounds, Drain(h, lo, hi)
       PROVE  ZInv'
  <2>1. PICK r \in SliceRange(lo, hi, LenOf(h)) :
          /\ borrow' = [vec |-> h, tail_start |-> r.end, tail_len |-> LenOf(h) - r.end,
                        left |-> r.end - r.start]
          /\ SetLen(h, r.start)
    BY <1>11 DEF Drain
  <2>2. h \in Handles /\ h # Std /\ h \in live /\ h \notin iters /\ LenOf(h) \in 0 .. UMax
    BY <1>11 DEF Drain, ZInv, WordsOK, Apart, Handles, LenOf
  <2>3. r.start \in 0 .. UMax /\ r.end \in 0 .. UMax /\ r.start <= r.end /\ r.end <= LenOf(h)
    BY <2>2, RangeFits
  <2>4. WordsOK'
    BY <1>11, <2>1, <2>2, <2>3, OneWord DEF Drain, ZInv, WordsOK
  <2>5. BorrowFits'
    <3>1. word'[h] = r.start
      BY <2>1, <2>2 DEF SetLen, ZInv, WordsOK
    <3>2. QED
      BY <1>11, <2>1, <2>2, <2>3, <3>1 DEF Drain, BorrowFits, LenOf
  <2>6. QED
    BY <1>11, <2>4, <2>5 DEF Drain, ZInv, Apart
<1>12. ASSUME Free, NEW h \in iters, NextFront(h) \/ NextBack(h) PROVE ZInv'
  <2>1. WordsOK'
    BY <1>12 DEF NextFront, NextBack, SetLen, LenOf, ZInv, WordsOK, Handles
  <2>2. QED
    BY <1>12, <2>1, StillFree DEF NextFront, NextBack, ZInv, Apart
<1>13. ASSUME Free, NEW h \in iters, DropIter(h) \/ ForgetIter(h) PROVE ZInv'
  <2>1. WordsOK'
    BY <1>13 DEF DropIter, ForgetIter, IterGone, SetLen, ZInv, WordsOK, Handles
  <2>2. QED
    BY <1>13, <2>1, StillFree DEF DropIter, ForgetIter, IterGone, ZInv, Apart
<1>14. ASSUME DrainNext PROVE ZInv'
  BY <1>14 DEF DrainNext, Free, ZInv, WordsOK, BorrowFits, Apart, LenOf, Handles
<1>15. ASSUME DropDrain PROVE ZInv'
  <2>1. /\ borrow.vec \in Handles /\ borrow.vec # Std /\ borrow.vec \notin iters
        /\ LenOf(borrow.vec) + borrow.tail_len \in Usize
    BY <1>15 DEF DropDrain, Free, ZInv, WordsOK, BorrowFits, LenOf
  <2>2. WordsOK'
    BY <1>15, <2>1, OneWord DEF DropDrain, ZInv, WordsOK
  <2>3. QED
    BY <1>15, <2>2 DEF DropDrain, ZInv, Apart, BorrowFits, NoBorrow, Handles
<1>16. ASSUME ForgetDrain PROVE ZInv'
  BY <1>16 DEF ForgetDrain, ZInv, WordsOK, BorrowFits, Apart, NoBorrow, Handles
<1>17. QED
  BY <1>0, <1>1, <1>2, <1>3, <1>4, <1>5, <1>6, <1>7, <1>8, <1>9, <1>10, <1>11, <1>12,
     <1>13, <1>14, <1>15, <1>16 DEF Next

THEOREM LengthsFit == Spec => []ZInv
BY InitInv, StepInv, PTL DEF Spec

(* drain on a vector of a zero-sized type (lib.rs:159, 1100): for every    *)
(* width of usize the range is what the bounds say, at every length that   *)
(* is reached, usize::MAX included.                                        *)
THEOREM DrainRangesRight == Spec => []RangesAreRight
<1>1. ZInv => RangesAreRight
  BY SliceRangeIsRight DEF ZInv, WordsOK, RangesAreRight, LenOf, Handles
<1>2. QED
  BY <1>1, LengthsFit, PTL
----------------------------------------------------------------------------
(* Sums over the handles, as the number of pairs of a handle and a rank.   *)

Pairs(f, S) == UNION {{h} \X (1 .. f[h]) : h \in S}

Tally(f) == Cardinality(Pairs(f, Handles))

LEMMA HandlesFinite == IsFiniteSet(Handles)
BY ZstAssumption, FS_Singleton, FS_Union DEF Handles

LEMMA OneColumn ==
  ASSUME NEW h, NEW n \in Nat
  PROVE  IsFiniteSet({h} \X (1 .. n)) /\ Cardinality({h} \X (1 .. n)) = n
<1>1. IsFiniteSet({h}) /\ Cardinality({h}) = 1
  BY FS_Singleton
<1>2. IsFiniteSet(1 .. n) /\ Cardinality(1 .. n) = n
  BY FS_Interval
<1>3. /\ IsFiniteSet({h} \X (1 .. n))
      /\ Cardinality({h} \X (1 .. n)) = Cardinality({h}) * Cardinality(1 .. n)
  BY <1>1, <1>2, FS_Product
<1>4. QED
  BY <1>1, <1>2, <1>3

LEMMA PairsFinite ==
  ASSUME NEW f \in [Handles -> Usize], NEW S \in SUBSET Handles
  PROVE  IsFiniteSet(Pairs(f, S))
<1>1. IsFiniteSet(S) /\ IsFiniteSet(1 .. UMax)
  BY HandlesFinite, FS_Subset, FS_Interval, UMaxAssumption
<1>2. Pairs(f, S) \subseteq S \X (1 .. UMax)
  <2>1. ASSUME NEW h \in S, NEW i \in 1 .. f[h] PROVE i \in 1 .. UMax
    BY UMaxAssumption DEF Usize
  <2>2. QED
    BY <2>1 DEF Pairs
<1>3. IsFiniteSet(S \X (1 .. UMax))
  BY <1>1, FS_Product
<1>4. QED
  BY <1>2, <1>3, FS_Subset

(* The sum is the summand of one handle and the sum of the others.         *)
LEMMA Apiece ==
  ASSUME NEW f \in [Handles -> Usize], NEW h \in Handles
  PROVE  /\ Tally(f) = f[h] + Cardinality(Pairs(f, Handles \ {h}))
         /\ Cardinality(Pairs(f, Handles \ {h})) \in Nat
<1> DEFINE R == Pairs(f, Handles \ {h})
           C == {h} \X (1 .. f[h])
<1>1. IsFiniteSet(R)
  BY PairsFinite
<1>2. f[h] \in Nat
  BY UMaxAssumption DEF Usize
<1>3. IsFiniteSet(C) /\ Cardinality(C) = f[h]
  BY <1>2, OneColumn
<1>4. Pairs(f, Handles) = R \cup C
  BY DEF Pairs
<1>5. R \cap C = {}
  BY DEF Pairs
<1>6. Cardinality(R) \in Nat /\ Cardinality({}) = 0
  BY <1>1, FS_CardinalityType, FS_EmptySet
<1> HIDE DEF R, C
<1>7. Cardinality(R \cup C) = Cardinality(R) + Cardinality(C) - Cardinality(R \cap C)
  BY <1>1, <1>3, FS_Union
<1>8. Cardinality(R \cap C) = 0
  BY <1>5, <1>6
<1>9. Cardinality(R \cup C) = f[h] + Cardinality(R)
  BY <1>2, <1>3, <1>6, <1>7, <1>8
<1>10. Tally(f) = Cardinality(R \cup C)
  BY <1>4 DEF Tally
<1>11. QED
  BY <1>6, <1>9, <1>10 DEF R

LEMMA TallyType ==
  ASSUME NEW f \in [Handles -> Usize]
  PROVE  Tally(f) \in Nat
BY PairsFinite, FS_CardinalityType DEF Tally

LEMMA NoneAtAll ==
  ASSUME NEW f \in [Handles -> Usize], \A h \in Handles : f[h] = 0
  PROVE  Tally(f) = 0
<1>1. Pairs(f, Handles) = {}
  BY DEF Pairs
<1>2. QED
  BY <1>1, FS_EmptySet DEF Tally

(* f and g differ at h at most.                                            *)
SameBut(f, g, S) == \A k \in Handles \ S : f[k] = g[k]

LEMMA OneDiffers ==
  ASSUME NEW f \in [Handles -> Usize], NEW g \in [Handles -> Usize], NEW h \in Handles,
         SameBut(f, g, {h})
  PROVE  Tally(g) + f[h] = Tally(f) + g[h]
<1>1. Pairs(f, Handles \ {h}) = Pairs(g, Handles \ {h})
  BY DEF Pairs, SameBut
<1>2. f[h] \in Nat /\ g[h] \in Nat
  BY UMaxAssumption DEF Usize
<1>3. QED
  BY <1>1, <1>2, Apiece

LEMMA TwoDiffer ==
  ASSUME NEW f \in [Handles -> Usize], NEW g \in [Handles -> Usize],
         NEW h \in Handles, NEW k \in Handles \ {h}, SameBut(f, g, {h, k})
  PROVE  /\ Tally(g) + f[h] + f[k] = Tally(f) + g[h] + g[k]
         /\ f[h] + f[k] <= Tally(f)
<1> DEFINE m == [f EXCEPT ![h] = g[h]]
           z == [f EXCEPT ![h] = 0]
<1>1. m \in [Handles -> Usize] /\ z \in [Handles -> Usize]
  BY UMaxAssumption DEF Usize
<1>2. SameBut(f, m, {h}) /\ SameBut(m, g, {k}) /\ SameBut(f, z, {h})
  BY DEF SameBut
<1>3. m[h] = g[h] /\ m[k] = f[k] /\ z[h] = 0 /\ z[k] = f[k]
  OBVIOUS
<1> HIDE DEF m, z
<1>4. /\ Tally(m) + f[h] = Tally(f) + m[h]
      /\ Tally(g) + m[k] = Tally(m) + g[k]
      /\ Tally(z) + f[h] = Tally(f) + z[h]
  BY <1>1, <1>2, OneDiffers
<1>5. Tally(z) = z[k] + Cardinality(Pairs(z, Handles \ {k}))
        /\ Cardinality(Pairs(z, Handles \ {k})) \in Nat
  BY <1>1, Apiece
<1>6. Tally(f) \in Nat /\ Tally(g) \in Nat /\ Tally(m) \in Nat /\ Tally(z) \in Nat
        /\ f[h] \in Nat /\ f[k] \in Nat /\ g[h] \in Nat /\ g[k] \in Nat
  BY <1>1, TallyType, UMaxAssumption DEF Usize
<1>7. QED
  BY <1>3, <1>4, <1>5, <1>6
----------------------------------------------------------------------------
(* Accounting.                                                             *)

Counts   == [held : Nat, dropped : Nat, leaked : Nat]
Spent(c) == c.held + c.dropped + c.leaked

(* No sum of two lengths wraps without notice.                             *)
NoWrap == OverflowChecks \/ Total <= UMax

(* No element was made up; unless a length wrapped, none was lost.         *)
Balanced(f, c) ==
  /\ Spent(c) + Tally(f) <= Total
  /\ NoWrap => Spent(c) + Tally(f) = Total

Owed == [h \in Handles |-> Owned(h)]

(* With ZInv: what is owned by nobody is not there, and all is accounted   *)
(* for.                                                                    *)
Counted ==
  /\ count \in Counts
  /\ \A h \in Handles \ (live \cup iters) : word[h] = 0
  /\ Balanced(Owed, count)

LEMMA OwedType == ZInv => Owed \in [Handles -> Usize]
<1> SUFFICES ASSUME ZInv, NEW h \in Handles PROVE Owned(h) \in Usize
  BY DEF Owed
<1>1. CASE h # borrow.vec
  BY <1>1, UMaxAssumption DEF ZInv, WordsOK, Owned, LenOf, Usize
<1>2. CASE h = borrow.vec /\ borrow.vec # Std
  BY <1>2, UMaxAssumption DEF ZInv, WordsOK, BorrowFits, Owned, LenOf, Usize
<1>3. CASE borrow = NoBorrow
  BY <1>3, UMaxAssumption DEF ZInv, WordsOK, NoBorrow, Owned, LenOf, Usize
<1>4. QED
  BY <1>1, <1>2, <1>3 DEF ZInv, BorrowFits

LEMMA OwedTypeNext == ZInv' => (Owed \in [Handles -> Usize])'
BY OwedType, PTL

LEMMA MovesOne ==
  ASSUME NEW f \in [Handles -> Usize], NEW g \in [Handles -> Usize], NEW h \in Handles,
         SameBut(f, g, {h}), NEW c \in Counts, NEW d \in Counts,
         Balanced(f, c), Spent(d) + g[h] = Spent(c) + f[h]
  PROVE  Balanced(g, d)
<1>1. Tally(g) + f[h] = Tally(f) + g[h]
  BY OneDiffers
<1>2. Tally(f) \in Nat /\ Tally(g) \in Nat /\ f[h] \in Nat /\ g[h] \in Nat
  BY TallyType, UMaxAssumption DEF Usize
<1>3. Spent(c) \in Nat /\ Spent(d) \in Nat /\ Total \in Nat
  BY ZstAssumption DEF Spent, Counts
<1>4. QED
  BY <1>1, <1>2, <1>3 DEF Balanced

LEMMA MovesTwo ==
  ASSUME NEW f \in [Handles -> Usize], NEW g \in [Handles -> Usize],
         NEW h \in Handles, NEW k \in Handles \ {h}, SameBut(f, g, {h, k}),
         NEW c \in Counts, Balanced(f, c), g[h] + g[k] <= f[h] + f[k],
         NoWrap => g[h] + g[k] = f[h] + f[k]
  PROVE  Balanced(g, c)
<1>1. Tally(g) + f[h] + f[k] = Tally(f) + g[h] + g[k]
  BY TwoDiffer
<1>2. Tally(f) \in Nat /\ Tally(g) \in Nat
        /\ f[h] \in Nat /\ g[h] \in Nat /\ f[k] \in Nat /\ g[k] \in Nat
  BY TallyType, UMaxAssumption DEF Usize
<1>3. Spent(c) \in Nat /\ Total \in Nat
  BY ZstAssumption DEF Spent, Counts
<1>4. QED
  BY <1>1, <1>2, <1>3 DEF Balanced

LEMMA InitCounted == Init => Counted
<1> SUFFICES ASSUME Init PROVE Counted
  OBVIOUS
<1>1. Owed \in [Handles -> Usize] /\ \A h \in Handles : Owed[h] = 0
  BY UMaxAssumption DEF Init, Owed, Owned, LenOf, NoBorrow, Usize
<1>2. Tally(Owed) = 0
  BY <1>1, NoneAtAll
<1>3. count \in Counts /\ Spent(count) = Total
  BY ZstAssumption DEF Init, Counts, Spent
<1>4. QED
  BY <1>2, <1>3, ZstAssumption DEF Counted, Balanced, Init

(* What a vector or an iterator has, when there is no Drain.               *)
Rest(w, b) == [h \in Handles |-> w[h] - b[h]]

LEMMA OwedWhenFree ==
  ASSUME ZInv, Free
  PROVE  Owed = Rest(word, begin)
BY DEF Free, BorrowFits, ZInv, WordsOK, Owed, Owned, Rest, NoBorrow, LenOf, Usize

(* The elements that h has less, the counts have more, and vice versa.     *)
Pays(h) ==
  /\ \A k \in Handles \ {h} : word'[k] = word[k] /\ begin'[k] = begin[k]
  /\ count' \in Counts
  /\ Spent(count') + (word'[h] - begin'[h]) = Spent(count) + (word[h] - begin[h])

(* A call with no Drain out changes what one handle has.                   *)
LEMMA OnePays ==
  ASSUME ZInv, ZInv', Counted, Free, UNCHANGED borrow, NEW h \in Handles, Pays(h),
         \A k \in Handles \ (live' \cup iters') : word'[k] = 0
  PROVE  Counted'
<1>1. borrow' = NoBorrow
  BY DEF ZInv, BorrowFits, Free
<1>2. Owed = Rest(word, begin) /\ Owed \in [Handles -> Usize]
  BY OwedWhenFree, OwedType
<1>3. Owed' = Rest(word', begin') /\ Owed' \in [Handles -> Usize]
  <2>1. Owed' \in [Handles -> Usize]
    BY OwedTypeNext
  <2>2. Owed' = Rest(word', begin')
    BY <1>1 DEF ZInv, WordsOK, Owed, Owned, Rest, NoBorrow, LenOf, Usize
  <2>3. QED
    BY <2>1, <2>2
<1>4. SameBut(Owed, Owed', {h})
  BY <1>2, <1>3 DEF Pays, SameBut, Rest
<1>5. Spent(count') + Owed'[h] = Spent(count) + Owed[h]
  BY <1>2, <1>3 DEF Pays, Rest
<1>6. count \in Counts /\ count' \in Counts /\ Balanced(Owed, count)
  BY DEF Counted, Pays
<1>7. Balanced(Owed', count')
  BY <1>2, <1>3, <1>4, <1>5, <1>6, MovesOne
<1>8. QED
  BY <1>6, <1>7 DEF Counted
(* The elements that h has less, k has more; some are lost if a sum wraps. *)
Passes(h, k) ==
  /\ \A j \in Handles \ {h, k} : word'[j] = word[j]
  /\ word'[h] + word'[k] <= word[h] + word[k]
  /\ NoWrap => word'[h] + word'[k] = word[h] + word[k]

LEMMA TwoPay ==
  ASSUME ZInv, ZInv', Counted, Free, UNCHANGED <<borrow, begin, count>>,
         NEW h \in Handles, NEW k \in Handles \ {h}, Passes(h, k),
         \A j \in Handles \ (live' \cup iters') : word'[j] = 0
  PROVE  Counted'
<1>1. borrow' = NoBorrow
  BY DEF ZInv, BorrowFits, Free
<1>2. Owed = Rest(word, begin) /\ Owed \in [Handles -> Usize]
  BY OwedWhenFree, OwedType
<1>3. Owed' = Rest(word', begin) /\ Owed' \in [Handles -> Usize]
  <2>1. Owed' \in [Handles -> Usize]
    BY OwedTypeNext
  <2>2. Owed' = Rest(word', begin)
    BY <1>1 DEF ZInv, WordsOK, Owed, Owned, Rest, NoBorrow, LenOf, Usize
  <2>3. QED
    BY <2>1, <2>2
<1>4. SameBut(Owed, Owed', {h, k})
  BY <1>2, <1>3 DEF Passes, SameBut, Rest
<1>5. /\ Owed'[h] + Owed'[k] <= Owed[h] + Owed[k]
      /\ NoWrap => Owed'[h] + Owed'[k] = Owed[h] + Owed[k]
  <2>1. /\ Owed[h] = word[h] - begin[h] /\ Owed[k] = word[k] - begin[k]
        /\ Owed'[h] = word'[h] - begin[h] /\ Owed'[k] = word'[k] - begin[k]
    BY <1>2, <1>3 DEF Rest
  <2>2. /\ word[h] \in Int /\ word[k] \in Int /\ begin[h] \in Int /\ begin[k] \in Int
        /\ word'[h] \in Int /\ word'[k] \in Int
    BY UMaxAssumption DEF ZInv, WordsOK, Usize
  <2>3. QED
    BY <2>1, <2>2 DEF Passes
<1>6. count \in Counts /\ Balanced(Owed, count)
  BY DEF Counted
<1>7. Balanced(Owed', count)
  BY <1>2, <1>3, <1>4, <1>5, <1>6, MovesTwo
<1>8. QED
  BY <1>6, <1>7 DEF Counted

(* What two vectors have together is what there is at most: it fits a      *)
(* usize, or the build checks.                                             *)
LEMMA TogetherFit ==
  ASSUME ZInv, Counted, NEW h \in Handles, NEW k \in Handles \ {h},
         h \notin iters, k \notin iters, Total <= UMax
  PROVE  word[h] + word[k] <= UMax
<1>1. Owed \in [Handles -> Usize]
  BY OwedType
<1>2. word[h] <= Owed[h] /\ word[k] <= Owed[k]
  BY UMaxAssumption DEF Owed, Owned, LenOf, ZInv, WordsOK, BorrowFits, Usize
<1>3. Owed[h] + Owed[k] <= Tally(Owed)
  BY <1>1, TwoDiffer DEF SameBut
<1>4. Tally(Owed) <= Total
  <2>1. Spent(count) \in Nat /\ Tally(Owed) \in Nat /\ Total \in Nat
    BY <1>1, TallyType, ZstAssumption DEF Counted, Counts, Spent
  <2>2. QED
    BY <2>1 DEF Counted, Balanced
<1>5. word[h] \in Int /\ word[k] \in Int /\ Owed[h] \in Int /\ Owed[k] \in Int
        /\ Tally(Owed) \in Int /\ Total \in Int /\ UMax \in Int
  BY <1>1, TallyType, ZstAssumption, UMaxAssumption DEF ZInv, WordsOK, Usize
<1>6. QED
  BY <1>2, <1>3, <1>4, <1>5

(* Of its elements the program gives n away, and m are dropped.            *)
GivesAndDrops(c, d, n, m) ==
  n <= c.held /\ d = [c EXCEPT !.held = @ - n, !.dropped = @ + m]

LEMMA HeldDropped ==
  ASSUME NEW c \in Counts, NEW d, NEW n \in Nat, NEW m \in Nat, GivesAndDrops(c, d, n, m)
  PROVE  d \in Counts /\ Spent(d) = Spent(c) - n + m
<1>1. c.held \in Nat /\ c.dropped \in Nat /\ c.leaked \in Nat
  BY DEF Counts
<1>2. c = [held |-> c.held, dropped |-> c.dropped, leaked |-> c.leaked]
  BY DEF Counts
<1> DEFINE x == c.held
           y == c.dropped
           z == c.leaked
<1>3. d = [[held |-> x, dropped |-> y, leaked |-> z]
             EXCEPT !.held = x - n, !.dropped = y + m]
  BY <1>2 DEF GivesAndDrops
<1>4. d = [held |-> x - n, dropped |-> y + m, leaked |-> z]
  BY <1>3
<1>5. x - n \in Nat /\ y + m \in Nat /\ x \in Nat /\ y \in Nat /\ z \in Nat
  BY <1>1 DEF GivesAndDrops
<1>6. d.held = x - n /\ d.dropped = y + m /\ d.leaked = z
  BY <1>4
<1>7. d \in Counts
  BY <1>4, <1>5 DEF Counts
<1>8. Spent(d) = Spent(c) - n + m
  BY <1>5, <1>6 DEF Spent
<1>9. QED
  BY <1>7, <1>8

LEMMA StepCounted == ZInv /\ ZInv' /\ Counted /\ [Next]_vars => Counted'
<1> SUFFICES ASSUME ZInv, ZInv', Counted, [Next]_vars PROVE Counted'
  OBVIOUS
<1> USE UMaxAssumption, ZstAssumption
<1>0. ASSUME UNCHANGED vars PROVE Counted'
  BY <1>0 DEF vars, Counted, Balanced, Tally, Owed, Owned, LenOf
<1>1. ASSUME Free, NEW h \in Handles, New(h) PROVE Counted'
  <2>1. word[h] = 0 /\ word'[h] = 0 /\ UNCHANGED begin
    BY <1>1 DEF New, Construct, SetLen, Counted, ZInv, WordsOK
  <2>2. Pays(h)
    BY <1>1, <2>1 DEF Pays, New, SetLen, Counted, ZInv, WordsOK
  <2>3. QED
    BY <1>1, <2>2, OnePays DEF New, Construct, SetLen, Counted, ZInv, WordsOK
<1>2. ASSUME Free, NEW h \in Handles, FromVec(h) PROVE Counted'
  <2>1. h # Std /\ Std \in Handles /\ word[h] = 0
    BY <1>2 DEF FromVec, Counted, Handles
  <2>2. Passes(h, Std)
    BY <1>2, <2>1 DEF Passes, FromVec, LenOf, ZInv, WordsOK, Usize
  <2>3. QED
    BY <1>2, <2>1, <2>2, TwoPay DEF FromVec, Counted, ZInv, WordsOK
<1>3. ASSUME Free, NEW h \in Handles, IntoVec(h) PROVE Counted'
  <2>1. h # Std /\ Std \in Handles /\ word[Std] = 0
    BY <1>3 DEF IntoVec, Counted, Handles, ZInv, WordsOK
  <2>2. Passes(h, Std)
    BY <1>3, <2>1 DEF Passes, IntoVec, LenOf, ZInv, WordsOK, Usize
  <2>3. QED
    BY <1>3, <2>1, <2>2, TwoPay DEF IntoVec, Counted, ZInv, WordsOK
<1>4. ASSUME Free, NEW h \in Handles, IntoInner(h) \/ DropVec(h) PROVE Counted'
  <2>1. begin[h] = 0 /\ word'[h] = 0 /\ UNCHANGED begin
    BY <1>4 DEF IntoInner, DropVec, SetLen, ZInv, WordsOK, Apart
  <2>2. Pays(h)
    BY <1>4, <2>1 DEF Pays, IntoInner, DropVec, SetLen, LenOf, Give, DropOwned, Counted,
                      Counts, Spent, ZInv, WordsOK, Usize
  <2>3. QED
    BY <1>4, <2>2, OnePays DEF IntoInner, DropVec, SetLen, Counted, ZInv, WordsOK
<1>5. ASSUME Free, NEW h \in Handles, TakeOut(h) \/ AddPanics(h) PROVE Counted'
  <2>1. Pays(h)
    <3>1. CASE TakeOut(h)
      BY <3>1 DEF Pays, TakeOut, Call, SetLen, LenOf, Give, Counted, Counts, Spent, ZInv,
                  WordsOK, Usize
    <3>2. CASE AddPanics(h)
      <4>1. count' \in Counts /\ Spent(count') = Spent(count) - 1 + 1
        <5>1. GivesAndDrops(count, count', 1, 1) /\ count \in Counts
          BY <3>2 DEF AddPanics, DropHeld, Counted, Counts, GivesAndDrops
        <5>2. QED
          BY <5>1, HeldDropped
      <4>2. Spent(count) \in Nat
        BY DEF Counted, Counts, Spent
      <4>3. QED
        BY <3>2, <4>1, <4>2 DEF Pays, AddPanics, Call
    <3>3. QED
      BY <1>5, <3>1, <3>2
  <2>2. QED
    BY <1>5, <2>1, OnePays DEF TakeOut, AddPanics, Call, SetLen, Counted, ZInv, WordsOK
<1>6. ASSUME Free, NEW h \in Handles, IntoIter(h) PROVE Counted'
  <2>1. Pays(h)
    BY <1>6 DEF Pays, IntoIter, Counted
  <2>2. QED
    BY <1>6, <2>1, OnePays DEF IntoIter, Counted
<1>7. ASSUME Free, NEW h \in Vecs, NEW n \in Usize,
             FromBufAndLen(h, n) \/ Add(h, n) \/ Truncate(h, n)
      PROVE  Counted'
  <2>1. h \in Handles /\ InlineSize[h] \in Usize
    BY DEF Handles
  <2>2. CASE FromBufAndLen(h, n)
    <3>1. word[h] = 0 /\ word'[h] = n /\ UNCHANGED begin
      BY <2>1, <2>2 DEF FromBufAndLen, Construct, SetLen, Counted, ZInv, WordsOK
    <3>2. count' \in Counts /\ Spent(count') = Spent(count) - n
      <4>1. /\ InlineSize[h] \in Nat /\ n \in Nat /\ n <= InlineSize[h]
            /\ count \in Counts /\ InlineSize[h] - n \in Nat
            /\ GivesAndDrops(count, count', InlineSize[h], InlineSize[h] - n)
        BY <2>1, <2>2 DEF FromBufAndLen, Counted, Counts, Usize, GivesAndDrops
      <4>2. Spent(count') = Spent(count) - InlineSize[h] + (InlineSize[h] - n)
              /\ count' \in Counts
        BY <4>1, HeldDropped
      <4>3. Spent(count) \in Nat
        BY <4>1 DEF Counts, Spent
      <4>4. QED
        BY <4>1, <4>2, <4>3
    <3>3. begin[h] \in Nat /\ Spent(count) \in Nat
      BY <2>1 DEF ZInv, WordsOK, Counted, Counts, Spent
    <3>4. \A k \in Handles \ {h} : word'[k] = word[k]
      BY <2>2 DEF FromBufAndLen, SetLen, ZInv, WordsOK
    <3>5. Pays(h)
      BY <3>1, <3>2, <3>3, <3>4 DEF Pays, Usize
    <3>6. QED
      BY <1>7, <2>1, <2>2, <3>5, OnePays DEF FromBufAndLen, Construct, SetLen, Counted, ZInv,
                                             WordsOK
  <2>3. CASE Add(h, n) \/ Truncate(h, n)
    <3>1. Pays(h)
      BY <2>1, <2>3 DEF Pays, Add, Truncate, Call, SetLen, LenOf, Take, DropOwned, Counted,
                        Counts, Spent, ZInv, WordsOK, Usize
    <3>2. QED
      BY <1>7, <2>1, <2>3, <3>1, OnePays DEF Add, Truncate, Call, SetLen, Counted, ZInv, WordsOK
  <2>4. QED
    BY <1>7, <2>2, <2>3
<1>8. ASSUME Free, NEW n \in Usize, VecNew(n) PROVE Counted'
  <2>1. Std \in Handles /\ word[Std] = 0 /\ word'[Std] = n /\ UNCHANGED begin
    BY <1>8 DEF VecNew, Construct, SetLen, Counted, ZInv, WordsOK, Handles
  <2>2. Pays(Std)
    BY <1>8, <2>1 DEF Pays, VecNew, SetLen, Take, Counted, Counts, Spent, ZInv, WordsOK, Usize
  <2>3. QED
    BY <1>8, <2>1, <2>2, OnePays DEF VecNew, Construct, SetLen, Counted, ZInv, WordsOK
<1>9. ASSUME Free, NEW h \in Vecs, NEW k \in Vecs, Append(h, k) PROVE Counted'
  <2>1. /\ h \in Handles \ iters /\ k \in (Handles \ iters) \ {h}
        /\ word[h] \in Nat /\ word[k] \in Nat
    BY <1>9 DEF Append, Call, ZInv, WordsOK, Apart, Handles, Usize
  <2>2. (word[h] + word[k]) % (UMax + 1) <= word[h] + word[k]
    BY <2>1
  <2>3. NoWrap => (word[h] + word[k]) % (UMax + 1) = word[h] + word[k]
    <3>1. SUFFICES ASSUME NoWrap PROVE word[h] + word[k] <= UMax
      BY <2>1
    <3>2. CASE OverflowChecks
      BY <1>9, <3>2 DEF Append, LenOf
    <3>3. CASE Total <= UMax
      BY <1>9, <2>1, <3>3, TogetherFit
    <3>4. QED
      BY <3>1, <3>2, <3>3 DEF NoWrap
  <2>4. word'[h] = (word[h] + word[k]) % (UMax + 1) /\ word'[k] = 0
    BY <1>9, <2>1 DEF Append, LenOf, ZInv, WordsOK
  <2>5. Passes(h, k)
    <3>1. \A j \in Handles \ {h, k} : word'[j] = word[j]
      BY <1>9 DEF Append, ZInv, WordsOK
    <3>2. (word[h] + word[k]) % (UMax + 1) \in Nat
      BY <2>1
    <3>3. QED
      BY <2>1, <2>2, <2>3, <2>4, <3>1, <3>2 DEF Passes
  <2>6. QED
    BY <1>9, <2>1, <2>5, TwoPay DEF Append, Call, Counted, ZInv, WordsOK
<1>10. ASSUME Free, NEW h \in Vecs, NEW k \in Vecs, NEW at \in Usize, SplitOff(h, k, at)
       PROVE  Counted'
  <2>1. h \in Handles /\ k \in Handles \ {h} /\ word[k] = 0
    BY <1>10 DEF SplitOff, Construct, Counted, Handles
  <2>2. Passes(h, k)
    BY <1>10, <2>1 DEF Passes, SplitOff, LenOf, ZInv, WordsOK, Usize
  <2>3. QED
    BY <1>10, <2>1, <2>2, TwoPay DEF SplitOff, Construct, Counted, ZInv, WordsOK
<1>11. ASSUME Free, NEW h \in Vecs, NEW lo \in Bounds, NEW hi \in Bounds, Drain(h, lo, hi)
       PROVE  Counted'
  <2>1. PICK r \in SliceRange(lo, hi, LenOf(h)) :
          /\ borrow' = [vec |-> h, tail_start |-> r.end, tail_len |-> LenOf(h) - r.end,
                        left |-> r.end - r.start]
          /\ SetLen(h, r.start)
    BY <1>11 DEF Drain
  <2>2. h \in Handles /\ h # Std /\ LenOf(h) \in Usize
    BY <1>11 DEF Drain, ZInv, WordsOK, Handles, LenOf
  <2>3. r.start \in 0 .. UMax /\ r.end \in 0 .. UMax
    BY <2>2, RangeFits
  <2>4. borrow = NoBorrow /\ UNCHANGED <<begin, count>>
    BY <1>11 DEF ZInv, BorrowFits, Free, Drain
  <2>5. \A k \in Handles : Owned(k)' = Owned(k)
    BY <2>1, <2>2, <2>3, <2>4 DEF Owned, LenOf, SetLen, NoBorrow, ZInv, WordsOK, Usize
  <2>6. Owed' = Owed
    BY <2>5 DEF Owed
  <2>7. QED
    BY <1>11, <2>1, <2>4, <2>6 DEF Drain, SetLen, Counted, Balanced, ZInv, WordsOK
<1>12. ASSUME Free, NEW h \in iters, NextFront(h) \/ NextBack(h) PROVE Counted'
  <2>1. h \in Handles
    BY DEF ZInv, WordsOK, Handles
  <2>2. Pays(h)
    BY <1>12, <2>1 DEF Pays, NextFront, NextBack, SetLen, LenOf, Give, Counted, Counts, Spent,
                       ZInv, WordsOK, Usize
  <2>3. QED
    BY <1>12, <2>1, <2>2, OnePays DEF NextFront, NextBack, SetLen, Counted, ZInv, WordsOK
<1>13. ASSUME Free, NEW h \in iters, DropIter(h) \/ ForgetIter(h) PROVE Counted'
  <2>1. h \in Handles
    BY DEF ZInv, WordsOK, Handles
  <2>2. word'[h] = 0 /\ begin'[h] = 0
    BY <1>13, <2>1 DEF DropIter, ForgetIter, IterGone, SetLen, ZInv, WordsOK
  <2>3. Pays(h)
    BY <1>13, <2>1, <2>2 DEF Pays, DropIter, ForgetIter, IterGone, SetLen, LenOf, DropOwned,
                             Counted, Counts, Spent, ZInv, WordsOK, Usize
  <2>4. QED
    BY <1>13, <2>1, <2>3, OnePays DEF DropIter, ForgetIter, IterGone, SetLen, Counted, ZInv,
                                      WordsOK
<1>14. ASSUME DrainNext \/ DropDrain \/ ForgetDrain PROVE Counted'
  <2> DEFINE h == borrow.vec
  <2>1. /\ h \in Handles /\ h # Std /\ h \in live /\ begin' = begin
        /\ borrow.left \in Nat /\ borrow.tail_len \in Nat
    BY <1>14 DEF DrainNext, DropDrain, ForgetDrain, Free, ZInv, BorrowFits, Usize
  <2>2. Owed \in [Handles -> Usize] /\ Owed' \in [Handles -> Usize]
    BY OwedType, OwedTypeNext
  <2>3. \A k \in Handles \ {h} : word'[k] = word[k]
    BY <1>14 DEF DrainNext, DropDrain, ForgetDrain, SetLen, ZInv, WordsOK
  <2>4. SameBut(Owed, Owed', {h})
    BY <1>14, <2>1, <2>3 DEF DrainNext, DropDrain, ForgetDrain, NoBorrow, SameBut, Owed, Owned,
                             LenOf, ZInv, WordsOK, BorrowFits, Usize
  <2>5. word[h] \in Nat /\ begin[h] \in Nat
    BY <2>1 DEF ZInv, WordsOK, Usize
  <2>6. Owed[h] = word[h] - begin[h] + borrow.left + borrow.tail_len
    BY <2>1, <2>5 DEF Owed, Owned, LenOf
  <2>7. count' \in Counts /\ Spent(count') + Owed'[h] = Spent(count) + Owed[h]
    <3>1. CASE DrainNext
      <4>1. /\ Owed'[h] = word[h] - begin[h] + (borrow.left - 1) + borrow.tail_len
            /\ borrow.left > 0
        BY <2>1, <2>5, <3>1 DEF DrainNext, Owed, Owned, LenOf, ZInv, BorrowFits
      <4>2. count' \in Counts /\ Spent(count') = Spent(count) + 1 /\ Spent(count) \in Nat
        BY <3>1 DEF DrainNext, Give, Counted, Counts, Spent
      <4>3. QED
        BY <2>1, <2>5, <2>6, <4>1, <4>2
    <3>2. CASE DropDrain
      <4>1. Owed'[h] = word[h] + borrow.tail_len - begin[h]
        BY <2>1, <2>5, <3>2 DEF DropDrain, NoBorrow, SetLen, Owed, Owned, LenOf, ZInv, WordsOK
      <4>2. /\ count' \in Counts /\ Spent(count') = Spent(count) + borrow.left
            /\ Spent(count) \in Nat
        BY <2>1, <2>5, <3>2 DEF DropDrain, DropOwned, LenOf, Counted, Counts, Spent
      <4>3. QED
        BY <2>1, <2>5, <2>6, <4>1, <4>2
    <3>3. CASE ForgetDrain
      <4>1. Owed'[h] = word[h] - begin[h]
        BY <2>1, <2>5, <3>3 DEF ForgetDrain, NoBorrow, Owed, Owned, LenOf
      <4>2. /\ count' \in Counts
            /\ Spent(count') = Spent(count) + borrow.left + borrow.tail_len
            /\ Spent(count) \in Nat
        BY <2>1, <3>3 DEF ForgetDrain, Counted, Counts, Spent
      <4>3. QED
        BY <2>1, <2>5, <2>6, <4>1, <4>2
    <3>4. QED
      BY <1>14, <3>1, <3>2, <3>3
  <2>8. count \in Counts /\ Balanced(Owed, count)
    BY DEF Counted
  <2> HIDE DEF h
  <2>9. Balanced(Owed', count')
    BY <2>1, <2>2, <2>4, <2>7, <2>8, MovesOne
  <2>10. \A k \in Handles \ (live' \cup iters') : word'[k] = 0
    BY <1>14, <2>1, <2>3 DEF DrainNext, DropDrain, ForgetDrain, Counted
  <2>11. QED
    BY <2>7, <2>9, <2>10 DEF Counted
<1>15. QED
  BY <1>0, <1>1, <1>2, <1>3, <1>4, <1>5, <1>6, <1>7, <1>8, <1>9, <1>10, <1>11, <1>12, <1>13,
     <1>14 DEF Next
LEMMA AllCounted == Spec => [](ZInv /\ Counted)
<1>1. Init => ZInv /\ Counted
  BY InitInv, InitCounted
<1>2. ZInv /\ Counted /\ [Next]_vars => (ZInv /\ Counted)'
  BY StepInv, StepCounted
<1>3. QED
  BY <1>1, <1>2, PTL DEF Spec

(* Type correctness of the model of a zero-sized type (lib.rs:325): words  *)
(* and positions are usizes, and of the elements there are never more are  *)
(* held, dropped or forgotten than there were.                             *)
THEOREM ZstTypeCorrect == Spec => []ZstTypeOK
<1>1. ASSUME ZInv, Counted PROVE ZstTypeOK
  <2>1. begin \in [Handles -> Usize] /\ iters \subseteq Vecs \ live
    BY <1>1, UMaxAssumption DEF ZInv, WordsOK, Apart, Usize
  <2>2. Tally(Owed) \in Nat
    BY <1>1, OwedType, TallyType
  <2>3. count \in [held : 0 .. Total, dropped : 0 .. Total, leaked : 0 .. Total]
    BY <1>1, <2>2, ZstAssumption DEF Counted, Counts, Balanced, Spent
  <2>4. QED
    BY <1>1, <2>1, <2>3 DEF ZstTypeOK, ZInv, WordsOK, BorrowFits
<1>2. QED
  BY <1>1, AllCounted, PTL

(* from_vec, into_vec, append, split_off, Drain and IntoIter of a zero-    *)
(* sized type (lib.rs:453, 955, 1994): every destructor runs once, with    *)
(* overflow checks, or as long as there are no more elements than a usize  *)
(* can count.                                                              *)
THEOREM DestructorsRunOnce == Spec => [](NoWrap => EachDroppedOnce)
<1>1. ASSUME Counted PROVE NoWrap => EachDroppedOnce
  <2>1. Obligations = Pairs(Owed, Handles)
    BY DEF Obligations, Pairs, Owed
  <2>2. QED
    BY <1>1, <2>1 DEF Counted, Balanced, Tally, Spent, EachDroppedOnce
<1>2. QED
  BY <1>1, AllCounted, PTL
=============================================================================
