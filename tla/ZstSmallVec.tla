---------------------------- MODULE ZstSmallVec ----------------------------
(***************************************************************************)
(* SmallVec<T, N> for a T of size zero.  Its elements have no bytes and no *)
(* identity, it never uses the heap, and its capacity is usize::MAX; what  *)
(* is left of it is the length word, which holds the length untagged.      *)
(* Owning such an element is an obligation to run its destructor once, so  *)
(* the model counts them: the program holds some, every vector, Vec and    *)
(* IntoIter has as many as its length says, and the rest were dropped or   *)
(* forgotten.  Lengths up to usize::MAX are ordinary here.                 *)
(***************************************************************************)
EXTENDS SliceRange, FiniteSets

CONSTANTS
  Vecs,           \* the SmallVecs of the program
  Std,            \* its std Vec
  InlineSize,     \* InlineSize[h]: the const parameter N
  Total,          \* how many elements there are
  OverflowChecks  \* does the build panic when + overflows (debug) or wrap?

ASSUME ZstAssumption ==
  /\ Std \notin Vecs
  /\ IsFiniteSet(Vecs)
  /\ InlineSize \in [Vecs -> Usize]
  /\ Total \in Nat
  /\ OverflowChecks \in BOOLEAN

Handles == Vecs \cup {Std}

VARIABLES
  word,     \* the length word of every handle
  live,     \* the handles that are vectors
  iters,    \* those that have become an IntoIter
  begin,    \* IntoIter::begin
  borrow,   \* the Drain that is out, if any; left: iter.len()
  count     \* elements held by the program, dropped, and forgotten

vars == <<word, live, iters, begin, borrow, count>>

NoBorrow == [vec |-> Std, tail_start |-> 0, tail_len |-> 0, left |-> 0]
Free     == borrow.vec = Std

Init ==
  /\ word = [h \in Handles |-> 0]
  /\ live = {}
  /\ iters = {}
  /\ begin = [h \in Handles |-> 0]
  /\ borrow = NoBorrow
  /\ count = [held |-> Total, dropped |-> 0, leaked |-> 0]

(* TaggedLen::new and value for a ZST; on_heap is FALSE.                   *)
LenOf(h)     == word[h]
SetLen(h, n) == word' = [word EXCEPT ![h] = n]

Capacity(h) == UMax

(* Mutant: what has nothing to grow has nothing to refuse.                 *)
ReservesNothing(h, n) == TRUE

(* reserve(n) returns.  If n does not fit, len + n overflows as well, so   *)
(* it panics by checked_add; it has nothing to grow in any case.           *)
Reserves(h, n) == n <= Capacity(h) - LenOf(h)

Take(n)      == count.held >= n /\ count' = [count EXCEPT !.held = @ - n]
Give(n)      == count' = [count EXCEPT !.held = @ + n]
DropHeld(n)  == count.held >= n /\ count' = [count EXCEPT !.held = @ - n, !.dropped = @ + n]
DropOwned(n) == count' = [count EXCEPT !.dropped = @ + n]

----------------------------------------------------------------------------
(* Construction and conversion.                                            *)

Construct(h) ==
  /\ h \notin live \cup iters
  /\ live' = live \cup {h}
  /\ UNCHANGED <<iters, begin, borrow>>

(* new is n = 0, from_buf is n = N.  from_buf_and_len takes an array of N, *)
(* of which it drops the tail.                                             *)
FromBufAndLen(h, n) ==
  /\ h \in Vecs
  /\ Construct(h)
  /\ n <= InlineSize[h]
  /\ SetLen(h, n)
  /\ count.held >= InlineSize[h]
  /\ count' = [count EXCEPT !.held = @ - InlineSize[h], !.dropped = @ + (InlineSize[h] - n)]

New(h) ==
  /\ h \in Vecs
  /\ Construct(h)
  /\ SetLen(h, 0)
  /\ UNCHANGED count

(* The program fills its Vec (external).                                   *)
VecNew(n) == Construct(Std) /\ SetLen(Std, n) /\ Take(n)

(* from_vec: the capacity of the Vec is never 0, its length is taken over  *)
(* and set to 0, then it is dropped.                                       *)
FromVec(h) ==
  /\ Std \in live
  /\ h \in Vecs \ (live \cup iters)
  /\ live' = (live \ {Std}) \cup {h}
  /\ word' = [word EXCEPT ![h] = LenOf(Std), ![Std] = 0]
  /\ UNCHANGED <<iters, begin, borrow, count>>

(* into_vec: never spilled, so the elements are copied out.                *)
IntoVec(h) ==
  /\ h \in live \ {Std}
  /\ Std \notin live
  /\ live' = (live \ {h}) \cup {Std}
  /\ word' = [word EXCEPT ![h] = 0, ![Std] = LenOf(h)]
  /\ UNCHANGED <<iters, begin, borrow, count>>

(* into_inner with len = N; its vector is dropped with length 0.           *)
IntoInner(h) ==
  /\ h \in live \ {Std}
  /\ LenOf(h) = InlineSize[h]
  /\ live' = live \ {h}
  /\ Give(LenOf(h))
  /\ SetLen(h, 0)
  /\ UNCHANGED <<iters, begin, borrow>>

(* Drop for SmallVec, or for Vec.                                          *)
DropVec(h) ==
  /\ h \in live
  /\ live' = live \ {h}
  /\ DropOwned(LenOf(h))
  /\ SetLen(h, 0)
  /\ UNCHANGED <<iters, begin, borrow>>

----------------------------------------------------------------------------
(* Elements in and out.                                                    *)

Call(h) == h \in live \ {Std} /\ UNCHANGED <<live, iters, begin, borrow>>

(* push, insert and the bulk extends: reserve, write, set_len.             *)
Add(h, n) == Call(h) /\ Reserves(h, n) /\ SetLen(h, LenOf(h) + n) /\ Take(n)

(* push or insert: the reserve panics and the argument is dropped.  In     *)
(* what adds more at once it panics before there is anything to drop.      *)
AddPanics(h) == Call(h) /\ ~Reserves(h, 1) /\ DropHeld(1) /\ UNCHANGED word

(* pop, remove, swap_remove.                                               *)
TakeOut(h) == Call(h) /\ LenOf(h) > 0 /\ SetLen(h, LenOf(h) - 1) /\ Give(1)

(* truncate; clear is truncate(0).                                         *)
Truncate(h, n) ==
  /\ Call(h)
  /\ n < LenOf(h)
  /\ SetLen(h, n)
  /\ DropOwned(LenOf(h) - n)

(* split_off: with_capacity has nothing to allocate.                       *)
SplitOff(h, k, at) ==
  /\ {h, k} \subseteq Vecs
  /\ h \in live
  /\ at <= LenOf(h)
  /\ Construct(k)
  /\ word' = [word EXCEPT ![h] = at, ![k] = LenOf(h) - at]
  /\ UNCHANGED count

(* append: total_len is a plain addition.  Where it wraps it is less than  *)
(* the capacity, so nothing is reserved and nothing panics; a build that   *)
(* checks panics there, before anything is changed.                        *)
Append(h, k) ==
  /\ Call(h)
  /\ k \in live \ {h, Std}
  /\ OverflowChecks => LenOf(h) + LenOf(k) <= UMax
  /\ word' = [word EXCEPT ![h] = (LenOf(h) + LenOf(k)) % (UMax + 1), ![k] = 0]
  /\ UNCHANGED count

----------------------------------------------------------------------------
(* Drain.                                                                  *)

Drain(h, lo, hi) ==
  /\ h \in live \ {Std}
  /\ \E r \in SliceRange(lo, hi, LenOf(h)) :
       /\ borrow' = [vec |-> h, tail_start |-> r.end, tail_len |-> LenOf(h) - r.end,
                     left |-> r.end - r.start]
       /\ SetLen(h, r.start)
  /\ UNCHANGED <<live, iters, begin, count>>

(* next and next_back.                                                     *)
DrainNext ==
  /\ ~Free
  /\ borrow.left > 0
  /\ borrow' = [borrow EXCEPT !.left = @ - 1]
  /\ Give(1)
  /\ UNCHANGED <<word, live, iters, begin>>

(* Mutant: the length is put back, but what is left is not dropped.        *)
DropDrainDropsNone ==
  /\ ~Free
  /\ SetLen(borrow.vec, LenOf(borrow.vec) + borrow.tail_len)
  /\ borrow' = NoBorrow
  /\ UNCHANGED <<live, iters, begin, count>>

(* Drop for Drain: what is left of the range and the tail are put into the *)
(* length, then truncate takes the right number off.                       *)
DropDrain ==
  /\ ~Free
  /\ LET whole == LenOf(borrow.vec) + borrow.left + borrow.tail_len
         kept  == LenOf(borrow.vec) + borrow.tail_len
     IN  SetLen(borrow.vec, kept) /\ DropOwned(whole - kept)
  /\ borrow' = NoBorrow
  /\ UNCHANGED <<live, iters, begin>>

ForgetDrain ==
  /\ ~Free
  /\ count' = [count EXCEPT !.leaked = @ + borrow.left + borrow.tail_len]
  /\ borrow' = NoBorrow
  /\ UNCHANGED <<word, live, iters, begin>>

----------------------------------------------------------------------------
(* IntoIter.                                                               *)

IntoIter(h) ==
  /\ h \in live \ {Std}
  /\ live' = live \ {h}
  /\ iters' = iters \cup {h}
  /\ UNCHANGED <<word, begin, borrow, count>>

NextFront(h) ==
  /\ begin[h] # LenOf(h)
  /\ begin' = [begin EXCEPT ![h] = @ + 1]
  /\ Give(1)
  /\ UNCHANGED <<word, live, iters, borrow>>

NextBack(h) ==
  /\ begin[h] # LenOf(h)
  /\ SetLen(h, LenOf(h) - 1)
  /\ Give(1)
  /\ UNCHANGED <<live, iters, begin, borrow>>

IterGone(h) ==
  /\ iters' = iters \ {h}
  /\ begin' = [begin EXCEPT ![h] = 0]
  /\ SetLen(h, 0)
  /\ UNCHANGED <<live, borrow>>

DropIter(h)   == IterGone(h) /\ DropOwned(LenOf(h) - begin[h])
ForgetIter(h) == IterGone(h) /\ count' = [count EXCEPT !.leaked = @ + LenOf(h) - begin[h]]

----------------------------------------------------------------------------
Next ==
  \/ /\ Free
     /\ \/ \E h \in Handles : New(h) \/ FromVec(h) \/ IntoVec(h) \/ IntoInner(h) \/ DropVec(h)
                              \/ TakeOut(h) \/ AddPanics(h) \/ IntoIter(h)
        \/ \E h \in Vecs, n \in Usize : FromBufAndLen(h, n) \/ Add(h, n) \/ Truncate(h, n)
        \/ \E n \in Usize : VecNew(n)
        \/ \E h, k \in Vecs : Append(h, k) \/ \E at \in Usize : SplitOff(h, k, at)
        \/ \E h \in Vecs, lo, hi \in Bounds : Drain(h, lo, hi)
        \/ \E h \in iters : NextFront(h) \/ NextBack(h) \/ DropIter(h) \/ ForgetIter(h)
  \/ DrainNext \/ DropDrain \/ ForgetDrain

Spec == Init /\ [][Next]_vars

----------------------------------------------------------------------------
(* A length word never leaves its width, and no count is negative.         *)
ZstTypeOK ==
  /\ word \in [Handles -> Usize]
  /\ live \subseteq Handles
  /\ iters \subseteq Vecs \ live
  /\ begin \in [Handles -> Usize]
  /\ borrow \in [vec : Handles, tail_start : Usize, tail_len : Usize, left : Usize]
  /\ count \in [held : 0 .. Total, dropped : 0 .. Total, leaked : 0 .. Total]

(* What a handle still has to give back or to drop.                        *)
Owned(h) ==
  LenOf(h) - begin[h] + (IF h = borrow.vec THEN borrow.left + borrow.tail_len ELSE 0)

(* All of that, element by element.                                        *)
Obligations == UNION {{h} \X (1 .. Owned(h)) : h \in Handles}

(* Every destructor runs once: adopting a Vec, moving elements between     *)
(* vectors, draining and dropping half way neither lose nor repeat one,    *)
(* up to lengths of usize::MAX.                                            *)
EachDroppedOnce ==
  count.held + count.dropped + count.leaked + Cardinality(Obligations) = Total

(* The range of a drain is what its bounds say, for every length that      *)
(* there is, usize::MAX included.                                          *)
RangesAreRight ==
  \A h \in Vecs : \A lo, hi \in Bounds : RangeIsRight(lo, hi, LenOf(h))

(* What the comment in append says, "can't overflow since both are smaller *)
(* than isize::MAX": the result is as long as the two were together.       *)
AppendAddsTheLengths ==
  [][\A h, k \in Vecs : Append(h, k) => LenOf(h)' = LenOf(h) + LenOf(k)]_vars
=============================================================================
