------------------------------ MODULE IntoIter ------------------------------
(***************************************************************************)
(* IntoIter: a vector taken apart into an owning iterator.  raw and len    *)
(* move bit for bit, so the storage of handle h simply belongs to the      *)
(* iterator from then on: its end is the tagged length word, and its tag   *)
(* still decides where the items are.  Several iterators may exist.        *)
(***************************************************************************)
EXTENDS UserCode

VARIABLES
  iters,    \* the handles whose storage an IntoIter owns
  begin,    \* begin[h]: the next item of the iterator over h's storage
  leaked    \* elements of forgotten iterators

ivars == <<iters, begin, leaked>>

IterInit ==
  /\ iters = {}
  /\ begin = [h \in Handles |-> 0]
  /\ leaked = {}

(* as_slice: what is still to be yielded.                                  *)
AsSlice(s, h) == Items(s, h, begin[h], LenOf(s, h) - begin[h])

Remaining(h) == {Item(store, h, i) : i \in begin[h] .. LenOf(store, h) - 1}

(* into_iter on a vector.                                                  *)
IntoIterCall(h) ==
  /\ h \in live \cap SmallVecs
  /\ live' = live \ {h}
  /\ iters' = iters \cup {h}
  /\ UNCHANGED <<store, caller, dropped, begin, leaked>>

YieldItem(h, i, len) ==
  /\ h \in iters
  /\ begin[h] # LenOf(store, h)
  /\ store' = Edited(store, h, Wipe(Cells(store, h), i, 1), len)
  /\ caller' = caller \cup {Item(store, h, i)}
  /\ UNCHANGED <<live, dropped, iters, leaked>>

NextItem(h) ==
  /\ YieldItem(h, begin[h], LenOf(store, h))
  /\ begin' = [begin EXCEPT ![h] = @ + 1]

(* Mutant: end is a plain length and loses its tag.                        *)
NextBackItemUntagged(h) ==
  /\ h \in iters
  /\ begin[h] # LenOf(store, h)
  /\ LET end == LenOf(store, h) - 1
         s   == Edited(store, h, Wipe(Cells(store, h), end, 1), end)
     IN  /\ store' = [s EXCEPT !.word[h] = TaggedLen(end, FALSE)]
         /\ caller' = caller \cup {Item(store, h, end)}
  /\ UNCHANGED <<live, dropped, iters, leaked, begin>>

NextBackItem(h) ==
  /\ YieldItem(h, LenOf(store, h) - 1, LenOf(store, h) - 1)
  /\ UNCHANGED begin

(* The iterator over h is gone, and what it still owned with it.           *)
IterGone(h) == iters' = iters \ {h} /\ begin' = [begin EXCEPT ![h] = 0]

(* Mutant: the items are dropped and the block is not.                     *)
DropIterKeepsBlock(h) ==
  /\ h \in iters
  /\ dropped' = dropped \cup Remaining(h)
  /\ store' = NewInline(store, h)
  /\ IterGone(h)
  /\ UNCHANGED <<live, caller, leaked>>

(* Mutant: what was yielded is dropped again.                              *)
DropIterWhole(h) ==
  /\ h \in iters
  /\ dropped' = dropped \cup Owned(store, h)
  /\ store' = Released(store, h)
  /\ IterGone(h)
  /\ UNCHANGED <<live, caller, leaked>>

(* Drop for IntoIter: begin .. end is dropped, the block is released.      *)
DropIter(h) ==
  /\ h \in iters
  /\ dropped' = dropped \cup Remaining(h)
  /\ store' = Released(store, h)
  /\ IterGone(h)
  /\ UNCHANGED <<live, caller, leaked>>

(* mem::forget: the items are leaked, and the block if there is one.       *)
ForgetIter(h) ==
  /\ h \in iters
  /\ leaked' = leaked \cup Remaining(h)
  /\ store' = NewInline(store, h)
  /\ IterGone(h)
  /\ UNCHANGED <<live, caller, dropped>>

IterNext ==
  \E h \in Handles :
    IntoIterCall(h) \/ NextItem(h) \/ NextBackItem(h) \/ DropIter(h) \/ ForgetIter(h)

----------------------------------------------------------------------------
IterTypeOK ==
  /\ iters \subseteq SmallVecs \ live
  /\ begin \in [Handles -> 0 .. MaxCap]
  /\ leaked \subseteq Elems

(* The cells of h that hold an element of a vector or of an iterator.      *)
IterCells(h) ==
  {i \in Slots : i < LenOf(store, h) /\ (h \in iters => i >= begin[h])}

(* Until it is dropped an iterator always has a contiguous slice of the    *)
(* vector to yield: each step takes the first item or the last one, or     *)
(* leaves the slice alone, inline or on the heap.                          *)
IterTakesFromTheEnds ==
  [][\A h \in iters \cap iters' :
       LET s == AsSlice(store, h)
           t == AsSlice(store, h)'
       IN  t = s \/ t = SubSeq(s, 2, Len(s)) \/ t = SubSeq(s, 1, Len(s) - 1)]_<<vars, ivars>>
=============================================================================
