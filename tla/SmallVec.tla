------------------------------ MODULE SmallVec ------------------------------
(***************************************************************************)
(* The SmallVec state machine: a program owns a few vectors and calls      *)
(* their operations.  Each action is one call, from entry to return or to  *)
(* the panic that leaves it.  Elements have identities, so an element that *)
(* is duplicated, lost, or dropped twice is a different state.             *)
(* A step that fails without an effect (try_reserve's Err, an assert that  *)
(* rejects an index) is a stuttering step and is not an action; a failed   *)
(* allocation in an infallible call aborts the process and ends the        *)
(* behaviour.                                                              *)
(***************************************************************************)
EXTENDS RawSmallVec

CONSTANTS
  Std,    \* the handle that stands for the program's std::vec::Vec
  Raw     \* the handle of the raw parts the program holds: pointer, length
          \* and capacity of a spilled vector that it has leaked

ASSUME StdAssumption ==
  /\ {Std, Raw} \subseteq Handles
  /\ Std # Raw
  /\ InlineSize[Std] = 0 /\ InlineSize[Raw] = 0

VARIABLES
  store,    \* the storage record of RawSmallVec
  live,     \* the handles that are constructed and not moved out or dropped
  caller,   \* elements held by the program outside every vector
  dropped   \* elements whose destructor has run

vars == <<store, live, caller, dropped>>

SmallVecs == Handles \ {Std, Raw}

(* Arguments: one more than the largest capacity, to reach the overflow.   *)
Sizes == 0 .. MaxCap + 1

(* n distinct elements of the program, in an order of its choice.          *)
Arrays(n) ==
  {f \in [0 .. n - 1 -> caller] : \A i, j \in 0 .. n - 1 : f[i] = f[j] => i = j}

Filled(f, n) == [i \in Slots |-> IF i < n THEN f[i] ELSE Uninit]
Taken(f, n)  == {f[i] : i \in 0 .. n - 1}

Init ==
  /\ store = [ word |-> [h \in Handles |-> 0],
               ptr  |-> [h \in Handles |-> NullPtr],
               cap  |-> [h \in Handles |-> 0],
               mem  |-> [a \in Handles \cup Ptrs |-> Blank],
               size |-> [p \in Ptrs |-> 0] ]
  /\ live = {}
  /\ caller = Elems
  /\ dropped = {}

----------------------------------------------------------------------------
(* Construction.                                                           *)

Construct(h) == h \in SmallVecs \ live /\ live' = live \cup {h}

New(h) ==
  /\ Construct(h)
  /\ store' = NewInline(store, h)
  /\ UNCHANGED <<caller, dropped>>

NewWithCapacity(h, c) ==
  /\ Construct(h)
  /\ store' \in WithCapacity(store, h, c)
  /\ UNCHANGED <<caller, dropped>>

(* from_buf, and From<[T; M]> with M <= N: the array moves inline.         *)
FromBuf(h, n) ==
  /\ Construct(h)
  /\ n <= InlineSize[h]
  /\ \E f \in Arrays(n) :
       /\ store' = Edited(NewInline(store, h), h, Filled(f, n), n)
       /\ caller' = caller \ Taken(f, n)
  /\ UNCHANGED dropped

(* from_buf_and_len: a full array moves inline, its tail is dropped.       *)
FromBufAndLen(h, n) ==
  /\ Construct(h)
  /\ n <= InlineSize[h]
  /\ \E f \in Arrays(InlineSize[h]) :
       /\ store' = Edited(NewInline(store, h), h, Filled(f, n), n)
       /\ caller' = caller \ Taken(f, InlineSize[h])
       /\ dropped' = dropped \cup {f[i] : i \in n .. InlineSize[h] - 1}

(* from_buf_and_len with len > N panics and drops the array.               *)
FromBufAndLenPanics(h, n) ==
  /\ h \in SmallVecs \ live
  /\ n > InlineSize[h]
  /\ \E f \in Arrays(InlineSize[h]) :
       /\ caller' = caller \ Taken(f, InlineSize[h])
       /\ dropped' = dropped \cup Taken(f, InlineSize[h])
  /\ UNCHANGED <<store, live>>

(* From<[T; M]> with M > N: the array is boxed by Vec::from, whose         *)
(* capacity is M, and from_vec adopts the allocation.                      *)
FromArray(h, n) ==
  /\ Construct(h)
  /\ n \in InlineSize[h] + 1 .. MaxCap
  /\ \E f \in Arrays(n), p \in FreePtrs(store) :
       /\ store' = SetLen(SetOnHeap(NewHeap(NewInline(store, h), h, p, n,
                                            Filled(f, n)), h), h, n)
       /\ caller' = caller \ Taken(f, n)
  /\ UNCHANGED dropped

----------------------------------------------------------------------------
(* The program's std Vec (external).                                       *)

VecNew(c, n) ==
  /\ Std \notin live
  /\ live' = live \cup {Std}
  /\ n <= c
  /\ \E f \in Arrays(n) :
       /\ store' \in {Edited(s, Std, Filled(f, n), n) : s \in WithCapacity(store, Std, c)}
       /\ caller' = caller \ Taken(f, n)
  /\ UNCHANGED dropped

(* from_vec: a Vec without an allocation becomes an empty inline vector.   *)
FromVec(h) ==
  /\ Std \in live
  /\ h \in SmallVecs \ live
  /\ live' = (live \ {Std}) \cup {h}
  /\ store' = IF Capacity(store, Std) = 0 THEN NewInline(store, h)
              ELSE HandOver(store, Std, h)
  /\ UNCHANGED <<caller, dropped>>

(* from_raw_parts: its caller owes it the parts of a spilled vector; there *)
(* is no check of the capacity against N.                                  *)
FromRawParts(h) ==
  /\ Raw \in live
  /\ OnHeap(store, Raw)
  /\ h \in SmallVecs \ live
  /\ live' = (live \ {Raw}) \cup {h}
  /\ store' = HandOver(store, Raw, h)
  /\ UNCHANGED <<caller, dropped>>

(* into_vec: a spilled vector gives its block away, an inline one copies   *)
(* its elements into a Vec of exactly that capacity.                       *)
IntoVec(h) ==
  /\ h \in live \cap SmallVecs
  /\ Std \notin live
  /\ live' = (live \ {h}) \cup {Std}
  /\ IF OnHeap(store, h)
     THEN store' = HandOver(store, h, Std)
     ELSE \E s \in WithCapacity(store, Std, LenOf(store, h)) :
            store' = NewInline(
                       Edited(s, Std, Copy(Cells(s, h), 0, Cells(s, Std), 0, LenOf(s, h)),
                              LenOf(s, h)), h)
  /\ UNCHANGED <<caller, dropped>>

(* Mutant: the vector is not wrapped in ManuallyDrop and stays alive.      *)
LeakWithoutForget(h) ==
  /\ h \in live \cap SmallVecs
  /\ OnHeap(store, h)
  /\ Raw \notin live
  /\ live' = live \cup {Raw}
  /\ store' = [store EXCEPT !.word[Raw] = store.word[h], !.ptr[Raw] = store.ptr[h],
                            !.cap[Raw] = store.cap[h]]
  /\ UNCHANGED <<caller, dropped>>

(* leak, or mem::forget, of a spilled vector whose pointer, length and     *)
(* capacity the program keeps: nothing is dropped or released, and only    *)
(* from_raw_parts can make a vector of them again.                         *)
Leak(h) ==
  /\ h \in live \cap SmallVecs
  /\ OnHeap(store, h)
  /\ Raw \notin live
  /\ live' = (live \ {h}) \cup {Raw}
  /\ store' = HandOver(store, h, Raw)
  /\ UNCHANGED <<caller, dropped>>

(* The elements are dropped, the block is released, the handle is gone.    *)
Discard(h) ==
  /\ live' = live \ {h}
  /\ store' = Released(store, h)
  /\ dropped' = dropped \cup Owned(store, h)
  /\ UNCHANGED caller

(* leak on an inline vector panics, and the unwinding drops the vector.    *)
LeakPanics(h) ==
  /\ h \in live \cap SmallVecs
  /\ ~OnHeap(store, h)
  /\ Discard(h)

(* into_inner with len = N; with any other length the vector comes back.   *)
IntoInner(h) ==
  /\ h \in live \cap SmallVecs
  /\ LenOf(store, h) = InlineSize[h]
  /\ live' = live \ {h}
  /\ caller' = caller \cup Owned(store, h)
  /\ store' = Released(SetLen(store, h, 0), h)
  /\ UNCHANGED dropped

(* Drop for SmallVec; for Std, the drop of the program's Vec.  Raw parts   *)
(* have no destructor.                                                     *)
DropVec(h) == h \in live \ {Raw} /\ Discard(h)

----------------------------------------------------------------------------
(* Elements in and out.                                                    *)

(* Element i leaves h for the program; then n elements at from move to i.  *)
TakeOut(h, i, from, n) ==
  /\ store' = Edited(store, h, Shift(Wipe(Cells(store, h), i, 1), from, i, n),
                     LenOf(store, h) - 1)
  /\ caller' = caller \cup {Item(store, h, i)}
  /\ UNCHANGED <<live, dropped>>

(* A consumed argument is dropped while its call unwinds.                  *)
DropArgument ==
  /\ \E e \in caller : caller' = caller \ {e} /\ dropped' = dropped \cup {e}
  /\ UNCHANGED <<store, live>>

(* Mutant: grows one element too late.                                     *)
PushLateGrowth(h) ==
  /\ h \in live \cap SmallVecs
  /\ LET len   == LenOf(store, h)
         grown == IF len > Capacity(store, h) THEN Reserve(store, h, 1) ELSE {store}
     IN  \E e \in caller, s \in grown :
           /\ store' = Edited(s, h, [Cells(s, h) EXCEPT ![len] = e], len + 1)
           /\ caller' = caller \ {e}
  /\ UNCHANGED <<live, dropped>>

Push(h) ==
  /\ h \in live \cap SmallVecs
  /\ LET len   == LenOf(store, h)
         grown == IF len = Capacity(store, h) THEN Reserve(store, h, 1) ELSE {store}
     IN  \E e \in caller, s \in grown :
           /\ store' = Edited(s, h, [Cells(s, h) EXCEPT ![len] = e], len + 1)
           /\ caller' = caller \ {e}
  /\ UNCHANGED <<live, dropped>>

PushPanics(h) ==
  /\ h \in live \cap SmallVecs
  /\ LenOf(store, h) = Capacity(store, h)
  /\ ReserveOverflows(store, h, 1)
  /\ DropArgument

(* pop, and pop_if once its predicate has said yes.                        *)
Pop(h) ==
  /\ h \in live \cap SmallVecs
  /\ LenOf(store, h) > 0
  /\ TakeOut(h, LenOf(store, h) - 1, LenOf(store, h), 0)

(* Mutant: the element in the way goes to the end instead of one place up. *)
InsertBySwap(h, i) ==
  /\ h \in live \cap SmallVecs
  /\ i <= LenOf(store, h)
  /\ \E e \in caller, s \in Reserve(store, h, 1) :
       LET len == LenOf(s, h)
       IN  /\ store' = Edited(s, h, [Shift(Cells(s, h), i, len, 1) EXCEPT ![i] = e], len + 1)
           /\ caller' = caller \ {e}
  /\ UNCHANGED <<live, dropped>>

Insert(h, i) ==
  /\ h \in live \cap SmallVecs
  /\ i <= LenOf(store, h)
  /\ \E e \in caller, s \in Reserve(store, h, 1) :
       LET len == LenOf(s, h)
       IN  /\ store' = Edited(s, h, [Shift(Cells(s, h), i, i + 1, len - i) EXCEPT ![i] = e],
                              len + 1)
           /\ caller' = caller \ {e}
  /\ UNCHANGED <<live, dropped>>

InsertPanics(h, i) ==
  /\ h \in live \cap SmallVecs
  /\ i > LenOf(store, h) \/ ReserveOverflows(store, h, 1)
  /\ DropArgument

(* Mutant: the last element takes the place, as in swap_remove.            *)
RemoveBySwap(h, i) ==
  /\ h \in live \cap SmallVecs
  /\ i < LenOf(store, h)
  /\ TakeOut(h, i, LenOf(store, h) - 1, 1)

Remove(h, i) ==
  /\ h \in live \cap SmallVecs
  /\ i < LenOf(store, h)
  /\ TakeOut(h, i, i + 1, LenOf(store, h) - 1 - i)

SwapRemove(h, i) ==
  /\ h \in live \cap SmallVecs
  /\ i < LenOf(store, h)
  /\ TakeOut(h, i, LenOf(store, h) - 1, 1)

(* Mutant: the unused capacity is given back.                              *)
CutToAndShrink(h, n) ==
  /\ store' \in ShrinkToFit(
       Edited(store, h, Wipe(Cells(store, h), n, LenOf(store, h) - n), n), h)
  /\ dropped' = dropped \cup {Item(store, h, i) : i \in n .. LenOf(store, h) - 1}
  /\ UNCHANGED <<live, caller>>

(* The length is cut first, then the tail is dropped in place.             *)
CutTo(h, n) ==
  /\ store' = Edited(store, h, Wipe(Cells(store, h), n, LenOf(store, h) - n), n)
  /\ dropped' = dropped \cup {Item(store, h, i) : i \in n .. LenOf(store, h) - 1}
  /\ UNCHANGED <<live, caller>>

Truncate(h, n) ==
  /\ h \in live \cap SmallVecs
  /\ n < LenOf(store, h)
  /\ CutTo(h, n)

Clear(h) == h \in live \cap SmallVecs /\ CutTo(h, 0)

(* Mutant: other.set_len(0) is forgotten.                                  *)
AppendKeepsOther(h, k) ==
  /\ {h, k} \subseteq live \cap SmallVecs
  /\ h # k
  /\ \E s \in Reserve(store, h, LenOf(store, k)) :
       store' = Edited(s, h, Copy(Cells(s, k), 0, Cells(s, h), LenOf(s, h), LenOf(s, k)),
                       LenOf(s, h) + LenOf(s, k))
  /\ UNCHANGED <<live, caller, dropped>>

(* Everything in k moves behind the elements of h; k keeps its buffer.     *)
AppendCall(h, k) ==
  /\ {h, k} \subseteq live \cap SmallVecs
  /\ h # k
  /\ LET len   == LenOf(store, h)
         other == LenOf(store, k)
         grown == IF len + other > Capacity(store, h) THEN Reserve(store, h, other)
                  ELSE {store}
     IN  \E s \in grown :
           store' = Edited(Edited(s, k, Wipe(Cells(s, k), 0, other), 0), h,
                           Copy(Cells(s, k), 0, Cells(s, h), len, other), len + other)
  /\ UNCHANGED <<live, caller, dropped>>

(* h keeps its capacity; k is a new vector of h's type.                    *)
SplitOff(h, k, at) ==
  /\ h \in live \cap SmallVecs
  /\ at <= LenOf(store, h)
  /\ Construct(k)
  /\ InlineSize[k] = InlineSize[h]
  /\ LET tail == LenOf(store, h) - at
     IN  \E s \in WithCapacity(store, k, tail) :
           store' = Edited(Edited(s, h, Wipe(Cells(s, h), at, tail), at), k,
                           Copy(Cells(s, h), at, Cells(s, k), 0, tail), tail)
  /\ UNCHANGED <<caller, dropped>>

----------------------------------------------------------------------------
(* Capacity.                                                               *)

Resize(h, outcomes) ==
  /\ h \in live \cap SmallVecs
  /\ UNCHANGED <<live, caller, dropped>>
  /\ store' \in outcomes

ReserveCall(h, additional)      == Resize(h, Reserve(store, h, additional))
ReserveExactCall(h, additional) == Resize(h, ReserveExact(store, h, additional))
GrowCall(h, c)                  == c >= LenOf(store, h) /\ Resize(h, TryGrow(store, h, c))
ShrinkToFitCall(h)              == Resize(h, ShrinkToFit(store, h))
ShrinkToCall(h, minCapacity)    == Resize(h, ShrinkTo(store, h, minCapacity))

----------------------------------------------------------------------------
Next ==
  \E h \in Handles :
    \/ New(h) \/ FromVec(h) \/ FromRawParts(h) \/ IntoVec(h) \/ Leak(h)
    \/ LeakPanics(h) \/ IntoInner(h) \/ DropVec(h)
    \/ Push(h) \/ PushPanics(h) \/ Pop(h) \/ Clear(h) \/ ShrinkToFitCall(h)
    \/ \E k \in Handles : AppendCall(h, k) \/ \E at \in Slots \cup {MaxCap} : SplitOff(h, k, at)
    \/ \E n \in Sizes :
         \/ NewWithCapacity(h, n) \/ FromBuf(h, n) \/ FromBufAndLen(h, n)
         \/ FromBufAndLenPanics(h, n) \/ FromArray(h, n)
         \/ Insert(h, n) \/ InsertPanics(h, n) \/ Remove(h, n) \/ SwapRemove(h, n)
         \/ Truncate(h, n)
         \/ ReserveCall(h, n) \/ ReserveExactCall(h, n) \/ GrowCall(h, n)
         \/ ShrinkToCall(h, n)
         \/ \E m \in Sizes : h = Std /\ VecNew(n, m)

Spec == Init /\ [][Next]_vars

----------------------------------------------------------------------------
(* The length word never leaves usize, no block outgrows isize::MAX bytes, *)
(* and whatever a vector hands out or drops is an element, never the       *)
(* content of an uninitialised cell.                                       *)
TypeOK ==
  /\ store \in Storage
  /\ live \subseteq Handles
  /\ caller \subseteq Elems
  /\ dropped \subseteq Elems

(* Every live vector reads the union member that is active: the tag, the   *)
(* pointer, the capacity and the allocated size of its block agree.        *)
TagMatchesUnion == \A h \in live : HandleOK(store, h)

(* Two vectors never own the same heap block (TryGrowRaw's free and fresh  *)
(* blocks, and every hand-over between SmallVec and Vec).                  *)
BlocksNotShared ==
  \A h, k \in live :
    h # k /\ OnHeap(store, h) /\ OnHeap(store, k) => store.ptr[h] # store.ptr[k]

(* No element is duplicated, lost, uninitialised or dropped twice: each is *)
(* in exactly one place, a vector below its length, the program's hands,   *)
(* or the dropped ones.                                                    *)
ElementsOwnedOnce ==
  /\ \A h \in live : ContentsOK(store, h)
  /\ \A h, k \in live : h # k => Owned(store, h) \cap Owned(store, k) = {}
  /\ \A h \in live : Owned(store, h) \cap (caller \cup dropped) = {}
  /\ caller \cap dropped = {}
  /\ Elems = caller \cup dropped \cup UNION {Owned(store, h) : h \in live}

(* No operation writes past the capacity of the buffer it edits, and a     *)
(* spilled vector never writes the bytes its pointer and capacity occupy.  *)
WritesStayInBounds ==
  \A h \in Handles :
    /\ \A i \in Slots : i >= InlineSize[h] => store.mem[h][i] = Uninit
    /\ h \in live /\ OnHeap(store, h) =>
         /\ store.mem[h] = Blank
         /\ \A i \in Slots : i >= store.cap[h] => store.mem[store.ptr[h]][i] = Uninit

Holders(s, l, p) == {h \in l : OnHeap(s, h) /\ s.ptr[h] = p}

(* Every allocated block belongs to a live vector, or is the program's.    *)
NoBlockLeaked == \A p \in Ptrs : store.size[p] > 0 => Holders(store, live, p) # {}

(* A block is lost only when an empty spilled vector moves to a new block: *)
(* try_grow_raw's fresh allocation, reached by growing and by shrink_to.   *)
OnlyEmptyVectorsLoseBlocks ==
  [][\A p \in Ptrs, h \in live :
       h \in Holders(store, live, p) /\ store'.size[p] > 0 /\ Holders(store', live', p) = {}
         => /\ h \in live' /\ OnHeap(store', h)
            /\ LenOf(store, h) = 0]_vars

(* reserve and reserve_exact make the room they were asked for, also when  *)
(* the growth brings a spilled vector back to its inline array.            *)
ReserveMakesRoom ==
  [][\A h \in live \cap SmallVecs, n \in Sizes :
       ReserveCall(h, n) \/ ReserveExactCall(h, n) =>
         /\ Capacity(store', h) - LenOf(store', h) >= n
         /\ Capacity(store', h) >= Capacity(store, h)]_vars

(* A call that takes elements out of a vector, whichever it is, leaves the *)
(* vector its buffer and its capacity (split_off promises it by name).     *)
RemovalKeepsBuffer ==
  [][\A h \in live \cap live' :
       LenOf(store', h) < LenOf(store, h) =>
         /\ AsPtr(store', h) = AsPtr(store, h)
         /\ Capacity(store', h) = Capacity(store, h)]_vars

(* from_raw_parts is only entered with a capacity above the inline size,   *)
(* as its documentation says is asserted.                                  *)
RawPartsAlwaysSpill ==
  [][\A h \in SmallVecs : FromRawParts(h) => Capacity(store, Raw) > InlineSize[h]]_vars
=============================================================================
