------------------------------- MODULE Drain -------------------------------
(***************************************************************************)
(* Drain and Splice: iterators that borrow a vector, cut its length to the *)
(* start of their range, and put the vector together again when they are   *)
(* dropped.  The steps are separated where user code runs: the iterator    *)
(* that replaces the range, its size_hint, element destructors; each may   *)
(* panic.  While the borrow lasts no other call reaches the vector.        *)
(***************************************************************************)
EXTENDS UserCode

VARIABLES
  phase,    \* "free": no borrow.  "drain", "splice": an iterator is out.
            \* "fill", "refill", "collect", "done", "extend", "extending":
            \* inside Drop for Splice.  "unwinding": a panic of move_tail is
            \* leaving it.  "poisoned": what follows is undefined.
  borrow,   \* the Drain: vec, tail_start, tail_len; iter is front .. back - 1
  leaked,   \* elements that a forgotten iterator still had to give back
  past      \* history: items before and after the range, and spliced in

dvars   == <<phase, borrow, leaked, past>>
allVars == <<vars, dvars>>

NoBorrow == [vec |-> Std, tail_start |-> 0, tail_len |-> 0, front |-> 0, back |-> 0]
NoPast   == [before |-> <<>>, added |-> <<>>, after |-> <<>>]

v == borrow.vec

IterItems == {Item(store, v, i) : i \in borrow.front .. borrow.back - 1}
TailItems ==
  {Item(store, v, i) : i \in borrow.tail_start .. borrow.tail_start + borrow.tail_len - 1}

DrainInit ==
  /\ Init
  /\ phase = "free"
  /\ borrow = NoBorrow
  /\ leaked = {}
  /\ past = NoPast

(* Calls of the program between two borrows.                               *)
Program ==
  /\ phase = "free"
  /\ OneVector
  /\ UNCHANGED dvars

----------------------------------------------------------------------------
(* The iterator.                                                           *)

(* drain and splice over i .. j - 1.                                       *)
Borrow(h, i, j, kind) ==
  LET len == LenOf(store, h)
  IN  /\ phase = "free"
      /\ h \in live \cap SmallVecs
      /\ i <= j /\ j <= len
      /\ store' = SetLen(store, h, i)
      /\ phase' = kind
      /\ borrow' = [vec |-> h, tail_start |-> j, tail_len |-> len - j, front |-> i, back |-> j]
      /\ past' = [before |-> Items(store, h, 0, i), added |-> <<>>,
                  after |-> Items(store, h, j, len - j)]
      /\ UNCHANGED <<live, caller, dropped, leaked>>

IterOut == phase \in {"drain", "splice"}

(* The item at i is read out; the length of the vector does not cover it.  *)
Yield(i) ==
  /\ IterOut
  /\ borrow.front < borrow.back
  /\ store' = Edited(store, v, Wipe(Cells(store, v), i, 1), LenOf(store, v))
  /\ caller' = caller \cup {Item(store, v, i)}
  /\ UNCHANGED <<live, dropped, phase, leaked, past>>

NextFront == Yield(borrow.front) /\ borrow' = [borrow EXCEPT !.front = @ + 1]
NextBack  == Yield(borrow.back - 1) /\ borrow' = [borrow EXCEPT !.back = @ - 1]

EndBorrow == phase' = "free" /\ borrow' = NoBorrow /\ past' = NoPast

(* mem::forget on the iterator: its Drop never runs.                       *)
Forget ==
  /\ IterOut
  /\ leaked' = leaked \cup IterItems \cup TailItems
  /\ EndBorrow
  /\ UNCHANGED vars

----------------------------------------------------------------------------
(* Drop for Drain.                                                         *)

(* Mutant: the guard forgets that a spliced vector has grown.              *)
RestoredAtFront(s) ==
  IF borrow.tail_len > 0
  THEN Edited(s, v, Shift(Cells(s, v), borrow.tail_start, Len(past.before), borrow.tail_len),
              Len(past.before) + borrow.tail_len)
  ELSE s

(* DropGuard: the tail moves down to the length, which then covers it.     *)
Restored(s) ==
  LET start == LenOf(s, v)
  IN  IF borrow.tail_len > 0
      THEN Edited(s, v, Shift(Cells(s, v), borrow.tail_start, start, borrow.tail_len),
                  start + borrow.tail_len)
      ELSE s

RangeDropped ==
  Edited(store, v, Wipe(Cells(store, v), borrow.front, borrow.back - borrow.front),
         LenOf(store, v))

(* drop_in_place drops the rest of the range even when one destructor      *)
(* panics.  A Splice gets here when a destructor panics in its own Drop.   *)
DropDrain ==
  /\ phase = "drain" \/ (phase = "splice" /\ borrow.front < borrow.back)
  /\ dropped' = dropped \cup IterItems
  /\ store' = Restored(RangeDropped)
  /\ EndBorrow
  /\ UNCHANGED <<live, caller, leaked>>

----------------------------------------------------------------------------
(* Drop for Splice.                                                        *)

(* The rest of the range is dropped; iter becomes the empty iterator.      *)
DropSplice ==
  /\ phase = "splice"
  /\ dropped' = dropped \cup IterItems
  /\ store' = RangeDropped
  /\ borrow' = [borrow EXCEPT !.front = 0, !.back = 0]
  /\ phase' = IF borrow.tail_len = 0 THEN "extend" ELSE "fill"
  /\ UNCHANGED <<live, caller, leaked, past>>

(* Mutant: false from the second fill is not a reason to return.           *)
ReturnUnlessRefilling ==
  /\ phase \in {"fill", "collect", "done", "extend", "extending"}
  /\ store' = Restored(store)
  /\ EndBorrow
  /\ UNCHANGED <<live, caller, dropped, leaked>>

(* The replacement is exhausted, or its code or extend's reserve panics:   *)
(* Drop for Drain runs.                                                    *)
Return ==
  /\ phase \in {"fill", "refill", "collect", "done", "extend", "extending"}
  /\ store' = Restored(store)
  /\ EndBorrow
  /\ UNCHANGED <<live, caller, dropped, leaked>>

(* No tail: extend reserves the lower bound of size_hint, then pushes.     *)
ExtendReserve(lower) ==
  /\ phase = "extend"
  /\ store' \in Reserve(store, v, lower)
  /\ phase' = "extending"
  /\ UNCHANGED <<live, caller, dropped, borrow, leaked, past>>

ExtendPush ==
  /\ phase = "extending"
  /\ Push(v)
  /\ past' = [past EXCEPT !.added = Append(@, Item(store', v, LenOf(store', v) - 1))]
  /\ UNCHANGED <<phase, borrow, leaked>>

ExtendPushPanics ==
  /\ phase = "extending"
  /\ PushPanics(v)
  /\ EndBorrow
  /\ UNCHANGED leaked

(* Mutant: the length is not moved, so the next place is the same one.     *)
FillKeepsLen ==
  /\ phase \in {"fill", "refill"}
  /\ LenOf(store, v) < borrow.tail_start
  /\ \E e \in caller :
       /\ store' = Edited(store, v, [Cells(store, v) EXCEPT ![LenOf(store, v)] = e],
                          LenOf(store, v))
       /\ caller' = caller \ {e}
       /\ past' = [past EXCEPT !.added = Append(@, e)]
  /\ UNCHANGED <<live, dropped, phase, borrow, leaked>>

(* fill, for one place: the item is written and the length covers it       *)
(* before the replacement is asked again.                                  *)
Fill ==
  /\ phase \in {"fill", "refill"}
  /\ LenOf(store, v) < borrow.tail_start
  /\ \E e \in caller :
       /\ store' = Edited(store, v, [Cells(store, v) EXCEPT ![LenOf(store, v)] = e],
                          LenOf(store, v) + 1)
       /\ caller' = caller \ {e}
       /\ past' = [past EXCEPT !.added = Append(@, e)]
  /\ UNCHANGED <<live, dropped, phase, borrow, leaked>>

(* While move_tail reserves, the length covers the tail (and the gap).     *)
WholeLength == SetLen(store, v, borrow.tail_start + borrow.tail_len)

(* Mutant: reserves over the cut length.                                   *)
MoveTailOverCutLength(additional) ==
  {Edited(g, v, Shift(Cells(g, v), borrow.tail_start, borrow.tail_start + additional,
                      borrow.tail_len), LenOf(store, v)) :
     g \in Reserve(store, v, additional)}

MoveTail(additional) ==
  {Edited(g, v, Shift(Cells(g, v), borrow.tail_start, borrow.tail_start + additional,
                      borrow.tail_len), LenOf(store, v)) :
     g \in Reserve(WholeLength, v, additional)}

RangeFilled == phase \in {"fill", "refill"} /\ LenOf(store, v) = borrow.tail_start

(* The range is full: room for the lower bound of size_hint, true or not.  *)
SizeHint(lower) ==
  /\ phase = "fill" /\ RangeFilled
  /\ IF lower = 0
     THEN phase' = "collect" /\ UNCHANGED <<store, borrow>>
     ELSE /\ store' \in MoveTail(lower)
          /\ borrow' = [borrow EXCEPT !.tail_start = @ + lower]
          /\ phase' = "refill"
  /\ UNCHANGED <<live, caller, dropped, leaked, past>>

CanCollect == phase = "collect" \/ (phase = "refill" /\ RangeFilled)

(* The remaining n items were collected; room is made for exactly them and *)
(* no user code runs while they fill it.                                   *)
Collect(n) ==
  /\ CanCollect
  /\ n > 0
  /\ \E f \in Arrays(n), s \in MoveTail(n) :
       LET len == LenOf(s, v)
       IN  /\ store' = Edited(s, v, Copy(Filled(f, n), 0, Cells(s, v), len, n), len + n)
           /\ caller' = caller \ Taken(f, n)
           /\ past' = [past EXCEPT !.added = @ \o [i \in 1 .. n |-> f[i - 1]]]
  /\ borrow' = [borrow EXCEPT !.tail_start = @ + n]
  /\ phase' = "done"
  /\ UNCHANGED <<live, dropped, leaked>>

(* The replacement panics while it is collected: the n items it gave are   *)
(* dropped and Drop for Drain runs.                                        *)
CollectPanics(n) ==
  /\ CanCollect
  /\ n > 0
  /\ \E f \in Arrays(n) :
       /\ caller' = caller \ Taken(f, n)
       /\ dropped' = dropped \cup Taken(f, n)
  /\ store' = Restored(store)
  /\ EndBorrow
  /\ UNCHANGED <<live, leaked>>

(* reserve panics inside move_tail, for the hint or for the collected      *)
(* items, which are dropped: the length is not put back.                   *)
MoveTailPanics(n) ==
  /\ \/ phase = "fill" /\ RangeFilled /\ UNCHANGED <<caller, dropped>>
     \/ /\ CanCollect
        /\ \E f \in Arrays(n) :
             /\ caller' = caller \ Taken(f, n)
             /\ dropped' = dropped \cup Taken(f, n)
  /\ ReserveOverflows(WholeLength, v, n)
  /\ store' = WholeLength
  /\ phase' = "unwinding"
  /\ UNCHANGED <<live, borrow, leaked, past>>

(* Drop for Drain after such a panic.                                      *)
Unwind ==
  /\ phase = "unwinding"
  /\ store' = Restored(store)
  /\ phase' = "poisoned"
  /\ UNCHANGED <<live, caller, dropped, borrow, leaked, past>>

(* Cells that hold nothing are now elements: nothing is said of the rest.  *)
Undefined == phase = "poisoned" /\ UNCHANGED allVars

SpliceStep ==
  \/ Return \/ ExtendPush \/ ExtendPushPanics \/ Fill \/ Unwind
  \/ \E n \in Sizes :
       \/ ExtendReserve(n) \/ SizeHint(n) \/ Collect(n) \/ CollectPanics(n)
       \/ MoveTailPanics(n)

DrainNext ==
  \/ Program
  \/ \E h \in Handles, i, j \in 0 .. MaxCap, kind \in {"drain", "splice"} : Borrow(h, i, j, kind)
  \/ NextFront \/ NextBack \/ Forget \/ DropDrain \/ DropSplice
  \/ SpliceStep \/ Undefined

DrainSpec == DrainInit /\ [][DrainNext]_allVars

(* A Drop that has begun runs on as long as the code it calls returns.     *)
FairDrainSpec == DrainSpec /\ WF_allVars(SpliceStep)

----------------------------------------------------------------------------
(* Before move_tail has panicked.                                          *)
Defined == phase \notin {"unwinding", "poisoned"}

(* The fields of the Drain stay within what one allocation can hold, and   *)
(* so does the vector it borrows, whatever size_hint says.                 *)
DrainTypeOK ==
  /\ phase \in {"free", "drain", "splice", "fill", "refill", "collect", "done", "extend",
                "extending", "unwinding", "poisoned"}
  /\ borrow \in [vec : Handles, tail_start : 0 .. MaxCap, tail_len : 0 .. MaxCap,
                 front : 0 .. MaxCap, back : 0 .. MaxCap]
  /\ leaked \subseteq Elems
  /\ Defined => TypeOK

(* The cells of h that hold an element: those below its length and, while  *)
(* it is borrowed, the rest of the range and the tail.                     *)
InUse(h) ==
  {i \in Slots : \/ i < LenOf(store, h)
                 \/ /\ phase # "free" /\ h = v
                    /\ \/ i \in borrow.front .. borrow.back - 1
                       \/ i \in borrow.tail_start .. borrow.tail_start + borrow.tail_len - 1}

(* Throughout a borrow, and whatever panics in it, no element is lost,     *)
(* duplicated or dropped twice, and only forgetting the iterator leaks.    *)
AccountedFor == Defined => EachElementOnce(live, InUse, leaked)

(* The tail always lies within the buffer, however far move_tail moved it, *)
(* and nothing is written outside.                                         *)
SpliceStaysInBounds ==
  Defined =>
    /\ WritesStayInBounds
    /\ phase # "free" => borrow.tail_start + borrow.tail_len <= Capacity(store, v)

(* When the borrow ends, by return or by panic, the vector is what was     *)
(* before the range, what was spliced in, and what was after, in order.    *)
(* A forgotten iterator costs the vector its tail and nothing else.        *)
VectorIsRestored ==
  [][phase # "free" /\ phase' = "free" =>
       Contents(store', v) =
         past.before \o (IF Forget THEN <<>> ELSE past.added \o past.after)]_allVars

(* The Drain's own safety comment: while the tail is apart, the length     *)
(* does not reach it.                                                      *)
TailStaysApart ==
  phase \notin {"free", "poisoned"} /\ borrow.tail_len > 0
    => LenOf(store, v) <= borrow.tail_start

(* Dropping a Splice ends, with the vector free again, for any replacement *)
(* and any size_hint.                                                      *)
SpliceDropReturns ==
  phase \in {"fill", "refill", "collect", "done", "extend", "extending", "unwinding"}
    ~> phase \in {"free", "poisoned"}
=============================================================================
