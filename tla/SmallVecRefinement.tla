------------------------ MODULE SmallVecRefinement ------------------------
(***************************************************************************)
(* SmallVec implements VecSpec: the sequence of a vector is the cells of   *)
(* its current buffer below its length, wherever that buffer is.           *)
(***************************************************************************)
EXTENDS SmallVec, FiniteSets

(* A program has finitely many elements in memory.                         *)
ASSUME ElemsFinite == IsFiniteSet(Elems)

Sequences ==
  [h \in Handles |->
     IF h \in live THEN [i \in 1 .. LenOf(store, h) |-> Item(store, h, i - 1)] ELSE <<>>]

Vec == INSTANCE VecSpec WITH contents <- Sequences

(* Between them the calls do nothing that calls of Vec could not: every    *)
(* step is some call of Vec on the sequences, or leaves them alone.  Which *)
(* call it is, CallsDoWhatVecDoes says.                                    *)
ImplementsVec == Vec!Spec

(* The call of Vec that each call on h answers to, with its arguments.     *)
BeginsLikeVec(h) ==
  /\ New(h) => Vec!Create(h, 0, 0)
  /\ FromVec(h) => Vec!Convert(Std, h)
  /\ FromRawParts(h) => Vec!Convert(Raw, h)
  /\ \A n \in Sizes :
       /\ NewWithCapacity(h, n) => Vec!Create(h, 0, 0)
       /\ FromBuf(h, n) \/ FromArray(h, n) => Vec!Create(h, n, n)
       /\ FromBufAndLen(h, n) => Vec!Create(h, InlineSize[h], n)
       /\ FromBufAndLenPanics(h, n) => Vec!Reject(InlineSize[h])
       /\ \A m \in Sizes : VecNew(n, m) => Vec!Create(Std, m, m)

EndsLikeVec(h) ==
  /\ IntoVec(h) => Vec!Convert(h, Std)
  /\ Leak(h) => Vec!Convert(h, Raw)
  /\ IntoInner(h) => Vec!GiveBack(h)
  /\ LeakPanics(h) \/ DropVec(h) => Vec!Drop(h)

EditsLikeVec(h) ==
  /\ Push(h) => Vec!Push(h)
  /\ Pop(h) => Vec!Pop(h)
  /\ Clear(h) => Vec!Truncate(h, 0)
  /\ PushPanics(h) => Vec!Reject(1)
  /\ \A n \in Sizes :
       /\ Insert(h, n) => Vec!Insert(h, n)
       /\ InsertPanics(h, n) => Vec!Reject(1)
       /\ Remove(h, n) => Vec!RemoveItem(h, n)
       /\ SwapRemove(h, n) => Vec!SwapRemove(h, n)
       /\ Truncate(h, n) => Vec!Truncate(h, n)

SharesLikeVec(h, k) ==
  /\ AppendCall(h, k) => Vec!Concat(h, k)
  /\ \A n \in Sizes : SplitOff(h, k, n) => Vec!SplitOff(h, k, n)

CapacityCall(h) ==
  \/ ShrinkToFitCall(h)
  \/ \E n \in Sizes :
       ReserveCall(h, n) \/ ReserveExactCall(h, n) \/ GrowCall(h, n) \/ ShrinkToCall(h, n)

(* Each call does to the sequence of elements what its namesake of Vec     *)
(* does for the same arguments, where it panics too, through every growth, *)
(* un-spill, shrink and hand-over; and the capacity calls do nothing to it.*)
CallsDoWhatVecDoes ==
  [][\A h \in Handles :
       /\ BeginsLikeVec(h) /\ EndsLikeVec(h) /\ EditsLikeVec(h)
       /\ \A k \in Handles : SharesLikeVec(h, k)
       /\ CapacityCall(h) => UNCHANGED Vec!vars]_vars
===========================================================================
