------------------------------ MODULE MCClones ------------------------------
(***************************************************************************)
(* TLC instances of Clones: two SmallVecs and a Vec, over a 3-bit usize in *)
(* which isize::MAX bytes hold 3 elements.                                 *)
(***************************************************************************)
EXTENDS Clones, TLC

CONSTANTS a, b, e1, e2, e3, e4, e5, p1, p2, p3

MCHandles == {Std, Raw, a, b}
MixedSizes == (Std :> 0) @@ (Raw :> 0) @@ (a :> 1) @@ (b :> 2)

Sym == Permutations(Elems) \cup Permutations(Ptrs)

(* The bounds of a run, which the specification knows nothing of: which    *)
(* calls begin.  The one Vec is made first, empty, to become a vector      *)
(* spilled below its inline size; the second vector begins inline, or by   *)
(* the call that fills it; while there are iterators nothing is pushed.    *)
(* Once an element is gone no call begins: fewer elements give a vector no *)
(* new shape.                                                              *)
BeginsSmall ==
  Idle =>
    /\ Std \in live' => live \cup iters = {} /\ LenOf(store', Std) = 0 /\ Capacity(store', Std) = 1
    /\ \A h \in live' \ live :
         \/ live \cup iters \subseteq {Std}
         \/ call' # call
         \/ Capacity(store', h) = InlineSize[h]
    /\ iters # {} => call' # call \/ caller \subseteq caller'

SmallNext ==
  /\ \/ CloneStep
     \/ CopyEnds
     \/ dropped \cup leaked = {} /\ (Program \/ Start \/ Bulk)
     \/ IterNext /\ Idle /\ UNCHANGED cvars
  /\ BeginsSmall

SmallSpec == CloneInit /\ [][SmallNext]_allVars
=============================================================================
