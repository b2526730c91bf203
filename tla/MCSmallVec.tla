---------------------------- MODULE MCSmallVec ----------------------------
(***************************************************************************)
(* TLC instances of SmallVec: a 4-bit usize, a 2-byte T (so isize::MAX     *)
(* bytes hold 3 elements), two vectors, the program's Vec, and the raw     *)
(* parts of a vector that it has leaked.                                   *)
(***************************************************************************)
EXTENDS SmallVecRefinement, TLC

CONSTANTS a, b, e1, e2, e3, e4, p1, p2, p3

MCHandles == {Std, Raw, a, b}
MixedSizes == (Std :> 0) @@ (Raw :> 0) @@ (a :> 0) @@ (b :> 2)
EqualSizes == (Std :> 0) @@ (Raw :> 0) @@ (a :> 1) @@ (b :> 1)

Sym == Permutations(Elems) \cup Permutations(Ptrs)
===========================================================================
