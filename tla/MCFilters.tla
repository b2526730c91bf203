----------------------------- MODULE MCFilters -----------------------------
(***************************************************************************)
(* TLC instances of Filters: a SmallVec<T, 1>, or a Vec that becomes one,  *)
(* over a 4-bit usize in which isize::MAX bytes hold 4 elements.           *)
(***************************************************************************)
EXTENDS Filters, TLC

CONSTANTS a, e1, e2, e3, e4, e5, p1, p2

MCHandles == {Std, Raw, a}
OneInline == (Std :> 0) @@ (Raw :> 0) @@ (a :> 1)

Sym == Permutations(Elems) \cup Permutations(Ptrs)
=============================================================================
