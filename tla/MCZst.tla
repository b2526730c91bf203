------------------------------- MODULE MCZst -------------------------------
(* Two vectors whose inline arrays hold two elements, and a Vec.           *)
EXTENDS ZstSmallVec, TLC

CONSTANTS a, b

MCInlineSize == (a :> 2) @@ (b :> 2)

Symmetry == Permutations({a, b})
=============================================================================
