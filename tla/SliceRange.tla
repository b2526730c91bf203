----------------------------- MODULE SliceRange -----------------------------
(***************************************************************************)
(* slice_range: the start and end that a RangeBounds argument of drain,    *)
(* splice, extract_if or extend_from_within means for a vector of length   *)
(* len.  A bound is a record: kind "included", "excluded" or "unbounded",  *)
(* at the usize.  Excluded starts and included ends are moved by one,      *)
(* which overflows at usize::MAX.                                          *)
(***************************************************************************)
EXTENDS Integers

CONSTANTS UMax    \* usize::MAX

ASSUME UMaxAssumption == UMax \in Nat

Usize  == 0 .. UMax
Bounds == [kind : {"included", "excluded"}, at : Usize] \cup [kind : {"unbounded"}, at : {0}]

(* usize::checked_add(1): the empty set is None, on which the code panics. *)
CheckedSucc(n) == IF n = UMax THEN {} ELSE {n + 1}

StartIndex(lo) ==
  CASE lo.kind = "included"  -> {lo.at}
    [] lo.kind = "excluded"  -> CheckedSucc(lo.at)
    [] lo.kind = "unbounded" -> {0}

(* Mutant: a plain addition, which wraps in a release build.               *)
EndIndexWraps(hi, len) ==
  CASE hi.kind = "included"  -> {(hi.at + 1) % (UMax + 1)}
    [] hi.kind = "excluded"  -> {hi.at}
    [] hi.kind = "unbounded" -> {len}

EndIndex(hi, len) ==
  CASE hi.kind = "included"  -> CheckedSucc(hi.at)
    [] hi.kind = "excluded"  -> {hi.at}
    [] hi.kind = "unbounded" -> {len}

(* The range, or the empty set for a panic.                                *)
SliceRange(lo, hi, len) ==
  {r \in [start : StartIndex(lo), end : EndIndex(hi, len)] :
     r.start <= r.end /\ r.end <= len}

----------------------------------------------------------------------------
(* What a pair of bounds means, over numbers that do not overflow.         *)

Admits(lo, hi, len, i) ==
  /\ lo.kind = "included"  => lo.at <= i
  /\ lo.kind = "excluded"  => lo.at < i
  /\ hi.kind = "included"  => i <= hi.at
  /\ hi.kind = "excluded"  => i < hi.at
  /\ hi.kind = "unbounded" => i < len

(* The bounds cross, or reach outside the vector.                          *)
OutOfRange(lo, hi, len) ==
  LET first == CASE lo.kind = "included"  -> lo.at
                 [] lo.kind = "excluded"  -> lo.at + 1
                 [] lo.kind = "unbounded" -> 0
      after == CASE hi.kind = "included"  -> hi.at + 1
                 [] hi.kind = "excluded"  -> hi.at
                 [] hi.kind = "unbounded" -> len
  IN  first > after \/ after > len

(* slice_range panics for exactly the bounds that are out of range, and    *)
(* otherwise returns the indices both bounds admit, all of them in the     *)
(* vector: also at usize::MAX, where moving a bound overflows.             *)
RangeIsRight(lo, hi, len) ==
  /\ SliceRange(lo, hi, len) = {} <=> OutOfRange(lo, hi, len)
  /\ \A r \in SliceRange(lo, hi, len) :
       /\ r.end <= len
       /\ \A i \in Usize : i \in r.start .. r.end - 1 <=> Admits(lo, hi, len, i)
=============================================================================
