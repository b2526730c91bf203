------------------------------ MODULE UserCode ------------------------------
(***************************************************************************)
(* What the modules share in which one call of the crate is several steps, *)
(* because code of the user runs inside it: an iterator, a predicate, a    *)
(* Clone, a destructor.                                                    *)
(***************************************************************************)
EXTENDS SmallVec, Sequences

(* The n items of h from cell i, as a sequence.                            *)
Items(s, h, i, n) == [j \in 1 .. n |-> Item(s, h, i + j - 1)]

Contents(s, h) == Items(s, h, 0, LenOf(s, h))

(* Calls of the program that give one vector, at a time, every way a       *)
(* vector can hold its elements.                                           *)
OneVector ==
  \E h \in Handles :
    \/ Push(h) \/ FromVec(h) \/ DropVec(h)
    \/ /\ live = {}
       /\ \/ New(h)
          \/ \E n \in Sizes : NewWithCapacity(h, n)
          \/ \E c, n \in Sizes : h = Std /\ VecNew(c, n)

(* Every element is in exactly one place: a cell that one of the holders   *)
(* uses, the program's hands, the dropped ones, or the leaked ones.        *)
EachElementOnce(holders, InUse(_), leaked) ==
  /\ \A h \in holders : \A i \in InUse(h) :
       Item(store, h, i) \in Elems \ (caller \cup dropped \cup leaked)
  /\ \A h, k \in holders : \A i \in InUse(h), j \in InUse(k) :
       Item(store, h, i) = Item(store, k, j) => h = k /\ i = j
  /\ caller \cap dropped = {} /\ leaked \cap (caller \cup dropped) = {}
  /\ Elems = caller \cup dropped \cup leaked
               \cup UNION {{Item(store, h, i) : i \in InUse(h)} : h \in holders}
=============================================================================
