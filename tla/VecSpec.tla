------------------------------ MODULE VecSpec ------------------------------
(***************************************************************************)
(* What a vector promises, without storage: each live vector is a          *)
(* sequence, each call of Vec moves elements between the sequences, the    *)
(* program and the dropped elements, and a change of capacity is no change *)
(* at all.  One action is one call with its arguments; indices count from  *)
(* 0.  Only which elements of its own the program passes is left open.     *)
(***************************************************************************)
EXTENDS Integers, SequencesExt

CONSTANTS Handles, Elems

VARIABLES
  contents,  \* the sequence of every vector, empty while it is not live
  live, caller, dropped

vars == <<contents, live, caller, dropped>>

(* Sequences of n distinct elements that the program holds.                *)
Fresh(n) == {s \in [1 .. n -> caller] : IsInjective(s)}

Init ==
  /\ contents = [h \in Handles |-> <<>>]
  /\ live = {}
  /\ caller = Elems
  /\ dropped = {}

(* A new vector of the first k of n elements; the others are dropped.      *)
Create(h, n, k) ==
  /\ h \notin live
  /\ live' = live \cup {h}
  /\ \E s \in Fresh(n) :
       /\ contents' = [contents EXCEPT ![h] = SubSeq(s, 1, k)]
       /\ caller' = caller \ ToSet(s)
       /\ dropped' = dropped \cup ToSet(SubSeq(s, k + 1, n))

(* A call that panics drops the n elements it was given.                   *)
Reject(n) ==
  /\ \E s \in Fresh(n) : caller' = caller \ ToSet(s) /\ dropped' = dropped \cup ToSet(s)
  /\ UNCHANGED <<contents, live>>

(* The vector becomes another kind of vector, with the same contents.      *)
Convert(h, k) ==
  /\ h \in live
  /\ k \notin live
  /\ live' = (live \ {h}) \cup {k}
  /\ contents' = [contents EXCEPT ![k] = contents[h], ![h] = <<>>]
  /\ UNCHANGED <<caller, dropped>>

Insert(h, i) ==
  /\ h \in live
  /\ i \in 0 .. Len(contents[h])
  /\ \E e \in caller :
       /\ contents' = [contents EXCEPT ![h] = InsertAt(contents[h], i + 1, e)]
       /\ caller' = caller \ {e}
  /\ UNCHANGED <<live, dropped>>

Push(h) == Insert(h, Len(contents[h]))

(* Item i goes to the program and left is what stays.                      *)
Take(h, i, left) ==
  /\ h \in live
  /\ i \in 0 .. Len(contents[h]) - 1
  /\ contents' = [contents EXCEPT ![h] = left]
  /\ caller' = caller \cup {contents[h][i + 1]}
  /\ UNCHANGED <<live, dropped>>

RemoveItem(h, i) == Take(h, i, RemoveAt(contents[h], i + 1))

Pop(h) == RemoveItem(h, Len(contents[h]) - 1)

(* The last item takes the place of item i.                                *)
SwapRemove(h, i) ==
  Take(h, i, Front(ReplaceAt(contents[h], i + 1, Last(contents[h]))))

Truncate(h, n) ==
  /\ h \in live
  /\ n \in 0 .. Len(contents[h])
  /\ contents' = [contents EXCEPT ![h] = SubSeq(contents[h], 1, n)]
  /\ dropped' = dropped \cup ToSet(SubSeq(contents[h], n + 1, Len(contents[h])))
  /\ UNCHANGED <<live, caller>>

(* Vec::append.                                                            *)
Concat(h, k) ==
  /\ {h, k} \subseteq live
  /\ h # k
  /\ contents' = [contents EXCEPT ![h] = contents[h] \o contents[k], ![k] = <<>>]
  /\ UNCHANGED <<live, caller, dropped>>

SplitOff(h, k, n) ==
  /\ h \in live
  /\ k \notin live
  /\ n \in 0 .. Len(contents[h])
  /\ live' = live \cup {k}
  /\ contents' = [contents EXCEPT ![h] = SubSeq(contents[h], 1, n),
                                  ![k] = SubSeq(contents[h], n + 1, Len(contents[h]))]
  /\ UNCHANGED <<caller, dropped>>

End(h) ==
  /\ h \in live
  /\ live' = live \ {h}
  /\ contents' = [contents EXCEPT ![h] = <<>>]

(* The vector ends: its elements go to the program, or are dropped.        *)
GiveBack(h) == End(h) /\ caller' = caller \cup ToSet(contents[h]) /\ UNCHANGED dropped
Drop(h)     == End(h) /\ dropped' = dropped \cup ToSet(contents[h]) /\ UNCHANGED caller

Next ==
  \/ \E n \in 0 .. Cardinality(caller) :
       Reject(n) \/ \E h \in Handles, k \in 0 .. n : Create(h, n, k)
  \/ \E h \in Handles :
       \/ GiveBack(h) \/ Drop(h)
       \/ \E i \in 0 .. Len(contents[h]) :
            \/ Insert(h, i) \/ RemoveItem(h, i) \/ SwapRemove(h, i) \/ Truncate(h, i)
            \/ \E k \in Handles : SplitOff(h, k, i)
       \/ \E k \in Handles : Convert(h, k) \/ Concat(h, k)

Spec == Init /\ [][Next]_vars
=============================================================================
