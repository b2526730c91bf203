------------------------- MODULE RefinementProofs -------------------------
(***************************************************************************)
(* SmallVec implements VecSpec call by call, for all constants.            *)
(* OwnershipProofs says of every call what it does to the items of the     *)
(* vectors, wherever their buffers are.  Here the cells of a vector below  *)
(* its length are read as a sequence, and each of these effects is seen to *)
(* be what the call's namesake in VecSpec does to its sequences.           *)
(***************************************************************************)
EXTENDS SmallVecRefinement, OwnershipProofs, SequenceTheorems, FiniteSetTheorems

----------------------------------------------------------------------------
(* Cells as a sequence.                                                    *)

ListOf(cells, n) == [i \in 1 .. n |-> cells[i - 1]]

Full(cells, n) == \A i \in 0 .. n - 1 : cells[i] \in Elems

(* A list of elements is a sequence of them.                               *)
LEMMA ListIs ==
  ASSUME NEW cells, NEW n \in Nat, Full(cells, n)
  PROVE  /\ ListOf(cells, n) \in Seq(Elems) /\ Len(ListOf(cells, n)) = n
         /\ \A i \in 1 .. n : ListOf(cells, n)[i] = cells[i - 1]
<1>1. ListOf(cells, n) \in [1 .. n -> Elems]
  BY DEF ListOf, Full
<1>2. ListOf(cells, n) \in Seq(Elems)
  BY <1>1, SeqDef
<1>3. Len(ListOf(cells, n)) = n
  BY <1>2, LenProperties DEF ListOf
<1> QED BY <1>2, <1>3 DEF ListOf

(* It is the only one with these items.                                    *)
LEMMA SameList ==
  ASSUME NEW cells, NEW n \in Nat, Full(cells, n),
         NEW t \in Seq(Elems), Len(t) = n, \A i \in 1 .. n : t[i] = cells[i - 1]
  PROVE  ListOf(cells, n) = t
BY ListIs, SeqEqual

(* A part of a sequence.                                                   *)
LEMMA Part ==
  ASSUME NEW s \in Seq(Elems), NEW from \in Nat, NEW to \in Nat, to <= Len(s), from <= to
  PROVE  /\ SubSeq(s, from + 1, to) \in Seq(Elems) /\ Len(SubSeq(s, from + 1, to)) = to - from
         /\ \A i \in 1 .. to - from : SubSeq(s, from + 1, to)[i] = s[from + i]
<1> DEFINE a == from + 1
<1>1. a \in Int /\ to \in Int /\ \A i \in a .. to : s[i] \in Elems
  <2> SUFFICES ASSUME NEW i \in a .. to PROVE s[i] \in Elems
    OBVIOUS
  <2>1. i \in 1 .. Len(s)
    BY LenProperties
  <2> QED BY <2>1, ElementOfSeq
<1>2. (IF a <= to THEN to - a + 1 ELSE 0) = to - from /\ to - a + 1 = to - from
      /\ \A i \in 1 .. to - from : a + i - 1 = from + i
  OBVIOUS
<1> HIDE DEF a
<1>3. /\ SubSeq(s, a, to) \in Seq(Elems)
      /\ Len(SubSeq(s, a, to)) = (IF a <= to THEN to - a + 1 ELSE 0)
      /\ \A i \in 1 .. to - a + 1 : SubSeq(s, a, to)[i] = s[a + i - 1]
  BY <1>1, SubSeqProperties
<1> QED BY <1>2, <1>3 DEF a

(* low holds the m cells from from on.                                     *)
PartOf(low, cells, from, m) == \A i \in 0 .. m - 1 : low[i] = cells[i + from]

Section(s, from, to) == SubSeq(s, from + 1, to)

(* The list of a part is that part of the list.                            *)
LEMMA ListCut ==
  ASSUME NEW cells, NEW n \in Nat, Full(cells, n),
         NEW from \in Nat, NEW to \in Nat, from <= to, to <= n,
         NEW low, NEW m, m = to - from, PartOf(low, cells, from, m)
  PROVE  ListOf(low, m) = Section(ListOf(cells, n), from, to)
<1> DEFINE s == ListOf(cells, n)
           t == SubSeq(s, from + 1, to)
<1>1. s \in Seq(Elems) /\ Len(s) = n /\ \A i \in 1 .. n : s[i] = cells[i - 1]
  BY ListIs
<1> HIDE DEF s
<1>2. t \in Seq(Elems) /\ Len(t) = m /\ \A i \in 1 .. m : t[i] = s[from + i]
  BY <1>1, Part
<1> HIDE DEF t
<1>3. m \in Nat /\ \A i \in 0 .. m - 1 : i + from \in 0 .. n - 1
  OBVIOUS
<1>4. Full(low, m)
  BY <1>3 DEF Full, PartOf
<1>5. \A i \in 1 .. m : t[i] = low[i - 1]
  <2> SUFFICES ASSUME NEW i \in 1 .. m PROVE t[i] = low[i - 1]
    OBVIOUS
  <2>1. i - 1 \in 0 .. m - 1 /\ i - 1 + from = from + i - 1 /\ from + i \in 1 .. n
    OBVIOUS
  <2>2. low[i - 1] = cells[i - 1 + from]
    BY <2>1 DEF PartOf
  <2>3. t[i] = s[from + i] /\ s[from + i] = cells[from + i - 1]
    BY <1>1, <1>2, <2>1
  <2> QED BY <2>1, <2>2, <2>3
<1>6. ListOf(low, m) = t
  BY <1>2, <1>3, <1>4, <1>5, SameList
<1> QED BY <1>6 DEF t, s, Section

(* Items laid behind others.                                               *)
LEMMA ListJoin ==
  ASSUME NEW a, NEW n \in Nat, Full(a, n), NEW b, NEW m \in Nat, Full(b, m),
         NEW cells, NEW l, l = n + m,
         \A i \in 0 .. l - 1 : cells[i] = IF i < n THEN a[i] ELSE b[i - n]
  PROVE  ListOf(cells, l) = ListOf(a, n) \o ListOf(b, m)
<1> DEFINE s == ListOf(a, n)
           u == ListOf(b, m)
           t == s \o u
<1>1. /\ s \in Seq(Elems) /\ Len(s) = n /\ \A i \in 1 .. n : s[i] = a[i - 1]
      /\ u \in Seq(Elems) /\ Len(u) = m /\ \A i \in 1 .. m : u[i] = b[i - 1]
  BY ListIs
<1> HIDE DEF s, u
<1>2. /\ t \in Seq(Elems) /\ Len(t) = l
      /\ \A i \in 1 .. l : t[i] = IF i <= n THEN s[i] ELSE u[i - n]
  <2>1. /\ t \in Seq(Elems) /\ Len(t) = Len(s) + Len(u)
        /\ \A i \in 1 .. Len(s) + Len(u) : t[i] = IF i <= Len(s) THEN s[i] ELSE u[i - Len(s)]
    BY <1>1, ConcatProperties
  <2> QED BY <1>1, <2>1
<1> HIDE DEF t
<1>3. Full(cells, l)
  <2> SUFFICES ASSUME NEW i \in 0 .. l - 1 PROVE cells[i] \in Elems
    BY DEF Full
  <2>1. (i < n => i \in 0 .. n - 1) /\ (~(i < n) => i - n \in 0 .. m - 1)
    OBVIOUS
  <2> QED BY <2>1 DEF Full
<1>4. \A i \in 1 .. l : t[i] = cells[i - 1]
  <2> SUFFICES ASSUME NEW i \in 1 .. l PROVE t[i] = cells[i - 1]
    OBVIOUS
  <2>1. i - 1 \in 0 .. l - 1 /\ (i <= n <=> i - 1 < n) /\ (i <= n => i \in 1 .. n)
        /\ (~(i <= n) => i - n \in 1 .. m /\ i - n - 1 = i - 1 - n)
    OBVIOUS
  <2> QED BY <1>1, <1>2, <2>1
<1>5. ListOf(cells, l) = t
  <2>1. l \in Nat /\ t \in Seq(Elems) /\ Len(t) = l
    BY <1>2
  <2> QED BY <1>3, <1>4, <2>1, SameList
<1> QED BY <1>5 DEF t, s, u

(* e enters at i.                                                          *)
LEMMA ListInsert ==
  ASSUME NEW src, NEW n \in Nat, Full(src, n), NEW i \in 0 .. n, NEW e \in Elems,
         NEW cells, NEW m, m = n + 1,
         \A j \in 0 .. n : cells[j] = IF j < i THEN src[j] ELSE IF j = i THEN e ELSE src[j - 1]
  PROVE  ListOf(cells, m) = Vec!InsertAt(ListOf(src, n), i + 1, e)
<1> DEFINE s == ListOf(src, n)
           low == SubSeq(s, 1, i)
           high == SubSeq(s, i + 1, n)
           up == low \o <<e>>
           t == up \o high
<1>1. s \in Seq(Elems) /\ Len(s) = n /\ \A j \in 1 .. n : s[j] = src[j - 1]
  BY ListIs
<1> HIDE DEF s
<1>2. /\ low \in Seq(Elems) /\ Len(low) = i /\ \A j \in 1 .. i : low[j] = s[j]
      /\ high \in Seq(Elems) /\ Len(high) = n - i /\ \A j \in 1 .. n - i : high[j] = s[i + j]
  <2> DEFINE zero == 0
  <2>1. zero \in Nat /\ zero + 1 = 1 /\ i - zero = i /\ zero <= i /\ i <= Len(s) /\ i \in Nat
        /\ n <= Len(s) /\ i <= n /\ \A j \in 1 .. i : zero + j = j
    BY <1>1
  <2> HIDE DEF zero
  <2>2. /\ SubSeq(s, zero + 1, i) \in Seq(Elems) /\ Len(SubSeq(s, zero + 1, i)) = i - zero
         /\ \A j \in 1 .. i - zero : SubSeq(s, zero + 1, i)[j] = s[zero + j]
    BY <1>1, <2>1, Part
  <2>3. /\ SubSeq(s, i + 1, n) \in Seq(Elems) /\ Len(SubSeq(s, i + 1, n)) = n - i
         /\ \A j \in 1 .. n - i : SubSeq(s, i + 1, n)[j] = s[i + j]
    BY <1>1, <2>1, Part
  <2> QED BY <2>1, <2>2, <2>3
<1>3. Vec!InsertAt(s, i + 1, e) = t
  <2>1. i + 1 - 1 = i /\ Len(s) = n
    BY <1>1
  <2> QED BY <2>1 DEF Vec!InsertAt
<1> HIDE DEF low, high
<1>4. /\ up \in Seq(Elems) /\ Len(up) = i + 1
      /\ \A j \in 1 .. i + 1 : up[j] = IF j <= i THEN low[j] ELSE e
  <2>1. <<e>> \in Seq(Elems) /\ Len(<<e>>) = 1 /\ <<e>>[1] = e
    OBVIOUS
  <2>2. \A j \in 1 .. i + 1 : j <= i \/ j - i = 1
    OBVIOUS
  <2> QED BY <1>2, <2>1, <2>2, ConcatProperties
<1> HIDE DEF up
<1>5. /\ t \in Seq(Elems) /\ Len(t) = m
      /\ \A j \in 1 .. m : t[j] = IF j <= i + 1 THEN up[j] ELSE high[j - (i + 1)]
  <2>1. up \in Seq(Elems) /\ high \in Seq(Elems)
    BY <1>2, <1>4
  <2>2. /\ t \in Seq(Elems) /\ Len(t) = Len(up) + Len(high)
        /\ \A j \in 1 .. Len(up) + Len(high) : t[j] = IF j <= Len(up) THEN up[j] ELSE high[j - Len(up)]
    BY <2>1, ConcatProperties
  <2>3. Len(up) = i + 1 /\ Len(up) + Len(high) = m
    BY <1>2, <1>4
  <2> HIDE DEF t
  <2> QED BY <2>2, <2>3
<1> HIDE DEF t
<1>6. Full(cells, m)
  <2> SUFFICES ASSUME NEW j \in 0 .. m - 1 PROVE cells[j] \in Elems
    BY DEF Full
  <2>1. j \in 0 .. n /\ (j < i => j \in 0 .. n - 1) /\ (j > i => j - 1 \in 0 .. n - 1)
        /\ (j < i \/ j = i \/ j > i)
    OBVIOUS
  <2> QED BY <2>1 DEF Full
<1>7. \A j \in 1 .. m : t[j] = cells[j - 1]
  <2> SUFFICES ASSUME NEW j \in 1 .. m PROVE t[j] = cells[j - 1]
    OBVIOUS
  <2>1. CASE j <= i
    <3>1. j \in 1 .. i + 1 /\ j \in 1 .. i /\ j \in 1 .. n /\ j - 1 \in 0 .. n /\ j - 1 < i /\ j <= i + 1
      BY <2>1
    <3>2. t[j] = up[j] /\ up[j] = low[j] /\ low[j] = s[j] /\ s[j] = src[j - 1]
      BY <1>1, <1>2, <1>4, <1>5, <2>1, <3>1
    <3>3. cells[j - 1] = src[j - 1]
      BY <3>1
    <3> QED BY <3>2, <3>3
  <2>2. CASE j = i + 1
    <3>1. j \in 1 .. i + 1 /\ ~(j <= i) /\ j <= i + 1 /\ j - 1 \in 0 .. n /\ ~(j - 1 < i) /\ j - 1 = i
      BY <2>2
    <3>2. t[j] = up[j] /\ up[j] = e
      BY <1>4, <1>5, <3>1
    <3>3. cells[j - 1] = e
      BY <3>1
    <3> QED BY <3>2, <3>3
  <2>3. CASE j > i + 1
    <3>1. /\ j - (i + 1) \in 1 .. n - i /\ ~(j <= i + 1) /\ j - 1 \in 0 .. n /\ ~(j - 1 < i) /\ j - 1 # i
          /\ i + (j - (i + 1)) = j - 1 /\ j - 1 \in 1 .. n
      BY <2>3
    <3>2. t[j] = high[j - (i + 1)] /\ high[j - (i + 1)] = s[j - 1] /\ s[j - 1] = src[j - 1 - 1]
      BY <1>1, <1>2, <1>5, <3>1
    <3> QED BY <3>1, <3>2
  <2> QED BY <2>1, <2>2, <2>3
<1>8. m \in Nat
  OBVIOUS
<1>9. ListOf(cells, m) = t
  BY <1>5, <1>6, <1>7, <1>8, SameList
<1> QED BY <1>3, <1>9 DEF s

(* Item i leaves and the ones behind it close up.                          *)
LEMMA ListRemove ==
  ASSUME NEW src, NEW n \in Nat, Full(src, n), NEW i \in 0 .. n - 1,
         NEW cells, NEW m, m = n - 1,
         \A j \in 0 .. n - 2 : cells[j] = IF j < i THEN src[j] ELSE src[j + 1]
  PROVE  ListOf(cells, m) = Vec!RemoveAt(ListOf(src, n), i + 1)
<1> DEFINE s == ListOf(src, n)
           low == SubSeq(s, 1, i)
           high == SubSeq(s, i + 2, n)
           t == low \o high
<1>1. s \in Seq(Elems) /\ Len(s) = n /\ \A j \in 1 .. n : s[j] = src[j - 1]
  BY ListIs
<1> HIDE DEF s
<1>2. /\ low \in Seq(Elems) /\ Len(low) = i /\ \A j \in 1 .. i : low[j] = s[j]
      /\ high \in Seq(Elems) /\ Len(high) = m - i /\ \A j \in 1 .. m - i : high[j] = s[i + 1 + j]
  <2> DEFINE zero == 0
             up == i + 1
  <2>1. /\ zero \in Nat /\ zero + 1 = 1 /\ i - zero = i /\ zero <= i /\ i <= Len(s) /\ i \in Nat
        /\ \A j \in 1 .. i : zero + j = j
    BY <1>1
  <2>2. /\ up \in Nat /\ n <= Len(s) /\ up <= n /\ n - up = m - i /\ up + 1 = i + 2 /\ up = i + 1
    BY <1>1
  <2> HIDE DEF zero, up
  <2>3. /\ SubSeq(s, zero + 1, i) \in Seq(Elems) /\ Len(SubSeq(s, zero + 1, i)) = i - zero
         /\ \A j \in 1 .. i - zero : SubSeq(s, zero + 1, i)[j] = s[zero + j]
    BY <1>1, <2>1, Part
  <2>4. /\ SubSeq(s, up + 1, n) \in Seq(Elems) /\ Len(SubSeq(s, up + 1, n)) = n - up
         /\ \A j \in 1 .. n - up : SubSeq(s, up + 1, n)[j] = s[up + j]
    BY <1>1, <2>2, Part
  <2> QED BY <2>1, <2>2, <2>3, <2>4
<1>3. Vec!RemoveAt(s, i + 1) = t
  <2>1. i + 1 - 1 = i /\ Len(s) = n /\ i + 1 + 1 = i + 2
    BY <1>1
  <2> QED BY <2>1 DEF Vec!RemoveAt
<1> HIDE DEF low, high
<1>4. t \in Seq(Elems) /\ Len(t) = m /\ \A j \in 1 .. m : t[j] = IF j <= i THEN low[j] ELSE high[j - i]
  <2>1. /\ t \in Seq(Elems) /\ Len(t) = Len(low) + Len(high)
        /\ \A j \in 1 .. Len(low) + Len(high) : t[j] = IF j <= Len(low) THEN low[j] ELSE high[j - Len(low)]
    <3>1. low \in Seq(Elems) /\ high \in Seq(Elems)
      BY <1>2
    <3> QED BY <3>1, ConcatProperties
  <2>2. i + (m - i) = m
    OBVIOUS
  <2> HIDE DEF t
  <2> QED BY <1>2, <2>1, <2>2
<1> HIDE DEF t
<1>5. \A j \in 1 .. m : t[j] = cells[j - 1]
  <2> SUFFICES ASSUME NEW j \in 1 .. m PROVE t[j] = cells[j - 1]
    OBVIOUS
  <2>1. CASE j <= i
    <3>1. j \in 1 .. i /\ j \in 1 .. n /\ j - 1 \in 0 .. n - 2 /\ j - 1 < i
      BY <2>1
    <3>2. t[j] = low[j] /\ low[j] = s[j] /\ s[j] = src[j - 1]
      BY <1>1, <1>2, <1>4, <2>1, <3>1
    <3>3. cells[j - 1] = src[j - 1]
      BY <3>1
    <3> QED BY <3>2, <3>3
  <2>2. CASE ~(j <= i)
    <3>1. /\ j - i \in 1 .. m - i /\ j - 1 \in 0 .. n - 2 /\ ~(j - 1 < i)
          /\ i + 1 + (j - i) = j + 1 /\ j + 1 \in 1 .. n /\ j + 1 - 1 = j - 1 + 1
      BY <2>2
    <3>2. t[j] = high[j - i] /\ high[j - i] = s[j + 1] /\ s[j + 1] = src[j + 1 - 1]
      BY <1>1, <1>2, <1>4, <2>2, <3>1
    <3>3. cells[j - 1] = src[j - 1 + 1]
      BY <3>1
    <3> QED BY <3>1, <3>2, <3>3
  <2> QED BY <2>1, <2>2
<1>6. m \in Nat /\ Full(cells, m)
  <2> SUFFICES ASSUME NEW j \in 0 .. m - 1 PROVE cells[j] \in Elems
    BY DEF Full
  <2>1. j \in 0 .. n - 2 /\ j \in 0 .. n - 1 /\ j + 1 \in 0 .. n - 1
    OBVIOUS
  <2> QED BY <2>1 DEF Full
<1>7. ListOf(cells, m) = t
  BY <1>4, <1>5, <1>6, SameList
<1> QED BY <1>3, <1>7 DEF s

(* Item i leaves and the last one takes its place.                         *)
LEMMA ListSwap ==
  ASSUME NEW src, NEW n \in Nat, Full(src, n), NEW i \in 0 .. n - 1,
         NEW cells, NEW m, m = n - 1,
         \A j \in 0 .. n - 2 : cells[j] = IF j = i THEN src[n - 1] ELSE src[j]
  PROVE  LET s == ListOf(src, n)
         IN  ListOf(cells, m) = Vec!Front(Vec!ReplaceAt(s, i + 1, Vec!Last(s)))
<1> DEFINE s == ListOf(src, n)
           x == s[n]
           u == [s EXCEPT ![i + 1] = x]
           t == SubSeq(u, 1, m)
<1>1. s \in Seq(Elems) /\ Len(s) = n /\ \A j \in 1 .. n : s[j] = src[j - 1]
  BY ListIs
<1> HIDE DEF s
<1>2. x \in Elems /\ x = src[n - 1] /\ i + 1 \in 1 .. n
  <2>1. n \in 1 .. n /\ n - 1 \in 0 .. n - 1
    OBVIOUS
  <2> QED BY <1>1, <2>1 DEF Full
<1> HIDE DEF x
<1>3. u \in Seq(Elems) /\ Len(u) = n /\ \A j \in 1 .. n : u[j] = IF j = i + 1 THEN x ELSE s[j]
  BY <1>1, <1>2, ExceptSeq
<1>4. Vec!Front(Vec!ReplaceAt(s, i + 1, Vec!Last(s))) = t
  BY <1>1, <1>3 DEF Vec!Front, Vec!ReplaceAt, Vec!Last, x
<1> HIDE DEF u
<1>5. t \in Seq(Elems) /\ Len(t) = m /\ \A j \in 1 .. m : t[j] = u[j]
  <2> DEFINE zero == 0
  <2>1. /\ zero \in Nat /\ zero + 1 = 1 /\ m - zero = m /\ zero <= m /\ m <= Len(u) /\ m \in Nat
        /\ \A j \in 1 .. m : zero + j = j
    BY <1>3
  <2> HIDE DEF zero
  <2>3. /\ SubSeq(u, zero + 1, m) \in Seq(Elems) /\ Len(SubSeq(u, zero + 1, m)) = m - zero
         /\ \A j \in 1 .. m - zero : SubSeq(u, zero + 1, m)[j] = u[zero + j]
    BY <1>3, <2>1, Part
  <2> QED BY <2>1, <2>3
<1> HIDE DEF t
<1>6. \A j \in 1 .. m : t[j] = cells[j - 1] /\ j - 1 \in 0 .. n - 2
  <2> SUFFICES ASSUME NEW j \in 1 .. m PROVE t[j] = cells[j - 1] /\ j - 1 \in 0 .. n - 2
    OBVIOUS
  <2>1. j \in 1 .. n /\ j - 1 \in 0 .. n - 2 /\ (j = i + 1 <=> j - 1 = i)
    OBVIOUS
  <2>2. t[j] = u[j] /\ u[j] = (IF j = i + 1 THEN x ELSE s[j]) /\ s[j] = src[j - 1]
    BY <1>1, <1>3, <1>5, <2>1
  <2>3. cells[j - 1] = IF j - 1 = i THEN src[n - 1] ELSE src[j - 1]
    BY <2>1
  <2> QED BY <1>2, <2>1, <2>2, <2>3
<1>7. m \in Nat /\ Full(cells, m)
  <2> SUFFICES ASSUME NEW j \in 0 .. m - 1 PROVE cells[j] \in Elems
    BY DEF Full
  <2>1. j \in 0 .. n - 2 /\ j \in 0 .. n - 1 /\ n - 1 \in 0 .. n - 1
    OBVIOUS
  <2> QED BY <2>1 DEF Full
<1>8. ListOf(cells, m) = t
  BY <1>5, <1>6, <1>7, SameList
<1> QED BY <1>4, <1>8 DEF s

(* What is in a sequence.                                                  *)
LEMMA ListSet ==
  ASSUME NEW cells, NEW n \in Nat, Full(cells, n)
  PROVE  Vec!ToSet(ListOf(cells, n)) = ItemsOf(cells, n)
<1>1. DOMAIN ListOf(cells, n) = 1 .. n /\ \A i \in 1 .. n : ListOf(cells, n)[i] = cells[i - 1]
  BY DEF ListOf
<1> HIDE DEF ListOf
<1>2. ASSUME NEW i \in 0 .. n - 1 PROVE i + 1 \in 1 .. n /\ i + 1 - 1 = i
  OBVIOUS
<1>3. ASSUME NEW i \in 1 .. n PROVE i - 1 \in 0 .. n - 1
  OBVIOUS
<1>4. ASSUME NEW x \in ItemsOf(cells, n) PROVE x \in Vec!ToSet(ListOf(cells, n))
  <2>1. PICK i \in 0 .. n - 1 : x = cells[i]
    BY DEF ItemsOf
  <2>2. x = ListOf(cells, n)[i + 1]
    BY <1>1, <1>2, <2>1
  <2> QED BY <1>1, <1>2, <2>2 DEF Vec!ToSet
<1>5. ASSUME NEW x \in Vec!ToSet(ListOf(cells, n)) PROVE x \in ItemsOf(cells, n)
  BY <1>1, <1>3 DEF Vec!ToSet, ItemsOf
<1> QED BY <1>4, <1>5

(* What a cut leaves out.                                                  *)
LEMMA TailSet ==
  ASSUME NEW cells, NEW n \in Nat, Full(cells, n), NEW k \in Nat, k <= n
  PROVE  Vec!ToSet(SubSeq(ListOf(cells, n), k + 1, n)) = ItemsFrom(cells, k, n)
<1> DEFINE high == [i \in 0 .. n - k - 1 |-> cells[i + k]]
           m == n - k
<1>1. (\A i \in 0 .. m - 1 : high[i] = cells[i + k]) /\ \A i \in 0 .. m - 1 : i + k \in 0 .. n - 1
  OBVIOUS
<1>2. m \in Nat /\ m = n - k /\ n <= n
  OBVIOUS
<1> HIDE DEF high, m
<1>3. ListOf(high, m) = SubSeq(ListOf(cells, n), k + 1, n)
  <2>1. PartOf(high, cells, k, m) /\ k <= n /\ n <= n /\ m = n - k
    BY <1>1, <1>2 DEF PartOf
  <2>2. ListOf(high, m) = Section(ListOf(cells, n), k, n)
    BY <2>1, ListCut, SMT
  <2> QED BY <2>2 DEF Section
<1>4. Full(high, m)
  BY <1>1 DEF Full
<1>5. Vec!ToSet(ListOf(high, m)) = ItemsOf(high, m)
  BY <1>2, <1>4, ListSet
<1>6. ItemsOf(high, m) = ItemsFrom(cells, k, n)
  <2>1. \A j \in k .. n - 1 : j - k \in 0 .. m - 1 /\ j - k + k = j
    BY <1>2
  <2>2. \A i \in 0 .. m - 1 : i + k \in k .. n - 1
    BY <1>2
  <2>3. ASSUME NEW x \in ItemsOf(high, m) PROVE x \in ItemsFrom(cells, k, n)
    BY <1>1, <2>2 DEF ItemsOf, ItemsFrom
  <2>4. ASSUME NEW x \in ItemsFrom(cells, k, n) PROVE x \in ItemsOf(high, m)
    <3>1. PICK j \in k .. n - 1 : x = cells[j]
      BY DEF ItemsFrom
    <3>2. j - k \in 0 .. m - 1 /\ x = high[j - k]
      BY <1>1, <2>1, <3>1
    <3> QED BY <3>2 DEF ItemsOf
  <2> QED BY <2>3, <2>4
<1> QED BY <1>3, <1>5, <1>6

----------------------------------------------------------------------------
(* The sequence of a vector, before and after a call.                      *)

Listed(s, h) == ListOf(Cells(s, h), LenOf(s, h))

(* A dead handle's sequence is empty, as is that of a live empty vector.   *)
LEMMA ListedIs ==
  ASSUME NEW s, Sound(s), NEW h \in Handles
  PROVE  /\ LenOf(s, h) \in Nat /\ Full(Cells(s, h), LenOf(s, h))
         /\ Listed(s, h) \in Seq(Elems) /\ Len(Listed(s, h)) = LenOf(s, h)
         /\ \A i \in 1 .. LenOf(s, h) : Listed(s, h)[i] = Item(s, h, i - 1)
<1>1. LenOf(s, h) \in Nat /\ Full(Cells(s, h), LenOf(s, h))
  BY SoundLen, RawAssumption DEF Sound, Initialised, Item, Full
<1> QED BY <1>1, ListIs DEF Listed, Item

(* The refinement mapping, for a live vector and for a dead handle.        *)
LEMMA SequencesList ==
  ASSUME NEW s, Sound(s), NEW l, DeadEmpty(s, l), NEW h \in Handles
  PROVE  (IF h \in l THEN [i \in 1 .. LenOf(s, h) |-> Item(s, h, i - 1)] ELSE <<>>) = Listed(s, h)
<1>1. CASE h \in l
  BY <1>1 DEF Listed, ListOf, Item
<1>2. CASE h \notin l
  <2>1. LenOf(s, h) = 0 /\ Listed(s, h) \in Seq(Elems) /\ Len(Listed(s, h)) = 0
    BY <1>2, ListedIs DEF DeadEmpty
  <2> QED BY <1>2, <2>1, EmptySeq
<1> QED BY <1>1, <1>2

(* A vector that holds the same items, in whatever buffer.                 *)
LEMMA SameListed ==
  ASSUME NEW s, Sound(s), NEW h \in Handles, NEW g, Sound(g), NEW k \in Handles, SameItems(s, h, g, k)
  PROVE  Listed(g, k) = Listed(s, h)
<1>1. /\ Listed(s, h) \in Seq(Elems) /\ Len(Listed(s, h)) = LenOf(g, k) /\ LenOf(g, k) \in Nat
      /\ Full(Cells(g, k), LenOf(g, k))
      /\ \A i \in 1 .. LenOf(g, k) : Listed(s, h)[i] = Cells(g, k)[i - 1]
  <2>1. \A i \in 1 .. LenOf(g, k) : i - 1 \in 0 .. LenOf(g, k) - 1
    BY ListedIs
  <2> QED BY <2>1, ListedIs DEF SameItems, Item
<1> QED BY <1>1, SameList DEF Listed

(* A step between two states of the program.                               *)
Between ==
  /\ Sound(store) /\ DeadEmpty(store, live) /\ live \subseteq Handles
  /\ caller \subseteq Elems
  /\ Sound(store') /\ DeadEmpty(store', live')

(* The sequences of VecSpec are functions on the handles.                  *)
LEMMA SequencesBetween ==
  ASSUME Between
  PROVE  /\ \A h \in Handles : Sequences[h] = Listed(store, h) /\ Sequences'[h] = Listed(store', h)
         /\ Sequences = [h \in Handles |-> Sequences[h]]
         /\ Sequences' = [h \in Handles |-> Sequences'[h]]
  BY SequencesList DEF Between, Sequences

(* One vector changes.                                                     *)
LEMMA OneList ==
  ASSUME Between, NEW h \in Handles, OthersKeep(h), NEW x, Listed(store', h) = x
  PROVE  Sequences' = [Sequences EXCEPT ![h] = x]
<1>1. ASSUME NEW k \in Handles
      PROVE  Sequences'[k] = [Sequences EXCEPT ![h] = x][k]
  BY SequencesBetween, SameListed DEF Between, OthersKeep
<1>2. DOMAIN Sequences = Handles
  BY DEF Sequences
<1> QED BY <1>1, <1>2, SequencesBetween

(* Two vectors change.                                                     *)
LEMMA TwoLists ==
  ASSUME Between, NEW h \in Handles, NEW k \in Handles, h # k,
         \A a \in Handles \ {h, k} : SameItems(store, a, store', a),
         NEW x, Listed(store', h) = x, NEW y, Listed(store', k) = y
  PROVE  Sequences' = [Sequences EXCEPT ![h] = x, ![k] = y]
<1>1. ASSUME NEW a \in Handles
      PROVE  Sequences'[a] = [Sequences EXCEPT ![h] = x, ![k] = y][a]
  BY SequencesBetween, SameListed DEF Between
<1>2. DOMAIN Sequences = Handles
  BY DEF Sequences
<1> QED BY <1>1, <1>2, SequencesBetween
----------------------------------------------------------------------------
(* Each effect is a step of the abstract vector.                           *)

(* A sequence of k distinct elements of the program is no longer than      *)
(* what the program holds.                                                 *)
LEMMA ArraysFit ==
  ASSUME caller \subseteq Elems, NEW k \in Nat, NEW f \in Arrays(k)
  PROVE  k \in 0 .. Vec!Cardinality(caller) /\ ListOf(f, k) \in Vec!Fresh(k)
<1> DEFINE s == ListOf(f, k)
<1>1. \A i, j \in 0 .. k - 1 : f[i] = f[j] => i = j
  BY DEF Arrays
<1>2. s \in [1 .. k -> caller] /\ \A i \in 1 .. k : s[i] = f[i - 1]
  <2>1. \A i \in 1 .. k : i - 1 \in 0 .. k - 1 /\ f[i - 1] \in caller
    BY DEF Arrays
  <2> QED BY <2>1 DEF ListOf
<1> HIDE DEF s
<1>3. \A i, j \in 1 .. k : s[i] = s[j] => i = j
  <2> SUFFICES ASSUME NEW i \in 1 .. k, NEW j \in 1 .. k, s[i] = s[j] PROVE i = j
    OBVIOUS
  <2>1. i - 1 \in 0 .. k - 1 /\ j - 1 \in 0 .. k - 1
    OBVIOUS
  <2>2. f[i - 1] = f[j - 1]
    BY <1>2
  <2>3. i - 1 = j - 1
    BY <1>1, <2>1, <2>2
  <2> QED BY <2>3
<1>4. DOMAIN s = 1 .. k
  BY <1>2
<1>5. s \in Vec!Fresh(k)
  BY <1>2, <1>3, <1>4 DEF Vec!Fresh, Vec!IsInjective
<1>6. s \in Injection(1 .. k, caller)
  BY <1>2, <1>3, <1>4 DEF Injection, IsInjective
<1>7. IsFiniteSet(caller) /\ IsFiniteSet(1 .. k) /\ Cardinality(1 .. k) = k
  <2>1. 1 \in Int /\ k \in Int
    OBVIOUS
  <2>2. IsFiniteSet(1 .. k) /\ Cardinality(1 .. k) = IF 1 > k THEN 0 ELSE k - 1 + 1
    BY <2>1, FS_Interval
  <2> QED BY <2>2, ElemsFinite, FS_Subset
<1>8. k <= Cardinality(caller) /\ Cardinality(caller) \in Nat
  <2>1. Cardinality(1 .. k) <= Cardinality(caller)
    BY <1>6, <1>7, FS_Injection
  <2> QED BY <1>7, <2>1, FS_CardinalityType
<1>9. Vec!Cardinality(caller) = Cardinality(caller)
  BY DEF Vec!Cardinality, Cardinality
<1> QED BY <1>5, <1>8, <1>9 DEF s

(* A vector is made of the first n of k elements.                          *)
LEMMA MadeCreates ==
  ASSUME Between, NEW h \in Handles, NEW n \in Nat, NEW k \in Nat, NEW f, Made(h, n, k, f)
  PROVE  Vec!Create(h, k, n) /\ k \in 0 .. Vec!Cardinality(caller) /\ n \in 0 .. k
<1> DEFINE s == ListOf(f, k)
           low == Cells(store', h)
<1>1. /\ n <= k /\ f \in Arrays(k) /\ h \notin live /\ live' = live \cup {h}
      /\ LenOf(store', h) = n /\ (\A i \in 0 .. n - 1 : low[i] = f[i]) /\ OthersKeep(h)
      /\ caller' = caller \ Taken(f, k) /\ dropped' = dropped \cup {f[i] : i \in n .. k - 1}
      /\ caller \subseteq Elems
  BY DEF Between, Made, Leaves, Item
<1>2. k \in 0 .. Vec!Cardinality(caller) /\ s \in Vec!Fresh(k)
  BY <1>1, ArraysFit
<1>3. Full(f, k)
  BY <1>1 DEF Arrays, Full
<1> DEFINE zero == 0
<1>4. Listed(store', h) = Section(s, zero, n)
  <2>1. \A i \in 0 .. n - 1 : i + zero = i
    OBVIOUS
  <2>2. zero \in Nat /\ zero <= n /\ n = n - zero
    OBVIOUS
  <2> HIDE DEF zero, low
  <2>3. PartOf(low, f, zero, n)
    BY <1>1, <2>1 DEF PartOf
  <2>4. ListOf(low, n) = Section(s, zero, n)
    BY <1>1, <1>3, <2>2, <2>3, ListCut, SMT
  <2> QED BY <1>1, <2>4 DEF Listed, low
<1>5. Listed(store', h) = SubSeq(s, 1, n)
  BY <1>4 DEF Section
<1>6. Sequences' = [Sequences EXCEPT ![h] = SubSeq(s, 1, n)]
  BY <1>1, <1>5, OneList
<1>7. Vec!ToSet(s) = Taken(f, k) /\ Vec!ToSet(SubSeq(s, n + 1, k)) = {f[i] : i \in n .. k - 1}
  BY <1>1, <1>3, ListSet, TailSet DEF ItemsOf, ItemsFrom, Taken
<1>8. n \in 0 .. k
  BY <1>1
<1> HIDE DEF s
<1> QED BY <1>1, <1>2, <1>6, <1>7, <1>8 DEF Vec!Create

(* A call panics before it touches a vector, and drops k elements.         *)
LEMMA RejectedRejects ==
  ASSUME Between, NEW k \in Nat, NEW f \in Arrays(k), Rejected(Taken(f, k))
  PROVE  Vec!Reject(k) /\ k \in 0 .. Vec!Cardinality(caller)
<1> DEFINE s == ListOf(f, k)
<1>1. k \in 0 .. Vec!Cardinality(caller) /\ s \in Vec!Fresh(k)
  BY ArraysFit DEF Between
<1>2. Full(f, k)
  BY DEF Arrays, Full, Between
<1>3. Vec!ToSet(s) = Taken(f, k)
  BY <1>2, ListSet DEF ItemsOf, Taken
<1>4. Sequences' = Sequences /\ live' = live
  BY DEF Rejected, Sequences
<1>5. caller' = caller \ Vec!ToSet(s) /\ dropped' = dropped \cup Vec!ToSet(s)
  BY <1>3 DEF Rejected
<1> HIDE DEF s
<1> QED BY <1>1, <1>4, <1>5 DEF Vec!Reject

(* A single element is an array.                                           *)
LEMMA OneElement ==
  ASSUME NEW e \in caller, NEW n, n = 1
  PROVE  \E f \in Arrays(n) : Taken(f, n) = {e}
<1> DEFINE f == [i \in 0 .. n - 1 |-> e]
<1>1. 0 .. n - 1 = {0}
  OBVIOUS
<1>2. f \in Arrays(n) /\ Taken(f, n) = {e}
  BY <1>1 DEF Arrays, Taken
<1> QED BY <1>2

(* Contents change hands between a vector and the program's Vec.           *)
LEMMA PassedConverts ==
  ASSUME Between, NEW a \in live, NEW b \in Handles, Passed(a, b)
  PROVE  Vec!Convert(a, b)
<1>1. /\ a \in Handles /\ a # b /\ b \notin live /\ live' = (live \ {a}) \cup {b}
      /\ SameItems(store, a, store', b) /\ LenOf(store', a) = 0
      /\ \A k \in Handles \ {b, a} : SameItems(store, k, store', k)
      /\ caller' = caller /\ dropped' = dropped
  BY DEF Between, Passed
<1>2. Listed(store', b) = Sequences[a]
  BY <1>1, SameListed, SequencesBetween DEF Between
<1>3. Listed(store', a) = <<>>
  BY <1>1, ListedIs, EmptySeq DEF Between
<1>4. Sequences' = [Sequences EXCEPT ![b] = Sequences[a], ![a] = <<>>]
  BY <1>1, <1>2, <1>3, TwoLists
<1> QED BY <1>1, <1>4 DEF Vec!Convert

(* A vector ends.                                                          *)
LEMMA EndedEnds ==
  ASSUME Between, NEW h \in Handles, VectorGone(h)
  PROVE  Vec!End(h) /\ Vec!ToSet(Sequences[h]) = Owned(store, h)
<1>1. Listed(store', h) = <<>>
  BY ListedIs, EmptySeq DEF Between, VectorGone
<1>2. Sequences' = [Sequences EXCEPT ![h] = <<>>]
  BY <1>1, OneList DEF VectorGone
<1>3. Vec!ToSet(Sequences[h]) = Owned(store, h)
  BY SequencesBetween, ListedIs, ListSet, OwnedItems DEF Between, Listed
<1> QED BY <1>2, <1>3 DEF VectorGone, Vec!End

(* The tail goes.                                                          *)
LEMMA CutOffTruncates ==
  ASSUME Between, NEW h \in Handles, NEW n \in Nat, CutOff(h, n)
  PROVE  Vec!Truncate(h, n) /\ n \in 0 .. Len(Sequences[h])
<1> DEFINE cells == Cells(store, h)
           len == LenOf(store, h)
           low == Cells(store', h)
           s == Listed(store, h)
           zero == 0
<1>1. /\ h \in live /\ live' = live /\ caller' = caller /\ n <= len
      /\ LenOf(store', h) = n /\ (\A i \in 0 .. n - 1 : low[i] = cells[i]) /\ OthersKeep(h)
      /\ dropped' = dropped \cup ItemsFrom(cells, n, len)
  BY DEF CutOff, Leaves, Item
<1>2. len \in Nat /\ Full(cells, len) /\ Sequences[h] = s /\ s = ListOf(cells, len) /\ Len(s) = len
  BY ListedIs, SequencesBetween DEF Between, Listed
<1>3. Listed(store', h) = Section(ListOf(cells, len), zero, n)
  <2>1. \A i \in 0 .. n - 1 : i + zero = i
    OBVIOUS
  <2>2. zero \in Nat /\ zero <= n /\ n = n - zero
    OBVIOUS
  <2> HIDE DEF zero, low, cells, len
  <2>3. PartOf(low, cells, zero, n)
    BY <1>1, <2>1 DEF PartOf
  <2>4. ListOf(low, n) = Section(ListOf(cells, len), zero, n)
    BY <1>1, <1>2, <2>2, <2>3, ListCut, SMT
  <2> QED BY <1>1, <2>4 DEF Listed, low
<1>4. Listed(store', h) = SubSeq(s, 1, n)
  BY <1>2, <1>3 DEF Section
<1>5. Sequences' = [Sequences EXCEPT ![h] = SubSeq(s, 1, n)]
  BY <1>1, <1>4, OneList
<1>6. Vec!ToSet(SubSeq(s, n + 1, len)) = ItemsFrom(cells, n, len)
  BY <1>1, <1>2, TailSet
<1> HIDE DEF s, len, cells
<1> QED BY <1>1, <1>2, <1>5, <1>6 DEF Vec!Truncate

(* An element enters, wherever the growth has put the others.              *)
LEMMA EnteredPuts ==
  ASSUME Between, NEW h \in Handles, NEW i \in Nat, NEW e, Entered(h, i, e)
  PROVE  Vec!Insert(h, i) /\ i \in 0 .. Len(Sequences[h])
<1> DEFINE src   == Cells(store, h)
           n     == LenOf(store, h)
           cells == Cells(store', h)
           m     == n + 1
           s     == Listed(store, h)
<1>1. /\ h \in live /\ live' = live /\ dropped' = dropped /\ i \in 0 .. n
      /\ e \in caller /\ caller' = caller \ {e} /\ LenOf(store', h) = m /\ OthersKeep(h)
      /\ e \in Elems /\ m = n + 1
  BY DEF Between, Entered
<1>2. \A j \in 0 .. n : cells[j] = IF j < i THEN src[j] ELSE IF j = i THEN e ELSE src[j - 1]
  BY DEF Entered, Item
<1>3. n \in Nat /\ Full(src, n) /\ Sequences[h] = s /\ s = ListOf(src, n) /\ Len(s) = n
  BY ListedIs, SequencesBetween DEF Between, Listed
<1>4. Listed(store', h) = ListOf(cells, m)
  BY <1>1 DEF Listed
<1> HIDE DEF src, n, cells, m, s
<1>5. ListOf(cells, m) = Vec!InsertAt(ListOf(src, n), i + 1, e)
  BY <1>1, <1>2, <1>3, ListInsert
<1>6. Sequences' = [Sequences EXCEPT ![h] = Vec!InsertAt(Sequences[h], i + 1, e)]
  BY <1>1, <1>3, <1>4, <1>5, OneList
<1>7. i \in 0 .. Len(Sequences[h])
  BY <1>1, <1>3
<1> QED BY <1>1, <1>6, <1>7 DEF Vec!Insert

(* An element leaves, and its place is closed or filled.                   *)
LEMMA TakenOutTakes ==
  ASSUME Between, NEW h \in Handles, NEW i \in Nat, TakenOut(h, i)
  PROVE  /\ ClosedUp(h, i) => Vec!RemoveItem(h, i)
         /\ FilledIn(h, i) => Vec!SwapRemove(h, i)
         /\ i \in 0 .. Len(Sequences[h])
<1> DEFINE src   == Cells(store, h)
           n     == LenOf(store, h)
           cells == Cells(store', h)
           m     == n - 1
           s     == Listed(store, h)
<1>1. /\ h \in live /\ live' = live /\ dropped' = dropped /\ i \in 0 .. n - 1
      /\ caller' = caller \cup {src[i]} /\ LenOf(store', h) = m /\ OthersKeep(h) /\ m = n - 1
  BY DEF TakenOut, Item
<1>2. /\ ClosedUp(h, i) => \A j \in 0 .. n - 2 : cells[j] = IF j < i THEN src[j] ELSE src[j + 1]
      /\ FilledIn(h, i) => \A j \in 0 .. n - 2 : cells[j] = IF j = i THEN src[n - 1] ELSE src[j]
  BY DEF ClosedUp, FilledIn, Item
<1>3. n \in Nat /\ Full(src, n) /\ Sequences[h] = s /\ s = ListOf(src, n) /\ Len(s) = n
      /\ \A j \in 1 .. n : s[j] = src[j - 1]
  BY ListedIs, SequencesBetween DEF Between, Listed, Item
<1>4. Listed(store', h) = ListOf(cells, m)
  BY <1>1 DEF Listed
<1> HIDE DEF src, n, cells, m, s
<1>5. i + 1 \in 1 .. n /\ s[i + 1] = src[i] /\ i \in 0 .. Len(s) - 1 /\ i \in 0 .. Len(s)
  BY <1>1, <1>3
<1>6. ASSUME NEW left, ListOf(cells, m) = left
      PROVE  Vec!Take(h, i, left)
  <2>1. Sequences' = [Sequences EXCEPT ![h] = left]
    BY <1>1, <1>4, <1>6, OneList
  <2> QED BY <1>1, <1>3, <1>5, <2>1 DEF Vec!Take
<1>7. ASSUME ClosedUp(h, i) PROVE Vec!RemoveItem(h, i)
  <2>1. ListOf(cells, m) = Vec!RemoveAt(ListOf(src, n), i + 1)
    <3>1. n \in Nat /\ Full(src, n) /\ i \in 0 .. n - 1 /\ m = n - 1
          /\ \A j \in 0 .. n - 2 : cells[j] = IF j < i THEN src[j] ELSE src[j + 1]
      BY <1>1, <1>2, <1>3, <1>7
    <3> QED BY <3>1, ListRemove
  <2>2. ListOf(cells, m) = Vec!RemoveAt(Sequences[h], i + 1)
    BY <1>3, <2>1
  <2> QED BY <1>6, <2>2 DEF Vec!RemoveItem
<1>8. ASSUME FilledIn(h, i) PROVE Vec!SwapRemove(h, i)
  <2>1. LET t == ListOf(src, n)
        IN  ListOf(cells, m) = Vec!Front(Vec!ReplaceAt(t, i + 1, Vec!Last(t)))
    BY <1>1, <1>2, <1>3, <1>8, ListSwap
  <2>2. ListOf(cells, m) = Vec!Front(Vec!ReplaceAt(Sequences[h], i + 1, Vec!Last(Sequences[h])))
    BY <1>3, <2>1
  <2> QED BY <1>6, <2>2 DEF Vec!SwapRemove
<1> QED BY <1>3, <1>5, <1>7, <1>8

(* All of k goes behind h.                                                 *)
LEMMA AppendedConcats ==
  ASSUME Between, NEW h \in Handles, NEW k \in Handles, Appended(h, k)
  PROVE  Vec!Concat(h, k)
<1> DEFINE dst   == Cells(store, h)
           src   == Cells(store, k)
           len   == LenOf(store, h)
           other == LenOf(store, k)
           cells == Cells(store', h)
           total == len + other
<1>1. /\ len \in Nat /\ other \in Nat /\ Full(dst, len) /\ Full(src, other)
      /\ Sequences[h] = ListOf(dst, len) /\ Sequences[k] = ListOf(src, other)
  BY ListedIs, SequencesBetween DEF Between, Listed
<1>2. /\ {h, k} \subseteq live /\ h # k /\ live' = live /\ caller' = caller /\ dropped' = dropped
      /\ LenOf(store', h) = total /\ total = len + other /\ LenOf(store', k) = 0
      /\ \A a \in Handles \ {h, k} : SameItems(store, a, store', a)
  BY DEF Appended
<1>3. \A j \in 0 .. total - 1 : cells[j] = IF j < len THEN dst[j] ELSE src[j - len]
  <2>1. \A j \in 0 .. total - 1 :
          Item(store', h, j) = IF j < len THEN Item(store, h, j) ELSE Item(store, k, j - len)
    BY <1>1 DEF Appended
  <2> HIDE DEF len, other
  <2> QED BY <2>1 DEF Item
<1>4. Listed(store', h) = ListOf(cells, total)
  BY <1>2 DEF Listed
<1> HIDE DEF dst, src, len, other, cells, total
<1>5. ListOf(cells, total) = ListOf(dst, len) \o ListOf(src, other)
  <2>1. len \in Nat /\ other \in Nat /\ Full(dst, len) /\ Full(src, other) /\ total = len + other
    BY <1>1, <1>2
  <2> QED BY <1>3, <2>1, ListJoin
<1>6. Listed(store', k) = <<>>
  BY <1>2, ListedIs, EmptySeq DEF Between
<1>7. Sequences' = [Sequences EXCEPT ![h] = Sequences[h] \o Sequences[k], ![k] = <<>>]
  BY <1>1, <1>2, <1>4, <1>5, <1>6, TwoLists
<1> QED BY <1>2, <1>7 DEF Vec!Concat

(* The tail of h becomes k.                                                *)
LEMMA DividedSplits ==
  ASSUME Between, NEW h \in Handles, NEW k \in Handles, NEW at \in Nat, Divided(h, k, at)
  PROVE  Vec!SplitOff(h, k, at) /\ at \in 0 .. Len(Sequences[h])
<1> DEFINE src  == Cells(store, h)
           len  == LenOf(store, h)
           low  == Cells(store', h)
           high == Cells(store', k)
           tail == len - at
           zero == 0
<1>1. /\ len \in Nat /\ Full(src, len) /\ Sequences[h] = ListOf(src, len) /\ Len(Sequences[h]) = len
  BY ListedIs, SequencesBetween DEF Between, Listed
<1>2. /\ h \in live /\ h # k /\ k \notin live /\ live' = live \cup {k}
      /\ caller' = caller /\ dropped' = dropped /\ at <= len
      /\ LenOf(store', h) = at /\ LenOf(store', k) = tail /\ tail = len - at
      /\ \A a \in Handles \ {h, k} : SameItems(store, a, store', a)
  BY DEF Divided
<1>3. /\ (\A i \in 0 .. at - 1 : low[i] = src[i]) /\ \A i \in 0 .. tail - 1 : high[i] = src[i + at]
  BY DEF Divided, Item
<1>4. Listed(store', h) = ListOf(low, at) /\ Listed(store', k) = ListOf(high, tail)
  BY <1>2 DEF Listed
<1>5. zero \in Nat /\ zero <= at /\ at = at - zero /\ len <= len /\ \A i \in 0 .. at - 1 : i + zero = i
  BY <1>1
<1> HIDE DEF src, len, low, high, tail, zero
<1>6. PartOf(low, src, zero, at) /\ PartOf(high, src, at, tail)
  BY <1>3, <1>5 DEF PartOf
<1>7. ListOf(low, at) = Section(ListOf(src, len), zero, at)
  BY <1>1, <1>2, <1>5, <1>6, ListCut, SMT
<1>8. ListOf(high, tail) = Section(ListOf(src, len), at, len)
  BY <1>1, <1>2, <1>5, <1>6, ListCut, SMT
<1>9. /\ Listed(store', h) = SubSeq(Sequences[h], 1, at)
      /\ Listed(store', k) = SubSeq(Sequences[h], at + 1, Len(Sequences[h]))
  BY <1>1, <1>4, <1>7, <1>8 DEF Section, zero
<1>10. Sequences' = [Sequences EXCEPT ![h] = SubSeq(Sequences[h], 1, at),
                                      ![k] = SubSeq(Sequences[h], at + 1, Len(Sequences[h]))]
  BY <1>2, <1>9, TwoLists
<1> QED BY <1>1, <1>2, <1>10 DEF Vec!SplitOff

(* Buffers may have moved; the sequences have not.                         *)
LEMMA StaysStutters ==
  ASSUME Between, Stays
  PROVE  UNCHANGED Vec!vars
<1>1. \A h \in Handles : Sequences'[h] = Sequences[h]
  BY SequencesBetween, SameListed DEF Between, Stays
<1>2. Sequences' = Sequences
  BY <1>1, SequencesBetween
<1> QED BY <1>2 DEF Stays, Vec!vars
----------------------------------------------------------------------------
(* Each call is its namesake of the abstract vector, with the same         *)
(* arguments, and that is a step of it.                                    *)

VecStep == [Vec!Next]_(Vec!vars)

(* Calls that name their vectors and a number within the abstract bounds.  *)
LEMMA CreateStep ==
  ASSUME NEW h \in Handles, NEW n \in 0 .. Vec!Cardinality(caller), NEW k \in 0 .. n,
         Vec!Create(h, n, k)
  PROVE  VecStep
BY DEF VecStep, Vec!Next

LEMMA RejectStep ==
  ASSUME NEW n \in 0 .. Vec!Cardinality(caller), Vec!Reject(n)
  PROVE  VecStep
BY DEF VecStep, Vec!Next

LEMMA AtStep ==
  ASSUME NEW h \in Handles, NEW i \in 0 .. Len(Sequences[h]),
         \/ Vec!Insert(h, i) \/ Vec!RemoveItem(h, i) \/ Vec!SwapRemove(h, i)
         \/ Vec!Truncate(h, i)
  PROVE  VecStep
BY DEF VecStep, Vec!Next

LEMMA ConvertStep ==
  ASSUME NEW h \in Handles, NEW k \in Handles, Vec!Convert(h, k) \/ Vec!Concat(h, k)
  PROVE  VecStep
BY DEF VecStep, Vec!Next

LEMMA SplitStep ==
  ASSUME NEW h \in Handles, NEW k \in Handles, NEW i \in 0 .. Len(Sequences[h]),
         Vec!SplitOff(h, k, i)
  PROVE  VecStep
BY DEF VecStep, Vec!Next

LEMMA EndStep ==
  ASSUME NEW h \in Handles, Vec!GiveBack(h) \/ Vec!Drop(h)
  PROVE  VecStep
BY DEF VecStep, Vec!Next

(* A call that panics dropped one element, or an array of them.            *)
LEMMA PanicIs ==
  ASSUME Between, IInv, NEW h \in Handles, NEW n
  PROVE  /\ FromBufAndLenPanics(h, n) => Vec!Reject(InlineSize[h]) /\ VecStep
         /\ PushPanics(h) \/ InsertPanics(h, n) => Vec!Reject(1) /\ VecStep
<1>1. caller \subseteq Elems /\ InlineSize[h] \in Nat
  BY RawAssumption DEF IInv
<1>2. ASSUME FromBufAndLenPanics(h, n) PROVE Vec!Reject(InlineSize[h]) /\ VecStep
  <2> DEFINE k == InlineSize[h]
  <2>1. PICK f \in Arrays(k) : Rejected(Taken(f, k))
    BY <1>1, <1>2, PanicRejects
  <2> HIDE DEF k
  <2>2. Vec!Reject(k) /\ k \in 0 .. Vec!Cardinality(caller)
    BY <1>1, <2>1, RejectedRejects DEF k
  <2> QED BY <2>2, RejectStep DEF k
<1>3. ASSUME PushPanics(h) \/ InsertPanics(h, n) PROVE Vec!Reject(1) /\ VecStep
  <2> DEFINE one == 1
  <2>1. one \in Nat /\ one = 1
    OBVIOUS
  <2> HIDE DEF one
  <2>4. PICK e \in caller : Rejected({e})
    BY <1>1, <1>3, PanicRejects
  <2>5. PICK f \in Arrays(one) : Taken(f, one) = {e}
    BY <2>1, OneElement
  <2>2. Rejected(Taken(f, one))
    BY <2>4, <2>5
  <2>3. Vec!Reject(one) /\ one \in 0 .. Vec!Cardinality(caller)
    BY <2>1, <2>2, RejectedRejects
  <2> QED BY <2>3, RejectStep DEF one
<1> QED BY <1>2, <1>3

(* Constructors, and the program's Vec.                                    *)
LEMMA MadeIs ==
  ASSUME Between, NEW h \in Handles, NEW n \in Nat, NEW k \in Nat, \E f : Made(h, n, k, f)
  PROVE  Vec!Create(h, k, n) /\ VecStep
BY MadeCreates, CreateStep

LEMMA ConstructIs ==
  ASSUME Between, IInv, IInv', NEW h \in Handles, NEW n \in Nat
  PROVE  /\ New(h) \/ NewWithCapacity(h, n) => Vec!Create(h, 0, 0) /\ VecStep
         /\ FromBuf(h, n) \/ FromArray(h, n) => Vec!Create(h, n, n) /\ VecStep
         /\ FromBufAndLen(h, n) => Vec!Create(h, InlineSize[h], n) /\ VecStep
<1>1. InlineSize[h] \in Nat
  BY RawAssumption
<1>2. ASSUME New(h) \/ NewWithCapacity(h, n) PROVE Vec!Create(h, 0, 0) /\ VecStep
  <2> DEFINE z == 0
  <2>1. z \in Nat /\ z = 0
    OBVIOUS
  <2> HIDE DEF z
  <2>2. \E f : Made(h, z, z, f)
    BY <1>2, <2>1, ConstructMakes
  <2>3. Vec!Create(h, z, z) /\ VecStep
    BY <2>1, <2>2, MadeIs
  <2> QED BY <2>3 DEF z
<1>3. ASSUME FromBuf(h, n) \/ FromArray(h, n) PROVE Vec!Create(h, n, n) /\ VecStep
  BY <1>3, ConstructMakes, MadeIs
<1>4. ASSUME FromBufAndLen(h, n) PROVE Vec!Create(h, InlineSize[h], n) /\ VecStep
  BY <1>1, <1>4, ConstructMakes, MadeIs
<1> QED BY <1>2, <1>3, <1>4

LEMMA VecNewIs ==
  ASSUME Between, IInv, IInv', NEW c \in Nat, NEW n \in Nat
  PROVE  VecNew(c, n) => Vec!Create(Std, n, n) /\ VecStep
BY VecMakes, MadeIs, StdAssumption

(* Exchanges with the program's Vec and with raw parts.                    *)
LEMMA PassedIs ==
  ASSUME Between, NEW a \in Handles, NEW b \in Handles, a \in live, Passed(a, b)
  PROVE  Vec!Convert(a, b) /\ VecStep
BY PassedConverts, ConvertStep

LEMMA ExchangeIs ==
  ASSUME Between, IInv, NEW h \in Handles
  PROVE  /\ FromVec(h) => Vec!Convert(Std, h) /\ VecStep
         /\ FromRawParts(h) => Vec!Convert(Raw, h) /\ VecStep
         /\ IntoVec(h) => Vec!Convert(h, Std) /\ VecStep
         /\ Leak(h) => Vec!Convert(h, Raw) /\ VecStep
<1>1. DeadEmpty(store, live) /\ Std \in Handles
  BY StdAssumption DEF Between
<1>2. FromVec(h) => Vec!Convert(Std, h) /\ VecStep
  BY <1>1, FromVecPasses, PassedIs
<1>3. IntoVec(h) => Vec!Convert(h, Std) /\ VecStep
  BY <1>1, IntoVecPasses, PassedIs
<1>4. /\ FromRawParts(h) => Vec!Convert(Raw, h) /\ VecStep
      /\ Leak(h) => Vec!Convert(h, Raw) /\ VecStep
  BY RawPartsPass, PassedIs
<1> QED BY <1>2, <1>3, <1>4

(* The calls that end a vector.                                            *)
LEMMA ReleaseIs ==
  ASSUME Between, IInv, NEW h \in Handles
  PROVE  /\ IntoInner(h) => Vec!GiveBack(h) /\ VecStep
         /\ LeakPanics(h) \/ DropVec(h) => Vec!Drop(h) /\ VecStep
<1>1. GivenBack(h) => Vec!GiveBack(h)
  BY EndedEnds DEF GivenBack, Vec!GiveBack
<1>2. Destroyed(h) => Vec!Drop(h)
  BY EndedEnds DEF Destroyed, Vec!Drop
<1> QED BY <1>1, <1>2, ReleaseCloses, EndStep

(* push, insert, pop, remove, swap_remove, truncate and clear.             *)
LEMMA EditIs ==
  ASSUME Between, IInv, IInv', NEW h \in Handles, NEW n \in Nat
  PROVE  /\ Push(h) => Vec!Push(h) /\ VecStep
         /\ Pop(h) => Vec!Pop(h) /\ VecStep
         /\ Insert(h, n) => Vec!Insert(h, n) /\ VecStep
         /\ Remove(h, n) => Vec!RemoveItem(h, n) /\ VecStep
         /\ SwapRemove(h, n) => Vec!SwapRemove(h, n) /\ VecStep
<1>1. Len(Sequences[h]) = LenOf(store, h)
  BY SequencesBetween, ListedIs DEF Between
<1>2. ASSUME Push(h) PROVE Vec!Push(h) /\ VecStep
  <2>1. PICK i \in Nat : i = LenOf(store, h) /\ \E e : Entered(h, i, e)
    BY <1>2, PushEnters
  <2>2. Vec!Insert(h, i) /\ i \in 0 .. Len(Sequences[h])
    BY <2>1, EnteredPuts
  <2> QED BY <1>1, <2>1, <2>2, AtStep DEF Vec!Push
<1>3. ASSUME Insert(h, n) PROVE Vec!Insert(h, n) /\ VecStep
  BY <1>3, InsertEnters, EnteredPuts, AtStep
<1>4. ASSUME Pop(h) PROVE Vec!Pop(h) /\ VecStep
  <2>1. PICK j \in Nat : j = LenOf(store, h) - 1 /\ TakenOut(h, j) /\ ClosedUp(h, j)
    BY <1>4, RemoveTakes
  <2>2. Vec!RemoveItem(h, j) /\ j \in 0 .. Len(Sequences[h])
    BY <2>1, TakenOutTakes
  <2> QED BY <1>1, <2>1, <2>2, AtStep DEF Vec!Pop
<1>5. ASSUME Remove(h, n) PROVE Vec!RemoveItem(h, n) /\ VecStep
  BY <1>5, RemoveTakes, TakenOutTakes, AtStep
<1>6. ASSUME SwapRemove(h, n) PROVE Vec!SwapRemove(h, n) /\ VecStep
  BY <1>6, RemoveTakes, TakenOutTakes, AtStep
<1> QED BY <1>2, <1>3, <1>4, <1>5, <1>6

LEMMA CutIs ==
  ASSUME Between, IInv, NEW h \in Handles, NEW n \in Nat
  PROVE  /\ Truncate(h, n) => Vec!Truncate(h, n) /\ VecStep
         /\ Clear(h) => Vec!Truncate(h, 0) /\ VecStep
<1>1. ASSUME Truncate(h, n) PROVE Vec!Truncate(h, n) /\ VecStep
  BY <1>1, TruncateCuts, CutOffTruncates, AtStep
<1>2. ASSUME Clear(h) PROVE Vec!Truncate(h, 0) /\ VecStep
  <2>1. PICK z \in Nat : z = 0 /\ CutOff(h, z)
    BY <1>2, TruncateCuts
  <2>2. Vec!Truncate(h, z) /\ z \in 0 .. Len(Sequences[h])
    BY <2>1, CutOffTruncates
  <2> QED BY <2>1, <2>2, AtStep
<1> QED BY <1>1, <1>2

(* append and split_off.                                                   *)
LEMMA MoveIs ==
  ASSUME Between, IInv, IInv', NEW h \in Handles, NEW k \in Handles, NEW at \in Nat
  PROVE  /\ AppendCall(h, k) => Vec!Concat(h, k) /\ VecStep
         /\ SplitOff(h, k, at) => Vec!SplitOff(h, k, at) /\ VecStep
BY AppendAppends, AppendedConcats, ConvertStep, SplitOffDivides, DividedSplits, SplitStep

(* The capacity calls.                                                     *)
LEMMA CapacityIs ==
  ASSUME Between, IInv, NEW h \in Handles, CapacityCall(h)
  PROVE  UNCHANGED Vec!vars /\ VecStep
<1>1. Sizes \subseteq Nat /\ 0 \in Nat
  BY RawAssumption DEF Sizes
<1>2. Stays
  BY <1>1, CapacityMoves DEF CapacityCall
<1> QED BY <1>2, StaysStutters DEF VecStep

----------------------------------------------------------------------------
(* What a step is between.                                                 *)
LEMMA StepBetween ==
  ASSUME OInv(Elems), [Next]_vars
  PROVE  Between /\ IInv /\ IInv'
<1>1. OInv(Elems)'
  BY StepOwns
<1> QED BY <1>1 DEF Between, OInv, IInv

(* Every step is a step of the abstract vector, or none.                   *)
LEMMA StepRefines ==
  ASSUME OInv(Elems), [Next]_vars
  PROVE  VecStep
<1>1. Between /\ IInv /\ IInv'
  BY StepBetween
<1>2. CASE UNCHANGED vars
  BY <1>2 DEF vars, VecStep, Vec!vars, Sequences
<1>3. ASSUME NEW h \in Handles,
             \/ New(h) \/ FromVec(h) \/ FromRawParts(h) \/ IntoVec(h) \/ Leak(h)
             \/ LeakPanics(h) \/ IntoInner(h) \/ DropVec(h)
             \/ Push(h) \/ PushPanics(h) \/ Pop(h) \/ Clear(h) \/ ShrinkToFitCall(h)
      PROVE  VecStep
  <2>1. 0 \in Nat
    OBVIOUS
  <2> QED BY <1>1, <1>3, <2>1, ConstructIs, ExchangeIs, ReleaseIs, PanicIs, EditIs, CutIs,
             CapacityIs DEF CapacityCall
<1>4. ASSUME NEW h \in Handles, NEW k \in Handles, NEW at \in Slots \cup {MaxCap},
             AppendCall(h, k) \/ SplitOff(h, k, at)
      PROVE  VecStep
  <2>1. at \in Nat
    BY RawAssumption DEF Slots
  <2> QED BY <1>1, <1>4, <2>1, MoveIs
<1>5. ASSUME NEW h \in Handles, NEW n \in Sizes,
             \/ NewWithCapacity(h, n) \/ FromBuf(h, n) \/ FromBufAndLen(h, n)
             \/ FromBufAndLenPanics(h, n) \/ FromArray(h, n)
             \/ Insert(h, n) \/ InsertPanics(h, n) \/ Remove(h, n) \/ SwapRemove(h, n)
             \/ Truncate(h, n)
             \/ ReserveCall(h, n) \/ ReserveExactCall(h, n) \/ GrowCall(h, n)
             \/ ShrinkToCall(h, n)
      PROVE  VecStep
  <2>1. n \in Nat
    BY RawAssumption DEF Sizes
  <2>2. CASE CapacityCall(h)
    BY <1>1, <2>2, CapacityIs
  <2>3. CASE ~CapacityCall(h)
    BY <1>1, <1>5, <2>1, <2>3, ConstructIs, PanicIs, EditIs, CutIs DEF CapacityCall
  <2> QED BY <2>2, <2>3
<1>6. ASSUME NEW h \in Handles, NEW n \in Sizes, NEW m \in Sizes, VecNew(n, m)
      PROVE  VecStep
  <2>1. n \in Nat /\ m \in Nat
    BY RawAssumption DEF Sizes
  <2> QED BY <1>1, <1>6, <2>1, VecNewIs
<1> QED BY <1>2, <1>3, <1>4, <1>5, <1>6, RawAssumption DEF Next

(* Every behaviour of the storage is one of the sequences: between them,   *)
(* the calls of SmallVec do nothing to the elements that calls of Vec      *)
(* could not do, whatever the inline sizes.                                *)
THEOREM Refines == Spec => ImplementsVec
<1>1. Init => Vec!Init
  BY DEF Init, Vec!Init, Sequences
<1>2. OInv(Elems) /\ [Next]_vars => [Vec!Next]_(Vec!vars)
  BY StepRefines DEF VecStep
<1>3. OInv(Elems) /\ [Next]_vars => OInv(Elems)'
  BY StepOwns
<1> QED BY <1>1, <1>2, <1>3, InitOwns, PTL DEF Spec, ImplementsVec, Vec!Spec

(* Each call is its namesake.                                              *)
LEMMA CallsAre ==
  ASSUME Between, IInv, IInv', NEW h \in Handles
  PROVE  /\ BeginsLikeVec(h) /\ EndsLikeVec(h) /\ EditsLikeVec(h)
         /\ \A k \in Handles : SharesLikeVec(h, k)
         /\ CapacityCall(h) => UNCHANGED Vec!vars
<1>1. Sizes \subseteq Nat /\ 0 \in Nat
  BY RawAssumption DEF Sizes
<1>2. BeginsLikeVec(h)
  BY <1>1, ConstructIs, ExchangeIs, PanicIs, VecNewIs DEF BeginsLikeVec
<1>3. EndsLikeVec(h)
  BY ExchangeIs, ReleaseIs DEF EndsLikeVec
<1>4. EditsLikeVec(h)
  BY <1>1, EditIs, CutIs, PanicIs DEF EditsLikeVec
<1>5. \A k \in Handles : SharesLikeVec(h, k)
  BY <1>1, MoveIs DEF SharesLikeVec
<1> QED BY <1>2, <1>3, <1>4, <1>5, CapacityIs

(* Each call does to the elements of its vectors, in their order, what its *)
(* Vec namesake does for the same arguments, whatever the inline sizes,    *)
(* through every growth, un-spill, shrink and hand-over, and where it      *)
(* panics; and the calls about capacity do nothing to them.                *)
THEOREM CallsAreVecs == Spec => CallsDoWhatVecDoes
<1>1. OInv(Elems) /\ [Next]_vars =>
        [\A h \in Handles :
           /\ BeginsLikeVec(h) /\ EndsLikeVec(h) /\ EditsLikeVec(h)
           /\ \A k \in Handles : SharesLikeVec(h, k)
           /\ CapacityCall(h) => UNCHANGED Vec!vars]_vars
  BY StepBetween, CallsAre
<1>2. OInv(Elems) /\ [Next]_vars => OInv(Elems)'
  BY StepOwns
<1> QED BY <1>1, <1>2, InitOwns, PTL DEF Spec, CallsDoWhatVecDoes
===========================================================================
