---------------------------- MODULE FiltersProofs ----------------------------
(***************************************************************************)
(* extract_if, retain_mut and dedup_by: whatever their closures answer and *)
(* wherever they panic, no loop leaves the length it found and every       *)
(* element is in one place, for vectors of any inline size and any range.  *)
(* The items that an ExtractIf keeps apart from the length (those it has   *)
(* passed over and those it has not asked about) are accounted for with    *)
(* the dropped ones, as for a Drain.                                       *)
(* Then the order: the closures are asked about the items of the range one *)
(* by one, and what stays in the vector stays in the order it was in.      *)
(***************************************************************************)
EXTENDS Filters, OwnershipProofs, WellFoundedInduction

(* What an ExtractIf has passed over, and what it has still to ask about.  *)
Front == ItemsFrom(Cells(store, v), 0, loop.idx - loop.del)
Rest  == ItemsFrom(Cells(store, v), loop.idx, loop.old_len)
Apart == IF loop.kind = "extract" THEN Front \cup Rest ELSE {}

AtStake == Elems \ leaked

Kinds == {"none", "extract", "retain", "dedup"}

Loops == [kind : Kinds, vec : Handles, idx : 0 .. MaxCap, end : 0 .. MaxCap,
          old_len : 0 .. MaxCap, del : 0 .. MaxCap, w : 0 .. MaxCap]

(* Where the length, the index and the end of the range are.               *)
Layout ==
  /\ loop.kind = "none" => loop = NoLoop
  /\ loop.kind # "none" =>
       /\ v \in live \cap SmallVecs
       /\ loop.idx <= loop.end /\ loop.end <= loop.old_len
       /\ loop.del <= loop.idx /\ loop.w <= loop.idx
       /\ loop.old_len <= Capacity(store, v)
  /\ loop.kind = "extract" => LenOf(store, v) = 0
  /\ loop.kind \in {"retain", "dedup"} =>
       LenOf(store, v) = loop.old_len /\ loop.end = loop.old_len

(* The cells set aside hold elements of nobody else.                       *)
Aside ==
  loop.kind = "extract" =>
    /\ dropped \cap Apart = {} /\ Front \cap Rest = {}
    /\ Holds(Cells(store, v), 0, loop.idx - loop.del, Front)
    /\ Holds(Cells(store, v), loop.idx, loop.old_len, Rest)

FInv ==
  /\ loop \in Loops /\ leaked \subseteq Elems
  /\ Accounts(store, caller, dropped \cup Apart, live, AtStake)
  /\ Layout /\ Aside

----------------------------------------------------------------------------
(* Facts about a loop.                                                     *)

LEMMA LoopTypes ==
  ASSUME FInv
  PROVE  /\ v \in Handles
         /\ loop.idx \in Nat /\ loop.end \in Nat /\ loop.old_len \in Nat
         /\ loop.del \in Nat /\ loop.w \in Nat
  BY RawAssumption DEF FInv, Loops, v

LEMMA LoopFacts ==
  ASSUME FInv, loop.kind # "none"
  PROVE  /\ v \in live /\ v \in SmallVecs
         /\ Bounded(store) /\ Sound(store)
         /\ Capacity(store, v) \in Nat /\ Capacity(store, v) <= MaxCap
         /\ Cells(store, v) \in Block /\ FitIn(Cells(store, v), Capacity(store, v))
         /\ loop.idx <= loop.end /\ loop.end <= loop.old_len
         /\ loop.del <= loop.idx /\ loop.w <= loop.idx
         /\ loop.old_len <= Capacity(store, v)
<1>1. /\ v \in live /\ v \in SmallVecs /\ v \in Handles
      /\ loop.idx <= loop.end /\ loop.end <= loop.old_len
      /\ loop.del <= loop.idx /\ loop.w <= loop.idx
      /\ loop.old_len <= Capacity(store, v)
  BY DEF FInv, Layout, SmallVecs
<1>2. Bounded(store) /\ Sound(store)
  BY DEF FInv, Accounts, Bounded
<1>3. FitIn(Cells(store, v), Capacity(store, v))
  BY <1>1, <1>2, CellsFit
<1> QED BY <1>1, <1>2, <1>3, SoundLen, RawAssumption

(* Nobody has two things.                                                  *)
LEMMA Disjoint ==
  ASSUME FInv
  PROVE  /\ \A h \in Handles : Owned(store, h) \cap (caller \cup dropped \cup Apart) = {}
         /\ caller \cap (dropped \cup Apart) = {}
         /\ caller \cup dropped \cup Apart \subseteq AtStake
         /\ \A h \in Handles : Owned(store, h) \subseteq AtStake
  BY DEF FInv, Accounts, Own

(* The vector of retain_mut and dedup_by keeps all its items.              *)
LEMMA NoneApart ==
  ASSUME FInv, loop.kind # "extract"
  PROVE  Apart = {} /\ dropped \cup Apart = dropped
         /\ Accounts(store, caller, dropped, live, AtStake)
<1>1. Apart = {}
  BY DEF Apart
<1>2. dropped \cup Apart = dropped
  BY <1>1
<1> QED BY <1>1, <1>2 DEF FInv

(* After the step that ends a loop.                                        *)
LEMMA Ended ==
  ASSUME Accounts(store', caller', dropped', live', AtStake'), leaked' \subseteq Elems,
         loop' = NoLoop
  PROVE  FInv'
<1>1. loop'.kind = "none" /\ loop' \in Loops
  BY StdAssumption, RawAssumption DEF NoLoop, Loops, Kinds
<1>2. dropped' \cup Apart' = dropped'
  BY <1>1 DEF Apart
<1>3. Layout' /\ Aside'
  BY <1>1 DEF Layout, Aside
<1> QED BY <1>1, <1>2, <1>3 DEF FInv

(* After a step in which an ExtractIf goes on: f and r are set aside.      *)
LEMMA StillOut ==
  ASSUME loop' \in Loops, leaked' \subseteq Elems, loop'.kind = "extract", NEW f, NEW r,
         Accounts(store', caller', dropped' \cup (f \cup r), live', AtStake'),
         Holds(Cells(store', v'), 0, loop'.idx - loop'.del, f),
         Holds(Cells(store', v'), loop'.idx, loop'.old_len, r),
         f \cap r = {}, dropped' \cap (f \cup r) = {}, Layout'
  PROVE  FInv'
<1>1. Front' = f
  BY HoldsItems DEF Front
<1>2. Rest' = r
  BY HoldsItems DEF Rest
<1> QED BY <1>1, <1>2 DEF FInv, Apart, Aside

(* After a step in which the vector of a loop keeps its length.            *)
LEMMA StillIn ==
  ASSUME loop' \in Loops, leaked' \subseteq Elems, loop'.kind \in {"retain", "dedup"},
         Accounts(store', caller', dropped', live', AtStake'), Layout'
  PROVE  FInv'
<1>1. dropped' \cup Apart' = dropped'
  BY DEF Apart
<1> QED BY <1>1 DEF FInv, Aside

----------------------------------------------------------------------------
(* The steps.                                                              *)

LEMMA InitFilter == FilterInit => FInv
<1> SUFFICES ASSUME FilterInit PROVE FInv
  OBVIOUS
<1>1. OInv(Elems) /\ BInv
  BY InitOwns, InitBounded DEF FilterInit
<1>2. Accounts(store, caller, dropped, live, Elems)
  BY <1>1 DEF OInv, BInv, IInv, Accounts
<1>3. loop = NoLoop /\ leaked = {}
  BY DEF FilterInit
<1>4. loop.kind = "none" /\ loop \in Loops
  BY <1>3, StdAssumption, RawAssumption DEF NoLoop, Loops, Kinds
<1>5. dropped \cup Apart = dropped /\ AtStake = Elems
  BY <1>3, <1>4 DEF Apart, AtStake
<1>6. Layout /\ Aside
  BY <1>3, <1>4 DEF Layout, Aside
<1> QED BY <1>2, <1>3, <1>4, <1>5, <1>6 DEF FInv

(* Calls between two loops.                                                *)
LEMMA ProgramStep ==
  ASSUME FInv, Program
  PROVE  FInv'
<1>1. /\ loop.kind = "none" /\ loop = NoLoop /\ OneVector
      /\ loop' = loop /\ leaked' = leaked
  BY DEF Program, fvars, FInv, Layout
<1>2. Accounts(store, caller, dropped, live, AtStake)
  BY <1>1, NoneApart
<1>3. Accounts(store', caller', dropped', live', AtStake)
  BY <1>1, <1>2, ProgramKeeps
<1>4. AtStake' = AtStake /\ leaked' \subseteq Elems
  BY <1>1 DEF AtStake, FInv
<1>5. Accounts(store', caller', dropped', live', AtStake') /\ loop' = NoLoop
  BY <1>1, <1>3, <1>4
<1> QED BY <1>4, <1>5, Ended

(* The fields at the start.                                                *)
LEMMA BeginFields ==
  ASSUME FInv, NEW h \in Handles, NEW kind \in {"extract", "retain", "dedup"},
         NEW start \in Nat, NEW end \in Nat, start <= end, end <= LenOf(store, h),
         Begin(h, kind, start, end)
  PROVE  /\ Accounts(store, caller, dropped, live, AtStake)
         /\ live' = live /\ caller' = caller /\ dropped' = dropped /\ leaked' = leaked
         /\ h \in live /\ h \in SmallVecs /\ leaked \subseteq Elems
         /\ Bounded(store) /\ Sound(store)
         /\ LenOf(store, h) \in Nat /\ LenOf(store, h) <= Capacity(store, h)
         /\ Capacity(store, h) \in Nat /\ Capacity(store, h) <= MaxCap
         /\ loop' \in Loops /\ v' = h /\ loop'.kind = kind
         /\ loop'.idx = start /\ loop'.end = end /\ loop'.old_len = LenOf(store, h)
         /\ loop'.del = 0 /\ loop'.w = start
<1> DEFINE len == LenOf(store, h)
<1>1. /\ loop.kind = "none" /\ h \in live /\ h \in SmallVecs
      /\ loop' = [NoLoop EXCEPT !.kind = kind, !.vec = h, !.idx = start, !.end = end,
                                !.old_len = len, !.w = start]
      /\ live' = live /\ caller' = caller /\ dropped' = dropped /\ leaked' = leaked
  BY DEF Begin
<1>2. Accounts(store, caller, dropped, live, AtStake) /\ leaked \subseteq Elems
  BY <1>1, NoneApart DEF FInv
<1>3. Bounded(store) /\ Sound(store)
  BY <1>2 DEF Accounts, Bounded
<1>4. /\ len \in Nat /\ len <= Capacity(store, h)
      /\ Capacity(store, h) \in Nat /\ Capacity(store, h) <= MaxCap
  BY <1>3, SoundLen, RawAssumption
<1>5. start \in 0 .. MaxCap /\ end \in 0 .. MaxCap /\ len \in 0 .. MaxCap /\ 0 \in 0 .. MaxCap
  BY <1>4, RawAssumption
<1> HIDE DEF len
<1>6. loop' = [kind |-> kind, vec |-> h, idx |-> start, end |-> end, old_len |-> len,
               del |-> 0, w |-> start]
  BY <1>1 DEF NoLoop
<1>7. loop' \in Loops
  BY <1>5, <1>6 DEF Loops, Kinds
<1>8. /\ v' = h /\ loop'.kind = kind
      /\ loop'.idx = start /\ loop'.end = end /\ loop'.old_len = len
      /\ loop'.del = 0 /\ loop'.w = start
  BY <1>6 DEF v
<1>9. /\ h \in live /\ h \in SmallVecs /\ live' = live /\ caller' = caller
      /\ dropped' = dropped /\ leaked' = leaked
  BY <1>1
<1> QED BY <1>2, <1>3, <1>4, <1>7, <1>8, <1>9 DEF len

LEMMA BeginStep ==
  ASSUME FInv, NEW h \in Handles, Retain(h) \/ Dedup(h)
  PROVE  FInv'
<1> DEFINE len == LenOf(store, h)
<1>1. len \in Nat
  BY SoundLen, RawAssumption DEF FInv, Accounts, Bounded
<1>2. PICK kind \in {"retain", "dedup"}, start \in Nat :
        start <= len /\ Begin(h, kind, start, len) /\ store' = store
  BY <1>1 DEF Retain, Dedup
<1>3. /\ Accounts(store, caller, dropped, live, AtStake)
      /\ live' = live /\ caller' = caller /\ dropped' = dropped /\ leaked' = leaked
      /\ h \in live /\ h \in SmallVecs /\ leaked \subseteq Elems
      /\ len <= Capacity(store, h)
      /\ loop' \in Loops /\ v' = h /\ loop'.kind = kind
      /\ loop'.idx = start /\ loop'.end = len /\ loop'.old_len = len
      /\ loop'.del = 0 /\ loop'.w = start
  BY <1>1, <1>2, BeginFields
<1>4. AtStake' = AtStake
  BY <1>3 DEF AtStake
<1>5. Accounts(store', caller', dropped', live', AtStake')
  BY <1>2, <1>3, <1>4
<1>6. Layout'
  BY <1>1, <1>2, <1>3 DEF Layout
<1> QED BY <1>3, <1>5, <1>6, StillIn

(* extract_if cuts the length to zero and sets every item aside.           *)
LEMMA ExtractBegins ==
  ASSUME FInv, NEW h \in Handles, NEW start \in Nat, NEW end \in Nat, ExtractIf(h, start, end)
  PROVE  FInv'
<1> DEFINE len  == LenOf(store, h)
           src  == Cells(store, h)
           zero == 0
           f    == ItemsFrom(src, zero, start)
           r    == ItemsFrom(src, start, len)
           none == {}
           kind == "extract"
<1>1. start <= end /\ end <= len /\ Begin(h, kind, start, end) /\ store' = SetLen(store, h, zero)
  BY DEF ExtractIf
<1>2. /\ Accounts(store, caller, dropped, live, AtStake)
      /\ live' = live /\ caller' = caller /\ dropped' = dropped /\ leaked' = leaked
      /\ h \in live /\ h \in SmallVecs /\ leaked \subseteq Elems
      /\ Bounded(store) /\ Sound(store)
      /\ len \in Nat /\ len <= Capacity(store, h)
      /\ Capacity(store, h) \in Nat /\ Capacity(store, h) <= MaxCap
      /\ loop' \in Loops /\ v' = h /\ loop'.kind = kind
      /\ loop'.idx = start /\ loop'.end = end /\ loop'.old_len = len
      /\ loop'.del = 0 /\ loop'.w = start
  BY <1>1, BeginFields
<1>3. src \in Block /\ FitIn(src, Capacity(store, h)) /\ Holds(src, zero, len, Owned(store, h))
  <2>1. Distinct(store, h)
    BY <1>2 DEF Accounts, Own
  <2> QED BY <1>2, <2>1, SoundLen, CellsFit, HoldsOwned
<1>4. zero \in Nat /\ zero <= start /\ start <= len /\ zero <= Capacity(store, h)
  BY <1>1, <1>2
<1> HIDE DEF len, src, zero
<1>5. /\ Holds(src, zero, start, f) /\ Holds(src, start, len, r)
      /\ f \cap r = {} /\ f \cup r = Owned(store, h)
  <2>1. zero \in Int /\ start \in Int /\ len \in Int
    BY <1>2, <1>4
  <2> QED BY <1>3, <1>4, <2>1, HoldsCut
<1> HIDE DEF f, r
<1>6. /\ Owned(store, h) \cap (caller \cup dropped) = {} /\ caller \cap dropped = {}
  BY <1>2 DEF Accounts, Own
<1>7. store' = Edited(store, h, src, zero)
  BY <1>1, <1>2, SetLenWrites DEF src
<1>8. Lays(store, h, src, zero, none)
  <2>1. zero \in Int /\ Holds(src, zero, zero, none)
    BY <1>4, HoldsEmpty
  <2> QED BY <1>3, <1>4, <2>1 DEF Lays, zero
<1>9. Shares(none, caller, dropped \cup (f \cup r), Owned(store, h) \cup caller \cup dropped)
  BY <1>5, <1>6 DEF Shares
<1>10. Grown(store, store, h)
  BY <1>2, GrownStays
<1> HIDE DEF none
<1>11. /\ Accounts(store', caller, dropped \cup (f \cup r), live, AtStake)
       /\ Wrote(store, store', h, src, zero)
  BY <1>2, <1>7, <1>8, <1>9, <1>10, AccountsWrite
<1>12. /\ Cells(store', h) = src /\ LenOf(store', h) = 0
       /\ Capacity(store', h) = Capacity(store, h)
  BY <1>11 DEF Wrote, zero
<1>13. AtStake' = AtStake
  BY <1>2 DEF AtStake
<1>14. Layout'
  BY <1>1, <1>2, <1>4, <1>12 DEF Layout
<1>15. /\ Holds(Cells(store', v'), 0, loop'.idx - loop'.del, f)
       /\ Holds(Cells(store', v'), loop'.idx, loop'.old_len, r)
  <2>1. start - 0 = start
    OBVIOUS
  <2> QED BY <1>2, <1>5, <1>12, <2>1 DEF zero
<1>16. dropped' \cap (f \cup r) = {}
  BY <1>2, <1>5, <1>6
<1>17. Accounts(store', caller', dropped' \cup (f \cup r), live', AtStake')
  BY <1>2, <1>11, <1>13
<1> QED BY <1>2, <1>5, <1>14, <1>15, <1>16, <1>17, StillOut

(* The items an ExtractIf keeps, as it is forgotten.                       *)
LEMMA PendingItems ==
  ASSUME FInv, loop.kind = "extract"
  PROVE  {Item(store, v, i) : i \in Pending} = Apart
<1> DEFINE f == 0 .. loop.idx - loop.del - 1
           r == loop.idx .. loop.old_len - 1
<1>1. Pending = f \cup r
  BY LoopTypes, LoopFacts DEF Pending
<1> HIDE DEF f, r
<1>2. {Item(store, v, i) : i \in Pending} =
        {Item(store, v, i) : i \in f} \cup {Item(store, v, i) : i \in r}
  BY <1>1
<1> QED BY <1>2 DEF Apart, Front, Rest, ItemsFrom, Item, f, r

LEMMA ForgetStep ==
  ASSUME FInv, ForgetExtract
  PROVE  FInv'
<1>1. /\ loop.kind = "extract" /\ loop' = NoLoop /\ leaked' = leaked \cup Apart
      /\ store' = store /\ live' = live /\ caller' = caller /\ dropped' = dropped
  BY PendingItems DEF ForgetExtract, Finish, vars
<1>2. Accounts(store, caller, dropped, live, AtStake \ Apart)
  BY <1>1, AccountsLess DEF FInv, Aside
<1>3. Apart \subseteq AtStake
  BY Disjoint
<1>4. AtStake' = AtStake \ Apart /\ leaked' \subseteq Elems
  BY <1>1, <1>3 DEF AtStake, FInv
<1>5. Accounts(store', caller', dropped', live', AtStake')
  BY <1>1, <1>2, <1>4
<1> QED BY <1>1, <1>4, <1>5, Ended

(* After one question of an ExtractIf: cells holds f below the gap and r   *)
(* from the next item on.                                                  *)
LEMMA AskedOn ==
  ASSUME FInv, loop.kind = "extract", loop.idx < loop.end, NEW cells \in Block,
         FitIn(cells, Capacity(store, v)), store' = Edited(store, v, cells, 0),
         NEW del \in Nat, del <= loop.idx + 1,
         loop' = [loop EXCEPT !.idx = @ + 1, !.del = del],
         live' = live, dropped' = dropped, leaked' = leaked,
         NEW f, NEW r, f \cap r = {}, dropped \cap (f \cup r) = {},
         Holds(cells, 0, loop.idx + 1 - del, f), Holds(cells, loop.idx + 1, loop.old_len, r),
         Shares({}, caller', dropped \cup (f \cup r), caller \cup (dropped \cup Apart))
  PROVE  FInv'
<1> DEFINE none == {}
           zero == 0
           idx  == loop.idx + 1
<1>1. /\ v \in Handles /\ v \in live /\ v \in SmallVecs /\ Bounded(store)
      /\ Capacity(store, v) \in Nat /\ Capacity(store, v) <= MaxCap
      /\ loop.idx \in Nat /\ loop.end \in Nat /\ loop.old_len \in Nat /\ loop.w \in Nat
      /\ loop.end <= loop.old_len /\ loop.old_len <= Capacity(store, v) /\ loop.w <= loop.idx
      /\ loop \in Loops /\ leaked \subseteq Elems
      /\ LenOf(store, v) = 0
      /\ Accounts(store, caller, dropped \cup Apart, live, AtStake)
  BY LoopTypes, LoopFacts DEF FInv, Layout
<1>2. Owned(store, v) = none
  BY <1>1, EmptyOwns
<1>3. Lays(store, v, cells, zero, none)
  <2>1. zero \in Int /\ Holds(cells, zero, zero, none)
    BY HoldsEmpty
  <2> QED BY <1>1, <2>1 DEF Lays
<1>4. Shares(none, caller', dropped \cup (f \cup r), Owned(store, v) \cup caller \cup (dropped \cup Apart))
  BY <1>2 DEF Shares
<1>5. Grown(store, store, v) /\ store' = Edited(store, v, cells, zero)
  BY <1>1, GrownStays
<1> HIDE DEF none, zero
<1>6. /\ Accounts(store', caller', dropped \cup (f \cup r), live, AtStake)
      /\ Wrote(store, store', v, cells, zero)
  BY <1>1, <1>3, <1>4, <1>5, AccountsWrite
<1>7. /\ Cells(store', v) = cells /\ LenOf(store', v) = 0
      /\ Capacity(store', v) = Capacity(store, v)
  BY <1>6 DEF Wrote, zero
<1>8. idx \in 0 .. MaxCap /\ del \in 0 .. MaxCap /\ idx <= loop.end /\ idx \in Nat
      /\ del <= idx /\ loop.w <= idx
  BY <1>1, RawAssumption
<1>9. loop' = [loop EXCEPT !.idx = idx, !.del = del]
  OBVIOUS
<1> HIDE DEF idx
<1>10. /\ loop' \in Loops /\ v' = v /\ loop'.kind = "extract" /\ loop'.idx = idx /\ loop'.del = del
       /\ loop'.end = loop.end /\ loop'.old_len = loop.old_len /\ loop'.w = loop.w
  BY <1>1, <1>8, <1>9 DEF Loops, v
<1>11. Layout'
  BY <1>1, <1>7, <1>8, <1>10 DEF Layout
<1>12. AtStake' = AtStake
  BY DEF AtStake
<1>13. Accounts(store', caller', dropped' \cup (f \cup r), live', AtStake')
  BY <1>6, <1>12
<1>14. /\ Holds(Cells(store', v'), 0, loop'.idx - loop'.del, f)
       /\ Holds(Cells(store', v'), loop'.idx, loop'.old_len, r)
  <2>1. loop'.idx = loop.idx + 1 /\ loop'.idx - loop'.del = loop.idx + 1 - del
    BY <1>1, <1>8, <1>10 DEF idx
  <2>2. Cells(store', v') = cells /\ loop'.old_len = loop.old_len
    BY <1>7, <1>10
  <2> QED BY <2>1, <2>2
<1> QED BY <1>1, <1>10, <1>11, <1>13, <1>14, StillOut

LEMMA ExtractAskStep ==
  ASSUME FInv, NEW rejected \in BOOLEAN, ExtractAsk(rejected)
  PROVE  FInv'
<1> DEFINE src  == Cells(store, v)
           i    == loop.idx
           next == i + 1
           to   == i - loop.del
           last == loop.old_len
           e    == src[i]
           r    == ItemsFrom(src, next, last)
           one  == 1
           zero == 0
           cap  == Capacity(store, v)
<1>1. /\ loop.kind = "extract" /\ i < loop.end
      /\ loop' = [loop EXCEPT !.idx = @ + 1, !.del = IF rejected THEN @ + 1 ELSE @]
      /\ caller' = IF rejected THEN caller \cup {e} ELSE caller
      /\ store' = [store EXCEPT !.mem[AsPtr(store, v)] =
                     IF rejected THEN Wipe(src, i, one) ELSE Shift(src, i, to, one)]
      /\ live' = live /\ dropped' = dropped /\ leaked' = leaked
  BY DEF ExtractAsk, Asking, Cells, Item
<1>2. /\ v \in Handles /\ Sound(store) /\ src \in Block /\ FitIn(src, cap)
      /\ cap \in Nat /\ cap <= MaxCap /\ i \in Nat /\ loop.end \in Nat /\ last \in Nat
      /\ loop.del \in Nat /\ loop.end <= last /\ last <= cap /\ loop.del <= i
      /\ LenOf(store, v) = 0 /\ loop \in Loops
  BY <1>1, LoopTypes, LoopFacts DEF FInv, Layout
<1>3. /\ Holds(src, zero, to, Front) /\ Holds(src, i, last, Rest)
      /\ Front \cap Rest = {} /\ dropped \cap Apart = {} /\ Apart = Front \cup Rest
      /\ caller \cap (dropped \cup Apart) = {}
  BY <1>1, Disjoint DEF FInv, Aside, Apart
<1>4. /\ next \in Nat /\ to \in Nat /\ next = i + 1 /\ to + loop.del = i /\ to <= i
      /\ next <= last /\ one \in Nat /\ zero \in Nat /\ zero <= to
      /\ i + one = next /\ next <= MaxCap /\ to <= MaxCap /\ last <= MaxCap
      /\ i + one <= MaxCap /\ to + one = i + one - loop.del /\ to + one <= next
  BY <1>1, <1>2, RawAssumption
<1>5. Holds(src, i, next, {e})
  BY <1>2, HoldsOne
<1> HIDE DEF src, i, next, to, last, e, one, zero, cap
<1>6. Holds(src, next, last, r) /\ {e} \cap r = {} /\ {e} \cup r = Rest
  <2>1. i \in Int /\ next \in Int /\ last \in Int /\ i <= next
    BY <1>2, <1>4
  <2>2. /\ Holds(src, next, last, ItemsFrom(src, next, last))
        /\ ItemsFrom(src, i, next) \cap ItemsFrom(src, next, last) = {}
        /\ ItemsFrom(src, i, next) \cup ItemsFrom(src, next, last) = Rest
    BY <1>3, <1>4, <2>1, HoldsCut
  <2>3. ItemsFrom(src, i, next) = {e}
    BY <1>5, HoldsItems
  <2> QED BY <2>2, <2>3
<1> HIDE DEF r
<1>7. CASE rejected
  <2> DEFINE cells == Wipe(src, i, one)
             del   == loop.del + 1
  <2>1. store' = Edited(store, v, cells, 0)
    BY <1>1, <1>2, <1>7, InPlaceWrites
  <2>2. cells \in Block /\ FitIn(cells, cap)
    <3>1. i \in Int /\ one \in Int
      BY <1>2, <1>4
    <3> QED BY <1>2, <3>1, WipeType, WipeFits
  <2>3. Holds(cells, zero, to, Front)
    <3>1. to \in Int /\ one \in Int
      BY <1>4
    <3> QED BY <1>2, <1>3, <1>4, <3>1, WipeHolds
  <2>4. Holds(cells, next, last, r)
    <3>1. last \in Int /\ one \in Int /\ i + one <= next
      BY <1>2, <1>4
    <3> QED BY <1>2, <1>4, <1>6, <3>1, WipeHolds
  <2>5. caller' = caller \cup {e}
    BY <1>1, <1>7
  <2>6. Shares({}, caller', dropped \cup (Front \cup r), caller \cup (dropped \cup Apart))
    BY <1>3, <1>6, <2>5 DEF Shares
  <2>7. Front \cap r = {} /\ dropped \cap (Front \cup r) = {}
    BY <1>3, <1>6
  <2>8. del \in Nat /\ del <= loop.idx + 1 /\ loop.idx + 1 - del = to
    BY <1>2, <1>4 DEF i, to
  <2>9. loop' = [loop EXCEPT !.idx = @ + 1, !.del = del]
    BY <1>1, <1>7
  <2> HIDE DEF cells, del
  <2>10. /\ Holds(cells, 0, loop.idx + 1 - del, Front) /\ Holds(cells, loop.idx + 1, loop.old_len, r)
         /\ FitIn(cells, Capacity(store, v)) /\ loop.idx < loop.end
    BY <1>1, <2>2, <2>3, <2>4, <2>8 DEF zero, next, i, last, cap
  <2> QED BY <1>1, <2>1, <2>2, <2>6, <2>7, <2>8, <2>9, <2>10, AskedOn
<1>8. CASE ~rejected
  <2> DEFINE cells == Shift(src, i, to, one)
             del   == loop.del
             f     == Front \cup {e}
             up    == to + one
  <2>1. store' = Edited(store, v, cells, 0)
    BY <1>1, <1>2, <1>8, InPlaceWrites
  <2>2. cells \in Block /\ FitIn(cells, cap)
    <3>1. one \in Int /\ to + one <= cap
      BY <1>2, <1>4
    <3> QED BY <1>2, <1>4, <3>1, ShiftType, ShiftFits
  <2>3. Holds(cells, zero, to, Front)
    <3>1. to \in Int /\ to <= to
      BY <1>4
    <3> QED BY <1>2, <1>3, <1>4, <3>1, ShiftHolds
  <2>4. Holds(cells, next, last, r)
    <3>1. last \in Int /\ i + one <= next
      BY <1>2, <1>4
    <3> QED BY <1>2, <1>4, <1>6, <3>1, ShiftHolds
  <2>5. Holds(cells, to, up, {e})
    <3>1. up = to + one /\ up <= MaxCap /\ next = i + one
      BY <1>4, RawAssumption
    <3> HIDE DEF up
    <3> QED BY <1>2, <1>4, <1>5, <3>1, ShiftBrings
  <2>6. Holds(cells, zero, up, f)
    <3>1. zero \in Int /\ to \in Int /\ up \in Int /\ to <= up /\ Front \cap {e} = {}
      BY <1>3, <1>4, <1>6
    <3> HIDE DEF up, cells
    <3> QED BY <1>4, <2>3, <2>5, <3>1, HoldsJoin
  <2>7. caller' = caller
    BY <1>1, <1>8
  <2>8. Shares({}, caller', dropped \cup (f \cup r), caller \cup (dropped \cup Apart))
    BY <1>3, <1>6, <2>7 DEF Shares
  <2>9. f \cap r = {} /\ dropped \cap (f \cup r) = {}
    BY <1>3, <1>6
  <2>10. del \in Nat /\ del <= loop.idx + 1 /\ loop.idx + 1 - del = up
    BY <1>2, <1>4 DEF i, to, one
  <2>11. loop' = [loop EXCEPT !.idx = @ + 1, !.del = del]
    BY <1>1, <1>8
  <2> HIDE DEF cells, del, f, up
  <2>12. /\ Holds(cells, 0, loop.idx + 1 - del, f) /\ Holds(cells, loop.idx + 1, loop.old_len, r)
         /\ FitIn(cells, Capacity(store, v)) /\ loop.idx < loop.end
    BY <1>1, <2>2, <2>4, <2>6, <2>10 DEF zero, next, i, last, cap
  <2> QED BY <1>1, <2>1, <2>2, <2>8, <2>9, <2>10, <2>11, <2>12, AskedOn
<1> QED BY <1>7, <1>8

(* The rest moves down behind what was passed over.                        *)
LEMMA DropExtractStep ==
  ASSUME FInv, DropExtract
  PROVE  FInv'
<1> DEFINE src   == Cells(store, v)
           i     == loop.idx
           del   == loop.del
           to    == i - del
           last  == loop.old_len
           rest  == last - i
           n     == last - del
           cap   == Capacity(store, v)
           zero  == 0
           cells == IF rest > 0 /\ del > 0 THEN Shift(src, i, to, rest) ELSE src
<1>1. /\ loop.kind = "extract" /\ loop' = NoLoop
      /\ store' = Edited(store, v, cells, n)
      /\ live' = live /\ caller' = caller /\ dropped' = dropped /\ leaked' = leaked
  BY DEF DropExtract, Finish
<1>2. /\ v \in Handles /\ v \in live /\ Bounded(store) /\ src \in Block /\ FitIn(src, cap)
      /\ cap \in Nat /\ cap <= MaxCap /\ i \in Nat /\ del \in Nat /\ last \in Nat
      /\ i <= last /\ last <= cap /\ del <= i
      /\ LenOf(store, v) = 0 /\ leaked \subseteq Elems
      /\ Accounts(store, caller, dropped \cup Apart, live, AtStake)
  BY <1>1, LoopTypes, LoopFacts DEF FInv, Layout
<1>3. /\ Holds(src, zero, to, Front) /\ Holds(src, i, last, Rest)
      /\ Front \cap Rest = {} /\ dropped \cap Apart = {} /\ Apart = Front \cup Rest
      /\ caller \cap (dropped \cup Apart) = {} /\ caller \cap dropped = {}
  BY <1>1, Disjoint DEF FInv, Aside, Apart
<1>4. /\ to \in Nat /\ rest \in Nat /\ n \in Nat /\ zero \in Nat /\ zero <= to /\ to <= i
      /\ n = to + rest /\ i + rest = last /\ to <= n /\ n <= cap /\ n <= last
      /\ to <= MaxCap /\ n <= MaxCap /\ last <= MaxCap /\ i + rest <= MaxCap
      /\ to + rest <= cap
  BY <1>2, RawAssumption
<1>5. /\ rest = 0 => n = to /\ last <= i
      /\ del = 0 => n = last /\ to = i
  BY <1>2
<1> HIDE DEF src, i, del, to, last, rest, n, cap, zero
<1>6. /\ cells \in Block /\ FitIn(cells, cap)
      /\ Holds(cells, zero, to, Front) /\ Holds(cells, to, n, Rest)
  <2>1. CASE rest > 0 /\ del > 0
    <3> DEFINE moved == Shift(src, i, to, rest)
    <3>1. moved \in Block /\ FitIn(moved, cap)
      <4>1. rest \in Int
        BY <1>4
      <4> QED BY <1>2, <1>4, <4>1, ShiftType, ShiftFits
    <3>2. Holds(moved, zero, to, Front)
      <4>1. to \in Int /\ to <= to
        BY <1>4
      <4> QED BY <1>2, <1>3, <1>4, <4>1, ShiftHolds
    <3>3. Holds(moved, to, n, Rest)
      <4>1. last = i + rest
        BY <1>4
      <4> QED BY <1>2, <1>3, <1>4, <4>1, ShiftBrings
    <3>4. cells = moved
      BY <2>1
    <3> QED BY <3>1, <3>2, <3>3, <3>4
  <2>2. CASE ~(rest > 0 /\ del > 0)
    <3>1. cells = src
      BY <2>2
    <3>2. Holds(src, to, n, Rest)
      <4>1. CASE del = 0
        BY <1>3, <1>5, <4>1
      <4>2. CASE rest = 0
        <5>1. Rest = {}
          BY <1>2, <1>3, <1>5, <4>2 DEF Holds
        <5>2. to \in Int /\ n \in Int /\ n <= to
          BY <1>4, <1>5, <4>2
        <5> QED BY <5>1, <5>2, HoldsEmpty
      <4>3. rest = 0 \/ del = 0
        BY <1>2, <1>4, <2>2
      <4> QED BY <4>1, <4>2, <4>3
    <3> QED BY <1>2, <1>3, <3>1, <3>2
  <2> QED BY <2>1, <2>2
<1> HIDE DEF cells
<1>7. Lays(store, v, cells, n, Apart)
  <2>1. Holds(cells, zero, n, Front \cup Rest)
    <3>1. zero \in Int /\ to \in Int /\ n \in Int
      BY <1>4
    <3> QED BY <1>3, <1>4, <1>6, <3>1, HoldsJoin
  <2> QED BY <1>3, <1>4, <1>6, <2>1 DEF Lays, cap, zero
<1>8. Shares(Apart, caller, dropped, Owned(store, v) \cup caller \cup (dropped \cup Apart))
  <2>1. Owned(store, v) = {}
    BY <1>2, EmptyOwns
  <2> QED BY <1>3, <2>1 DEF Shares
<1>9. Grown(store, store, v)
  BY <1>2, GrownStays
<1>10. Accounts(store', caller, dropped, live, AtStake)
  BY <1>1, <1>2, <1>7, <1>8, <1>9, AccountsWrite
<1>11. AtStake' = AtStake
  BY <1>1 DEF AtStake
<1>12. Accounts(store', caller', dropped', live', AtStake') /\ leaked' \subseteq Elems
  BY <1>1, <1>2, <1>10, <1>11
<1> QED BY <1>1, <1>12, Ended

----------------------------------------------------------------------------
(* retain_mut and dedup_by.                                                *)

LEMMA SwapType ==
  ASSUME NEW src \in Block, NEW c \in Nat, c <= MaxCap, FitIn(src, c),
         NEW i \in Nat, NEW j \in Nat, i < c, j < c
  PROVE  /\ Swap(src, i, j) \in Block /\ FitIn(Swap(src, i, j), c)
         /\ \A k \in Slots : Swap(src, i, j)[k] =
              src[IF k = j THEN i ELSE IF k = i THEN j ELSE k]
<1>1. i \in Slots /\ j \in Slots
  BY RawAssumption DEF Slots
<1>2. Swap(src, i, j) \in Block
  BY <1>1 DEF Swap, Block
<1>3. \A k \in Slots : Swap(src, i, j)[k] =
         src[IF k = j THEN i ELSE IF k = i THEN j ELSE k]
  BY <1>1 DEF Swap, Block
<1>4. FitIn(Swap(src, i, j), c)
  <2> SUFFICES ASSUME NEW k \in Slots, k >= c
               PROVE  Swap(src, i, j)[k] = Uninit
    BY DEF FitIn
  <2>1. k # i /\ k # j
    BY DEF Slots
  <2> QED BY <1>3, <2>1 DEF FitIn
<1> QED BY <1>2, <1>3, <1>4

(* The cells below n hold the same elements, in another order.             *)
LEMMA SwapHolds ==
  ASSUME NEW src \in Block, NEW c \in Nat, c <= MaxCap, FitIn(src, c),
         NEW n \in Nat, n <= c, NEW i \in Nat, NEW j \in Nat, i < n, j < n,
         NEW X, Holds(src, 0, n, X)
  PROVE  Holds(Swap(src, i, j), 0, n, X)
<1> DEFINE cells == Swap(src, i, j)
           low   == 0 .. n - 1
           f(k)  == IF k = j THEN i ELSE IF k = i THEN j ELSE k
<1>1. \A k \in low : cells[k] = src[f(k)]
  <2>1. i < c /\ j < c
    OBVIOUS
  <2>2. \A k \in Slots : cells[k] = src[f(k)]
    BY <2>1, SwapType
  <2>3. \A k \in low : k \in Slots
    BY RawAssumption DEF Slots
  <2> HIDE DEF cells, low, f
  <2> QED BY <2>2, <2>3
<1>2. \A k \in low : f(k) \in low /\ f(f(k)) = k
  OBVIOUS
<1>3. \A k, l \in low : src[k] = src[l] => k = l
  BY DEF Holds
<1>4. /\ \A k \in low : src[k] \in X
      /\ \A x \in X : \E k \in low : src[k] = x
  BY DEF Holds
<1> HIDE DEF cells, low, f
<1>5. \A k, l \in low : cells[k] = cells[l] => k = l
  <2> SUFFICES ASSUME NEW k \in low, NEW l \in low, cells[k] = cells[l]
               PROVE  k = l
    OBVIOUS
  <2>1. f(k) = f(l)
    BY <1>1, <1>2, <1>3
  <2> QED BY <1>2, <2>1
<1>6. \A x \in X : \E k \in low : cells[k] = x
  <2> SUFFICES ASSUME NEW x \in X PROVE \E k \in low : cells[k] = x
    OBVIOUS
  <2>1. PICK k \in low : src[k] = x
    BY <1>4
  <2>2. f(k) \in low /\ cells[f(k)] = src[f(f(k))] /\ f(f(k)) = k
    BY <1>1, <1>2
  <2> QED BY <2>1, <2>2
<1>7. \A k \in low : cells[k] \in X
  BY <1>1, <1>2, <1>4
<1> QED BY <1>5, <1>6, <1>7 DEF Holds, cells, low

(* The vector of the loop is another order of its items.                   *)
LEMMA KeepAccounts ==
  ASSUME FInv, loop.kind \in {"retain", "dedup"}, NEW i \in Nat, NEW j \in Nat,
         i < loop.end, j < loop.end, Keep(i, j)
  PROVE  /\ Accounts(store', caller, dropped, live, AtStake)
         /\ LenOf(store', v) = LenOf(store, v) /\ Capacity(store', v) = Capacity(store, v)
         /\ Owned(store', v) = Owned(store, v)
         /\ i # j => Cells(store', v) = Swap(Cells(store, v), i, j)
         /\ i = j => Cells(store', v) = Cells(store, v)
<1> DEFINE src   == Cells(store, v)
           cap   == Capacity(store, v)
           n     == LenOf(store, v)
           cells == IF i # j THEN Swap(src, i, j) ELSE src
           owned == Owned(store, v)
<1>1. /\ v \in Handles /\ v \in live /\ Bounded(store) /\ Sound(store)
      /\ src \in Block /\ FitIn(src, cap)
      /\ cap \in Nat /\ cap <= MaxCap /\ n \in Nat /\ n <= cap /\ i < n /\ j < n
      /\ Accounts(store, caller, dropped, live, AtStake)
  BY NoneApart, LoopTypes, LoopFacts DEF FInv, Layout
<1>2. store' = Edited(store, v, cells, n)
  <2>1. store' = [store EXCEPT !.mem[AsPtr(store, v)] = cells]
    BY DEF Keep, Cells
  <2> HIDE DEF cells
  <2> QED BY <1>1, <2>1, InPlaceWrites
<1>3. Holds(src, 0, n, owned)
  <2>1. Distinct(store, v)
    BY <1>1 DEF Accounts, Own
  <2> QED BY <2>1, HoldsOwned
<1> HIDE DEF src, cap, n, owned
<1>4. cells \in Block /\ FitIn(cells, cap) /\ Holds(cells, 0, n, owned)
  <2>1. Swap(src, i, j) \in Block /\ FitIn(Swap(src, i, j), cap)
    <3>1. i < cap /\ j < cap
      BY <1>1
    <3> QED BY <1>1, <3>1, SwapType
  <2>2. Holds(Swap(src, i, j), 0, n, owned)
    BY <1>1, <1>3, SwapHolds
  <2> QED BY <1>1, <1>3, <2>1, <2>2
<1> HIDE DEF cells
<1>5. Lays(store, v, cells, n, owned)
  BY <1>1, <1>4 DEF Lays, cap
<1>6. Shares(owned, caller, dropped, owned \cup caller \cup dropped)
  BY <1>1 DEF Accounts, Own, Shares, owned
<1>7. Grown(store, store, v)
  BY <1>1, GrownStays
<1>8. Accounts(store', caller, dropped, live, AtStake) /\ Wrote(store, store', v, cells, n)
  BY <1>1, <1>2, <1>5, <1>6, <1>7, AccountsWrite DEF owned
<1>9. LenOf(store', v) = n /\ Cells(store', v) = cells /\ Capacity(store', v) = cap
  BY <1>8 DEF Wrote, cap
<1>10. Owned(store', v) = owned
  BY <1>4, <1>9, OwnedHolds
<1>11. /\ i # j => cells = Swap(src, i, j)
       /\ i = j => cells = src
  BY DEF cells
<1> QED BY <1>8, <1>9, <1>10, <1>11 DEF n, cap, owned, src

(* The loop goes on to its next item.                                      *)
GoesOn ==
  /\ loop' \in Loops /\ v' = v /\ loop'.kind = loop.kind
  /\ loop'.idx = loop.idx + 1 /\ loop'.end = loop.end /\ loop'.old_len = loop.old_len
  /\ loop'.del <= loop'.idx /\ loop'.w <= loop'.idx

LEMMA AskStep ==
  ASSUME FInv, loop.kind \in {"retain", "dedup"}, loop.idx < loop.end, GoesOn,
         NEW rejected \in BOOLEAN, NEW j \in Nat, j <= loop.idx,
         IF rejected THEN UNCHANGED store ELSE Keep(loop.idx, j),
         live' = live, caller' = caller, dropped' = dropped, leaked' = leaked
  PROVE  FInv'
<1>1. /\ loop.idx \in Nat /\ loop.end \in Nat /\ v \in live /\ v \in SmallVecs
      /\ loop.end <= loop.old_len /\ loop.old_len <= Capacity(store, v)
      /\ LenOf(store, v) = loop.old_len /\ loop.end = loop.old_len
      /\ leaked \subseteq Elems
  BY LoopTypes, LoopFacts DEF FInv, Layout
<1>2. /\ Accounts(store', caller, dropped, live, AtStake)
      /\ LenOf(store', v) = LenOf(store, v) /\ Capacity(store', v) = Capacity(store, v)
  <2>1. CASE rejected
    BY <2>1, NoneApart
  <2>2. CASE ~rejected
    <3>1. Keep(loop.idx, j) /\ j < loop.end
      BY <1>1, <2>2
    <3> QED BY <1>1, <3>1, KeepAccounts
  <2> QED BY <2>1, <2>2
<1>3. AtStake' = AtStake
  BY DEF AtStake
<1>4. Accounts(store', caller', dropped', live', AtStake')
  BY <1>2, <1>3
<1>5. Layout'
  BY <1>1, <1>2 DEF Layout, GoesOn
<1>6. loop' \in Loops /\ leaked' \subseteq Elems /\ loop'.kind \in {"retain", "dedup"}
  BY <1>1 DEF GoesOn
<1> QED BY <1>4, <1>5, <1>6, StillIn

LEMMA RetainAskStep ==
  ASSUME FInv, NEW rejected \in BOOLEAN, RetainAsk(rejected)
  PROVE  FInv'
<1> DEFINE idx == loop.idx + 1
           del == IF rejected THEN loop.del + 1 ELSE loop.del
           j   == loop.idx - loop.del
<1>1. /\ loop.kind = "retain" /\ loop.idx < loop.end
      /\ loop' = [loop EXCEPT !.idx = idx, !.del = del]
      /\ IF rejected THEN UNCHANGED store ELSE Keep(loop.idx, j)
      /\ live' = live /\ caller' = caller /\ dropped' = dropped /\ leaked' = leaked
  BY DEF RetainAsk, Asking
<1>2. /\ loop.idx \in Nat /\ loop.del \in Nat /\ loop.w \in Nat /\ loop.end \in Nat
      /\ loop.end <= MaxCap /\ loop.del <= loop.idx /\ loop.w <= loop.idx /\ loop \in Loops
  BY <1>1, LoopTypes, LoopFacts, RawAssumption DEF FInv, Loops
<1>3. /\ idx \in 0 .. MaxCap /\ del \in 0 .. MaxCap /\ del <= idx /\ loop.w <= idx
      /\ j \in Nat /\ j <= loop.idx
  BY <1>1, <1>2, RawAssumption
<1> HIDE DEF idx, del, j
<1>4. GoesOn
  <2>1. /\ loop' \in Loops /\ v' = v /\ loop'.kind = loop.kind /\ loop'.idx = idx
        /\ loop'.del = del /\ loop'.end = loop.end /\ loop'.old_len = loop.old_len
        /\ loop'.w = loop.w
    BY <1>1, <1>2, <1>3 DEF Loops, v
  <2> QED BY <1>3, <2>1 DEF GoesOn, idx
<1>5. loop.kind \in {"retain", "dedup"}
  BY <1>1
<1> QED BY <1>1, <1>3, <1>4, <1>5, AskStep

LEMMA DedupAskStep ==
  ASSUME FInv, NEW rejected \in BOOLEAN, DedupAsk(rejected)
  PROVE  FInv'
<1> DEFINE idx == loop.idx + 1
           w   == IF rejected THEN loop.w ELSE loop.w + 1
           j   == loop.w
<1>1. /\ loop.kind = "dedup" /\ loop.idx < loop.end
      /\ loop' = [loop EXCEPT !.idx = idx, !.w = w]
      /\ IF rejected THEN UNCHANGED store ELSE Keep(loop.idx, j)
      /\ live' = live /\ caller' = caller /\ dropped' = dropped /\ leaked' = leaked
  BY DEF DedupAsk, Asking
<1>2. /\ loop.idx \in Nat /\ loop.del \in Nat /\ loop.w \in Nat /\ loop.end \in Nat
      /\ loop.end <= MaxCap /\ loop.del <= loop.idx /\ loop.w <= loop.idx /\ loop \in Loops
  BY <1>1, LoopTypes, LoopFacts, RawAssumption DEF FInv, Loops
<1>3. /\ idx \in 0 .. MaxCap /\ w \in 0 .. MaxCap /\ w <= idx /\ loop.del <= idx
      /\ j \in Nat /\ j <= loop.idx
  BY <1>1, <1>2, RawAssumption
<1> HIDE DEF idx, w, j
<1>4. GoesOn
  <2>1. /\ loop' \in Loops /\ v' = v /\ loop'.kind = loop.kind /\ loop'.idx = idx
        /\ loop'.w = w /\ loop'.end = loop.end /\ loop'.old_len = loop.old_len
        /\ loop'.del = loop.del
    BY <1>1, <1>2, <1>3 DEF Loops, v
  <2> QED BY <1>3, <2>1 DEF GoesOn, idx
<1>5. loop.kind \in {"retain", "dedup"}
  BY <1>1
<1> QED BY <1>1, <1>3, <1>4, <1>5, AskStep

(* The items from n on are dropped.                                        *)
LEMMA CutKeeps ==
  ASSUME FInv, loop.kind # "none", loop.kind # "extract",
         NEW n \in Nat, n <= LenOf(store, v), CutTo(v, n)
  PROVE  Accounts(store', caller', dropped', live', AtStake)
<1> DEFINE src   == Cells(store, v)
           cap   == Capacity(store, v)
           len   == LenOf(store, v)
           many  == len - n
           cells == Wipe(src, n, many)
           zero  == 0
           kept  == ItemsFrom(src, zero, n)
           gone  == ItemsFrom(src, n, len)
           owned == Owned(store, v)
<1>1. /\ v \in Handles /\ v \in live /\ Bounded(store) /\ Sound(store)
      /\ src \in Block /\ FitIn(src, cap)
      /\ cap \in Nat /\ cap <= MaxCap /\ len \in Nat /\ len <= cap
      /\ Accounts(store, caller, dropped, live, AtStake)
  <2>1. v \in live /\ Bounded(store) /\ Sound(store) /\ src \in Block /\ FitIn(src, cap)
        /\ cap \in Nat /\ cap <= MaxCap
    BY LoopFacts
  <2>2. v \in Handles /\ Accounts(store, caller, dropped, live, AtStake)
    BY NoneApart, LoopTypes
  <2> QED BY <2>1, <2>2, SoundLen
<1>2. /\ store' = Edited(store, v, cells, n) /\ live' = live /\ caller' = caller
      /\ dropped' = dropped \cup gone
  BY DEF CutTo, ItemsFrom, Item
<1>3. Holds(src, zero, len, owned)
  <2>1. Distinct(store, v)
    BY <1>1 DEF Accounts, Own
  <2> QED BY <2>1, HoldsOwned
<1>4. /\ many \in Int /\ n + many = len /\ zero \in Nat /\ zero \in Int /\ n \in Int /\ len \in Int
      /\ zero <= n /\ n <= len /\ n <= cap /\ n <= MaxCap /\ n <= n
  BY <1>1, RawAssumption
<1> HIDE DEF src, cap, len, many, zero, owned
<1>5. /\ Holds(src, zero, n, kept)
      /\ kept \cap gone = {} /\ kept \cup gone = owned
  BY <1>3, <1>4, HoldsCut
<1> HIDE DEF kept, gone
<1>6. cells \in Block /\ FitIn(cells, cap)
  BY <1>1, <1>4, WipeType, WipeFits
<1>7. Holds(cells, zero, n, kept)
  BY <1>1, <1>4, <1>5, WipeHolds
<1> HIDE DEF cells
<1>8. Lays(store, v, cells, n, kept)
  BY <1>4, <1>6, <1>7 DEF Lays, cap, zero
<1>9. Shares(kept, caller, dropped \cup gone, owned \cup caller \cup dropped)
  <2>1. owned \cap (caller \cup dropped) = {} /\ caller \cap dropped = {}
    BY <1>1 DEF Accounts, Own, owned
  <2> QED BY <1>5, <2>1 DEF Shares
<1>10. Grown(store, store, v)
  BY <1>1, GrownStays
<1>11. Accounts(store', caller, dropped \cup gone, live, AtStake)
  BY <1>1, <1>2, <1>8, <1>9, <1>10, AccountsWrite DEF owned
<1> QED BY <1>2, <1>11

LEMMA EndStep ==
  ASSUME FInv, LoopEnds \/ LoopPanics
  PROVE  FInv'
<1>1. /\ loop' = NoLoop /\ leaked' = leaked /\ leaked \subseteq Elems
      /\ loop.kind \in {"retain", "dedup"}
  BY DEF LoopEnds, LoopPanics, Asking, Finish, FInv
<1>2. Accounts(store', caller', dropped', live', AtStake)
  <2>1. CASE LoopPanics
    <3>1. store' = store /\ live' = live /\ caller' = caller /\ dropped' = dropped
      BY <2>1 DEF LoopPanics, vars
    <3> QED BY <1>1, <3>1, NoneApart
  <2>2. CASE LoopEnds
    <3> DEFINE n == IF loop.kind = "retain" THEN loop.end - loop.del ELSE loop.w
    <3>1. /\ loop.idx \in Nat /\ loop.end \in Nat /\ loop.del \in Nat /\ loop.w \in Nat
          /\ loop.idx = loop.end /\ loop.del <= loop.idx /\ loop.w <= loop.idx
          /\ LenOf(store, v) = loop.end /\ CutTo(v, n)
      BY <1>1, <2>2, LoopTypes, LoopFacts DEF LoopEnds, FInv, Layout
    <3>2. n \in Nat /\ n <= LenOf(store, v)
      BY <3>1
    <3> HIDE DEF n
    <3> QED BY <1>1, <3>1, <3>2, CutKeeps
  <2> QED BY <2>1, <2>2
<1>3. AtStake' = AtStake
  BY <1>1 DEF AtStake
<1>4. Accounts(store', caller', dropped', live', AtStake') /\ leaked' \subseteq Elems
  BY <1>1, <1>2, <1>3
<1> QED BY <1>1, <1>4, Ended

LEMMA StutterKeeps ==
  ASSUME FInv, UNCHANGED allVars
  PROVE  FInv'
<1>1. /\ store' = store /\ live' = live /\ caller' = caller /\ dropped' = dropped
      /\ loop' = loop /\ leaked' = leaked
  BY DEF allVars, vars, fvars
<1>2. v' = v /\ AtStake' = AtStake
  BY <1>1 DEF v, AtStake
<1>3. Front' = Front /\ Rest' = Rest
  BY <1>1, <1>2 DEF Front, Rest
<1>4. Apart' = Apart
  BY <1>1, <1>3 DEF Apart
<1>5. Layout' /\ Aside'
  BY <1>1, <1>2, <1>3, <1>4 DEF FInv, Layout, Aside
<1> QED BY <1>1, <1>2, <1>4, <1>5 DEF FInv

LEMMA FilterStep ==
  ASSUME FInv, [FilterNext]_allVars
  PROVE  FInv'
<1>1. CASE Program
  BY <1>1, ProgramStep
<1>2. ASSUME NEW h \in Handles, Retain(h) \/ Dedup(h)
      PROVE  FInv'
  BY <1>2, BeginStep
<1>3. ASSUME NEW h \in Handles, NEW start \in 0 .. MaxCap, NEW end \in 0 .. MaxCap,
             ExtractIf(h, start, end)
      PROVE  FInv'
  <2>1. start \in Nat /\ end \in Nat
    BY RawAssumption
  <2> QED BY <1>3, <2>1, ExtractBegins
<1>4. ASSUME NEW rejected \in BOOLEAN,
             ExtractAsk(rejected) \/ RetainAsk(rejected) \/ DedupAsk(rejected)
      PROVE  FInv'
  BY <1>4, ExtractAskStep, RetainAskStep, DedupAskStep
<1>5. CASE ExtractPanics
  BY <1>5, StutterKeeps DEF ExtractPanics
<1>6. CASE DropExtract
  BY <1>6, DropExtractStep
<1>7. CASE ForgetExtract
  BY <1>7, ForgetStep
<1>8. CASE LoopEnds \/ LoopPanics
  BY <1>8, EndStep
<1>9. CASE UNCHANGED allVars
  BY <1>9, StutterKeeps
<1> QED BY <1>1, <1>2, <1>3, <1>4, <1>5, <1>6, <1>7, <1>8, <1>9 DEF FilterNext

LEMMA FilterInvariant == FilterSpec => []FInv
<1>1. FilterInit => FInv
  BY InitFilter
<1>2. FInv /\ [FilterNext]_allVars => FInv'
  BY FilterStep
<1> QED BY <1>1, <1>2, PTL DEF FilterSpec

----------------------------------------------------------------------------
(* What follows from the invariant.                                        *)

(* Whatever the closure answers and wherever it panics, no loop reaches    *)
(* past the length it found, and what it hands out or drops is an element. *)
THEOREM FilterTypeCorrect == FilterSpec => []FilterTypeOK
<1>1. FInv => FilterTypeOK
  <2> SUFFICES ASSUME FInv PROVE FilterTypeOK
    OBVIOUS
  <2>1. TypeOK
    <3>1. store \in Storage /\ live \subseteq Handles
      BY DEF FInv, Accounts, Bounded, Sound
    <3>2. caller \subseteq Elems /\ dropped \subseteq Elems
      BY DEF FInv, Accounts, Own, AtStake
    <3> QED BY <3>1, <3>2 DEF TypeOK
  <2>2. loop.idx <= loop.end /\ loop.end <= loop.old_len
    <3>1. CASE loop.kind = "none"
      BY <3>1 DEF FInv, Layout, NoLoop
    <3> QED BY <3>1 DEF FInv, Layout
  <2> QED BY <2>1, <2>2 DEF FInv, Loops, Kinds, FilterTypeOK
<1> QED BY <1>1, FilterInvariant, PTL

(* The cells I of h are those of the elements X, one each.                 *)
Uses(h, I, X) ==
  /\ \A i \in I : Item(store, h, i) \in X
  /\ \A i, j \in I : Item(store, h, i) = Item(store, h, j) => i = j
  /\ \A x \in X : \E i \in I : Item(store, h, i) = x

Used(h) == IF loop.kind = "extract" /\ h = v THEN Apart ELSE Owned(store, h)

LEMMA InUseUsed ==
  ASSUME FInv, NEW h \in live
  PROVE  Uses(h, InUse(h), Used(h))
<1> DEFINE len == LenOf(store, h)
<1>1. /\ h \in Handles /\ Sound(store) /\ Distinct(store, h)
  BY DEF FInv, Accounts, Own, Bounded
<1>2. Holds(Cells(store, h), 0, len, Owned(store, h)) /\ len \in Nat /\ len <= MaxCap
  BY <1>1, HoldsOwned, SoundLen, RawAssumption
<1>3. CASE ~(loop.kind = "extract" /\ h = v)
  <2>1. InUse(h) = 0 .. len - 1
    BY <1>2, <1>3, RawAssumption DEF InUse, Slots
  <2>2. Used(h) = Owned(store, h)
    BY <1>3 DEF Used
  <2> QED BY <1>2, <2>1, <2>2 DEF Uses, Holds, Item
<1>4. CASE loop.kind = "extract" /\ h = v
  <2> DEFINE front == 0 .. loop.idx - loop.del - 1
             rest  == loop.idx .. loop.old_len - 1
  <2>1. /\ loop.idx \in Nat /\ loop.del \in Nat /\ loop.old_len \in Nat
        /\ loop.idx <= loop.old_len /\ loop.del <= loop.idx /\ loop.old_len <= MaxCap
        /\ len = 0
    <3>1. /\ loop.idx \in Nat /\ loop.del \in Nat /\ loop.old_len \in Nat /\ loop.end \in Nat
          /\ loop.old_len <= MaxCap
      BY LoopTypes, RawAssumption DEF FInv, Loops
    <3>2. loop.idx <= loop.end /\ loop.end <= loop.old_len /\ loop.del <= loop.idx
      BY <1>4, LoopFacts
    <3> QED BY <1>4, <3>1, <3>2 DEF FInv, Layout
  <2>2. InUse(h) = front \cup rest
    BY <1>2, <1>4, <2>1, RawAssumption DEF InUse, Pending, Slots
  <2>3. Used(h) = Front \cup Rest
    BY <1>4 DEF Used, Apart
  <2>4. /\ Holds(Cells(store, h), 0, loop.idx - loop.del, Front)
        /\ Holds(Cells(store, h), loop.idx, loop.old_len, Rest)
        /\ Front \cap Rest = {}
    BY <1>4 DEF FInv, Aside
  <2>5. Uses(h, front, Front) /\ Uses(h, rest, Rest)
    BY <2>4 DEF Holds, Uses, Item
  <2> HIDE DEF front, rest
  <2> QED BY <2>2, <2>3, <2>4, <2>5 DEF Uses
<1> QED BY <1>3, <1>4

LEMMA UsedParted ==
  ASSUME FInv
  PROVE  /\ \A h, k \in live : h # k => Used(h) \cap Used(k) = {}
         /\ \A h \in live : Used(h) \subseteq AtStake /\ Used(h) \cap (caller \cup dropped) = {}
         /\ caller \cap dropped = {} /\ caller \cup dropped \subseteq AtStake
         /\ \A e \in AtStake : e \in caller \cup dropped \/ \E h \in live : e \in Used(h)
<1>1. /\ Own(store, caller, dropped \cup Apart, AtStake) /\ DeadEmpty(store, live)
      /\ live \subseteq Handles /\ dropped \cap Apart = {}
  BY DEF FInv, Accounts, Aside, Apart
<1>2. loop.kind = "extract" => v \in live /\ Owned(store, v) = {}
  BY EmptyOwns DEF FInv, Layout
<1>3. loop.kind # "extract" => Apart = {}
  BY DEF Apart
<1>4. /\ \A h \in live : h # v => Used(h) = Owned(store, h)
      /\ loop.kind = "extract" => Used(v) = Apart
      /\ loop.kind # "extract" => Used(v) = Owned(store, v)
  BY DEF Used
<1>5. \A h \in Handles \ live : Owned(store, h) = {}
  BY <1>1, EmptyOwns DEF DeadEmpty
<1>6. \A h \in live : Used(h) \subseteq Owned(store, h) \/ (h = v /\ Used(h) = Apart)
  BY DEF Used
<1>7. ASSUME NEW e \in AtStake
      PROVE  e \in caller \cup dropped \/ \E h \in live : e \in Used(h)
  <2>1. CASE e \in caller \cup dropped
    BY <2>1
  <2>2. CASE e \in Apart
    BY <1>2, <1>3, <1>4, <2>2
  <2>3. ASSUME NEW h \in Handles, e \in Owned(store, h)
        PROVE  h \in live /\ e \in Used(h)
    BY <1>2, <1>5, <2>3 DEF Used
  <2> QED BY <1>1, <2>1, <2>2, <2>3 DEF Own
<1>8. \A h, k \in live : h # k => Used(h) \cap Used(k) = {}
  BY <1>1, <1>6 DEF Own
<1>9. /\ \A h \in live : Used(h) \subseteq AtStake /\ Used(h) \cap (caller \cup dropped) = {}
      /\ caller \cap dropped = {} /\ caller \cup dropped \subseteq AtStake
  <2>1. /\ \A h \in live : Owned(store, h) \subseteq AtStake
        /\ \A h \in live : Owned(store, h) \cap (caller \cup dropped) = {}
        /\ Apart \subseteq AtStake /\ Apart \cap (caller \cup dropped) = {}
        /\ caller \cap dropped = {} /\ caller \cup dropped \subseteq AtStake
    BY <1>1 DEF Own
  <2> HIDE DEF Used
  <2> QED BY <1>6, <2>1
<1> QED BY <1>7, <1>8, <1>9

(* Between any two questions, after a panic and after a mem::forget, every *)
(* element is in one place: a cell that a vector or its ExtractIf uses,    *)
(* the program, the dropped ones, or the leaked ones, which only           *)
(* forgetting an ExtractIf adds to.                                        *)
THEOREM FilterAccountsForAll == FilterSpec => []FilterAccountedFor
<1>1. ASSUME FInv
      PROVE  EachElementOnce(live, InUse, leaked)
  <2>1. ASSUME NEW h \in live, NEW i \in InUse(h)
        PROVE  Item(store, h, i) \in Used(h)
    BY <1>1, <2>1, InUseUsed DEF Uses
  <2>2. \A h \in live : \A i \in InUse(h) : Item(store, h, i) \in Elems \ (caller \cup dropped \cup leaked)
    BY <1>1, <2>1, UsedParted DEF AtStake
  <2>3. ASSUME NEW h \in live, NEW k \in live, NEW i \in InUse(h), NEW j \in InUse(k),
               Item(store, h, i) = Item(store, k, j)
        PROVE  h = k /\ i = j
    <3>1. h = k
      BY <1>1, <2>1, <2>3, UsedParted
    <3>2. i = j
      BY <1>1, <2>3, <3>1, InUseUsed DEF Uses
    <3> QED BY <3>1, <3>2
  <2>4. caller \cap dropped = {} /\ leaked \cap (caller \cup dropped) = {}
    BY <1>1, UsedParted DEF AtStake
  <2> DEFINE held == UNION {{Item(store, h, i) : i \in InUse(h)} : h \in live}
  <2>5. \A e \in Elems : e \in caller \cup dropped \cup leaked \cup held
    <3>1. ASSUME NEW e \in Elems, e \notin caller \cup dropped \cup leaked
          PROVE  e \in held
      <4>1. PICK h \in live : e \in Used(h)
        BY <1>1, <3>1, UsedParted DEF AtStake
      <4>2. PICK i \in InUse(h) : Item(store, h, i) = e
        BY <1>1, <4>1, InUseUsed DEF Uses
      <4> QED BY <4>2
    <3> QED BY <3>1
  <2>6. caller \cup dropped \cup leaked \subseteq Elems
    BY <1>1, UsedParted DEF AtStake, FInv
  <2>7. held \subseteq Elems
    BY <2>2
  <2> HIDE DEF held
  <2>8. Elems = caller \cup dropped \cup leaked \cup held
    BY <2>5, <2>6, <2>7
  <2> QED BY <2>2, <2>3, <2>4, <2>8 DEF EachElementOnce, held
<1>2. FInv => FilterAccountedFor
  BY <1>1 DEF FilterAccountedFor
<1> QED BY <1>2, FilterInvariant, PTL

----------------------------------------------------------------------------
(* Induction, for a set of numbers.                                        *)

LEMMA LeastNumber ==
  ASSUME NEW T, T \subseteq Nat, T # {}
  PROVE  \E x \in T : \A y \in T : x <= y
<1> DEFINE R == OpToRel(<, Nat)
<1>1. IsWellFoundedOn(R, Nat)
  BY NatLessThanWellFounded
<1>2. \A x, y \in Nat : x < y => <<x, y>> \in R
  BY DEF OpToRel
<1> HIDE DEF R
<1>3. PICK x \in T : \A y \in T : ~(<<y, x>> \in R)
  BY <1>1, WFMin
<1>4. \A y \in T : x \in Nat /\ y \in Nat /\ ~(y < x)
  BY <1>2, <1>3
<1> QED BY <1>3, <1>4

LEMMA Counting ==
  ASSUME NEW S, NEW m \in Nat, m \in S, \A n \in Nat : n >= m /\ n \in S => n + 1 \in S
  PROVE  \A n \in Nat : n >= m => n \in S
<1> DEFINE T == {n \in Nat : n >= m /\ n \notin S}
<1> SUFFICES ASSUME T # {} PROVE FALSE
  OBVIOUS
<1>1. PICK x \in T : \A y \in T : x <= y
  BY LeastNumber
<1>2. x - 1 \in Nat /\ x - 1 < x /\ (x - 1) + 1 = x /\ x - 1 >= m
  BY <1>1
<1> QED BY <1>1, <1>2

----------------------------------------------------------------------------
(* What is left of the first items.                                        *)

IsSift(k, q, G, m) ==
  k = [n \in 0 .. m |-> IF n = 0 THEN <<>>
                        ELSE IF q[n] \in G THEN k[n - 1]
                        ELSE Append(k[n - 1], q[n])]

LEMMA SiftExists ==
  ASSUME NEW q, NEW G, NEW m \in Nat
  PROVE  \E k : IsSift(k, q, G, m)
<1> DEFINE S == {n \in Nat : \E k : IsSift(k, q, G, n)}
           z == [n \in 0 .. 0 |-> <<>>]
<1>1. 0 \in S
  <2>1. IsSift(z, q, G, 0)
    BY DEF IsSift
  <2> QED BY <2>1
<1>2. ASSUME NEW n \in Nat, n \in S
      PROVE  n + 1 \in S
  <2>1. PICK k : IsSift(k, q, G, n)
    BY <1>2
  <2> DEFINE last == IF q[n + 1] \in G THEN k[n] ELSE Append(k[n], q[n + 1])
             f    == [i \in 0 .. n + 1 |-> IF i = n + 1 THEN last ELSE k[i]]
  <2>2. f[n + 1] = last /\ \A i \in 0 .. n : f[i] = k[i]
    OBVIOUS
  <2> HIDE DEF last
  <2>3. \A i \in 0 .. n : k[i] = IF i = 0 THEN <<>> ELSE IF q[i] \in G THEN k[i - 1]
                                 ELSE Append(k[i - 1], q[i])
    BY <2>1 DEF IsSift
  <2> DEFINE g(i) == IF i = 0 THEN <<>> ELSE IF q[i] \in G THEN f[i - 1]
                     ELSE Append(f[i - 1], q[i])
  <2>4. ASSUME NEW i \in 0 .. n + 1
        PROVE  f[i] = g(i)
    <3>1. CASE i = n + 1
      <4>1. f[i - 1] = k[n] /\ i # 0 /\ f[i] = last
        BY <2>2, <3>1
      <4> HIDE DEF f
      <4> QED BY <3>1, <4>1 DEF last
    <3>2. CASE i # n + 1
      <4>1. i \in 0 .. n /\ f[i] = k[i] /\ (i # 0 => i - 1 \in 0 .. n)
        BY <2>2, <3>2
      <4>2. i # 0 => f[i - 1] = k[i - 1]
        BY <2>2, <4>1
      <4> HIDE DEF f
      <4> QED BY <2>3, <4>1, <4>2
    <3> QED BY <3>1, <3>2
  <2>5. f = [i \in 0 .. n + 1 |-> g(i)]
    <3>1. f = [i \in 0 .. n + 1 |-> f[i]]
      OBVIOUS
    <3> HIDE DEF f, g
    <3> QED BY <2>4, <3>1
  <2>6. IsSift(f, q, G, n + 1)
    BY <2>5 DEF IsSift
  <2> HIDE DEF f
  <2> QED BY <2>6
<1>3. m \in S
  <2> HIDE DEF S
  <2>1. \A n \in Nat : n >= 0 => n \in S
    BY <1>1, <1>2, Counting
  <2> QED BY <2>1
<1> QED BY <1>3

LEMMA SiftedIs ==
  ASSUME NEW q, NEW G, Len(q) \in Nat
  PROVE  /\ Sifted(q, G)[0] = <<>>
         /\ \A n \in 1 .. Len(q) :
              Sifted(q, G)[n] = IF q[n] \in G THEN Sifted(q, G)[n - 1]
                                ELSE Append(Sifted(q, G)[n - 1], q[n])
<1> DEFINE m == Len(q)
           f == CHOOSE k : IsSift(k, q, G, m)
<1>1. Sifted(q, G) = f
  BY DEF Sifted, IsSift
<1>2. IsSift(f, q, G, m)
  <2>1. \E k : IsSift(k, q, G, m)
    BY SiftExists
  <2> QED BY <2>1
<1> HIDE DEF f, m
<1>3. m \in Nat
  BY DEF m
<1>4. \A n \in 0 .. m : f[n] = IF n = 0 THEN <<>> ELSE IF q[n] \in G THEN f[n - 1]
                                 ELSE Append(f[n - 1], q[n])
  BY <1>2 DEF IsSift
<1>5. \A n \in 1 .. m : n \in 0 .. m /\ n # 0
  BY <1>3
<1> QED BY <1>1, <1>3, <1>4, <1>5 DEF m

LEMMA SiftType ==
  ASSUME NEW S, NEW q \in Seq(S), NEW G
  PROVE  \A n \in 0 .. Len(q) : Sifted(q, G)[n] \in Seq(S)
<1> DEFINE f == Sifted(q, G)
           T == {n \in Nat : n <= Len(q) => f[n] \in Seq(S)}
<1>1. /\ Len(q) \in Nat /\ f[0] = <<>>
      /\ \A n \in 1 .. Len(q) :
           f[n] = IF q[n] \in G THEN f[n - 1] ELSE Append(f[n - 1], q[n])
      /\ \A n \in 1 .. Len(q) : q[n] \in S
  BY SiftedIs
<1> HIDE DEF f
<1>2. ASSUME NEW n \in Nat, n \in T
      PROVE  n + 1 \in T
  <2> SUFFICES ASSUME n + 1 <= Len(q) PROVE f[n + 1] \in Seq(S)
    OBVIOUS
  <2>1. /\ n + 1 \in 1 .. Len(q) /\ (n + 1) - 1 = n /\ f[n] \in Seq(S)
        /\ f[n + 1] = IF q[n + 1] \in G THEN f[n] ELSE Append(f[n], q[n + 1])
    BY <1>1, <1>2
  <2>2. q[n + 1] \in S
    BY <1>1, <2>1
  <2>3. Append(f[n], q[n + 1]) \in Seq(S)
    BY <2>1, <2>2
  <2> QED BY <2>1, <2>3
<1>3. 0 \in T
  <2>1. <<>> \in Seq(S)
    OBVIOUS
  <2> QED BY <1>1, <2>1
<1> HIDE DEF T
<1>4. \A n \in Nat : n >= 0 => n \in T
  BY <1>2, <1>3, Counting
<1>5. \A n \in 0 .. Len(q) : n \in Nat /\ n >= 0 /\ n <= Len(q)
  BY <1>1
<1> QED BY <1>4, <1>5 DEF T, f

(* Only what becomes of the first m items matters for them.                *)
LEMMA SiftSame ==
  ASSUME NEW q, Len(q) \in Nat, NEW G, NEW H, NEW m \in Nat, m <= Len(q),
         \A i \in 1 .. m : q[i] \in G <=> q[i] \in H
  PROVE  \A n \in 0 .. m : Sifted(q, G)[n] = Sifted(q, H)[n]
<1> DEFINE f == Sifted(q, G)
           g == Sifted(q, H)
           T == {n \in Nat : n <= m => f[n] = g[n]}
<1>1. /\ f[0] = <<>> /\ g[0] = <<>>
      /\ \A n \in 1 .. Len(q) :
           f[n] = IF q[n] \in G THEN f[n - 1] ELSE Append(f[n - 1], q[n])
      /\ \A n \in 1 .. Len(q) :
           g[n] = IF q[n] \in H THEN g[n - 1] ELSE Append(g[n - 1], q[n])
  BY SiftedIs
<1> HIDE DEF f, g
<1>2. ASSUME NEW n \in Nat, n \in T
      PROVE  n + 1 \in T
  <2> SUFFICES ASSUME n + 1 <= m PROVE f[n + 1] = g[n + 1]
    OBVIOUS
  <2>1. n + 1 \in 1 .. Len(q) /\ n + 1 \in 1 .. m /\ (n + 1) - 1 = n /\ f[n] = g[n]
    BY <1>2
  <2> QED BY <1>1, <2>1
<1>3. 0 \in T
  BY <1>1
<1> HIDE DEF T
<1>4. \A n \in Nat : n >= 0 => n \in T
  BY <1>2, <1>3, Counting
<1>5. \A n \in 0 .. m : n \in Nat /\ n >= 0 /\ n <= m
  OBVIOUS
<1> QED BY <1>4, <1>5 DEF T, f, g

(* From the one numbered m on, the items q follow one another in f.       *)
Runs(f, q, m) ==
  LET l == Len(f[m])
  IN  \A n \in m .. Len(q) :
        /\ Len(f[n]) = l + (n - m)
        /\ \A j \in 1 .. l + (n - m) : f[n][j] = IF j <= l THEN f[m][j] ELSE q[m + (j - l)]

(* Where nothing is taken out, the items follow one another.               *)
LEMMA SiftTail ==
  ASSUME NEW S, NEW q \in Seq(S), NEW G, NEW m \in 0 .. Len(q),
         \A i \in m + 1 .. Len(q) : q[i] \notin G
  PROVE  Runs(Sifted(q, G), q, m)
<1> DEFINE f == Sifted(q, G)
           l == Len(f[m])
           P(n) == /\ Len(f[n]) = l + (n - m)
                   /\ \A j \in 1 .. l + (n - m) : f[n][j] = IF j <= l THEN f[m][j] ELSE q[m + (j - l)]
           T == {n \in Nat : n <= Len(q) => P(n)}
<1>1. /\ Len(q) \in Nat /\ m \in Nat /\ m <= Len(q)
      /\ \A n \in 1 .. Len(q) :
           f[n] = IF q[n] \in G THEN f[n - 1] ELSE Append(f[n - 1], q[n])
      /\ \A n \in 0 .. Len(q) : f[n] \in Seq(S)
  BY SiftedIs, SiftType
<1> HIDE DEF f
<1>2. l \in Nat
  BY <1>1
<1>3. ASSUME NEW n \in Nat, n >= m, n \in T
      PROVE  n + 1 \in T
  <2> HIDE DEF P
  <2> SUFFICES ASSUME n + 1 <= Len(q) PROVE P(n + 1)
    OBVIOUS
  <2>1. /\ n + 1 \in 1 .. Len(q) /\ (n + 1) - 1 = n /\ n \in 0 .. Len(q) /\ P(n)
        /\ n + 1 \in m + 1 .. Len(q)
    BY <1>1, <1>3
  <2>a. q[n + 1] \notin G
    BY <2>1
  <2> USE DEF P
  <2>2. f[n + 1] = Append(f[n], q[n + 1]) /\ f[n] \in Seq(S)
    BY <1>1, <2>1, <2>a
  <2> HIDE DEF l
  <2>3. Len(f[n + 1]) = Len(f[n]) + 1
    BY <2>2
  <2>4. Len(f[n]) = l + (n - m) /\ Len(f[n]) + 1 = l + (n + 1 - m) /\ n \in Int /\ m \in Int /\ l \in Nat
        /\ l + (n - m) \in Nat
    BY <1>1, <1>2, <1>3, <2>1
  <2>5. ASSUME NEW j \in 1 .. l + (n + 1 - m)
        PROVE  f[n + 1][j] = IF j <= l THEN f[m][j] ELSE q[m + (j - l)]
    <3>1. CASE j \in 1 .. l + (n - m)
      <4>1. f[n + 1][j] = f[n][j]
        BY <2>2, <2>4, <3>1
      <4> QED BY <2>1, <3>1, <4>1
    <3>2. CASE j = l + (n + 1 - m)
      <4>1. j = Len(f[n]) + 1
        BY <2>4, <3>2
      <4>2. f[n + 1][j] = q[n + 1]
        BY <2>2, <4>1
      <4>3. ~(j <= l) /\ m + (j - l) = n + 1
        BY <1>3, <2>4, <3>2
      <4> QED BY <4>2, <4>3
    <3>3. j \in 1 .. l + (n - m) \/ j = l + (n + 1 - m)
      BY <2>4
    <3> QED BY <3>1, <3>2, <3>3
  <2> QED BY <2>3, <2>4, <2>5
<1>4. m \in T
  <2>1. m - m = 0 /\ l + (m - m) = l
    BY <1>1, <1>2
  <2> HIDE DEF l
  <2> QED BY <1>1, <1>2, <2>1 DEF l
<1> HIDE DEF T
<1>5. \A n \in Nat : n >= m => n \in T
  BY <1>1, <1>3, <1>4, Counting
<1>6. \A n \in m .. Len(q) : n \in Nat /\ n >= m /\ n <= Len(q)
  BY <1>1
<1>7. \A n \in m .. Len(q) : P(n)
  BY <1>5, <1>6 DEF T
<1> QED BY <1>7 DEF f, Runs
----------------------------------------------------------------------------
(* The order of the items.                                                 *)

(* Of the items q of a vector, those in G, which are between start and i,  *)
(* are out; the cells hold the m that stay of the first i, and the rest.   *)
InOrder(q, start, G, cells, i, n, m) ==
  /\ q \in Seq(Elems) /\ Len(q) = n
  /\ \A j, k \in 1 .. n : q[j] = q[k] => j = k
  /\ start \in Nat /\ start <= i
  /\ G \subseteq {q[j] : j \in start + 1 .. i}
  /\ \A j \in i .. n - 1 : cells[j] = q[j + 1]
  /\ Len(Sifted(q, G)[i]) = m
  /\ \A j \in 1 .. m : Sifted(q, G)[i][j] = cells[j - 1]

LEMMA OrderBegins ==
  ASSUME NEW q \in Seq(Elems), \A j, k \in 1 .. Len(q) : q[j] = q[k] => j = k,
         NEW start \in Nat, start <= Len(q), NEW cells, \A j \in 0 .. Len(q) - 1 : cells[j] = q[j + 1],
         NEW none, none = {}
  PROVE  InOrder(q, start, none, cells, start, Len(q), start)
<1> DEFINE f == Sifted(q, none)
<1>1. f[0] = <<>> /\ Len(q) \in Nat
  BY SiftedIs
<1>2. Len(f[0]) = 0
  BY <1>1
<1>3. \A n \in 0 .. Len(q) :
        /\ Len(f[n]) = 0 + (n - 0)
        /\ \A j \in 1 .. 0 + (n - 0) : f[n][j] = IF j <= 0 THEN f[0][j] ELSE q[0 + (j - 0)]
  <2> DEFINE m == 0
             l == Len(f[m])
  <2>1. m \in 0 .. Len(q) /\ m = 0 /\ l = 0
    BY <1>1, <1>2
  <2>2. \A i \in m + 1 .. Len(q) : q[i] \notin none
    OBVIOUS
  <2> HIDE DEF m
  <2>3. \A n \in m .. Len(q) :
          /\ Len(f[n]) = l + (n - m)
          /\ \A j \in 1 .. l + (n - m) : f[n][j] = IF j <= l THEN f[m][j] ELSE q[m + (j - l)]
    <3>1. Runs(f, q, m)
      BY <2>1, <2>2, SiftTail
    <3> QED BY <3>1 DEF Runs
  <2> HIDE DEF f, l
  <2> QED BY <2>1, <2>3
<1> HIDE DEF f
<1>4. start \in 0 .. Len(q) /\ 0 + (start - 0) = start
  BY <1>1
<1>5. Len(f[start]) = start /\ \A j \in 1 .. start : f[start][j] = q[j]
  BY <1>2, <1>3, <1>4
<1>6. \A j \in 1 .. start : f[start][j] = cells[j - 1]
  <2> SUFFICES ASSUME NEW j \in 1 .. start PROVE f[start][j] = cells[j - 1]
    OBVIOUS
  <2>1. j - 1 \in 0 .. Len(q) - 1 /\ (j - 1) + 1 = j
    BY <1>1
  <2> QED BY <1>5, <2>1
<1>7. \A j \in start .. Len(q) - 1 : cells[j] = q[j + 1]
  BY <1>1
<1> QED BY <1>5, <1>6, <1>7 DEF InOrder, f

(* What a question does to the cells: those from the next item on and the  *)
(* m below the gap keep their items, and an item that stays joins them.    *)
Closes(new, cells, i, n, m, rejected) ==
  /\ \A j \in i + 1 .. n - 1 : new[j] = cells[j]
  /\ \A j \in 0 .. m - 1 : new[j] = cells[j]
  /\ ~rejected => new[m] = cells[i]

(* One question, from the state of the loop before it to the one after.    *)
Turns(q, start, G, cells, i, n, m, rejected, H, new, k) ==
  /\ InOrder(q, start, G, cells, i, n, m) /\ i \in Nat /\ n \in Nat /\ m \in Nat
  /\ i < n /\ m <= i /\ Closes(new, cells, i, n, m, rejected)
  /\ H = (IF rejected THEN G \cup {q[i + 1]} ELSE G) /\ k = (IF rejected THEN m ELSE m + 1)

LEMMA OrderGoesOn ==
  ASSUME NEW q, NEW start, NEW G, NEW cells, NEW i, NEW n, NEW m,
         NEW rejected, NEW H, NEW new, NEW k, Turns(q, start, G, cells, i, n, m, rejected, H, new, k)
  PROVE  /\ InOrder(q, start, H, new, i + 1, n, k)
         /\ \A j \in 0 .. i : Sifted(q, H)[j] = Sifted(q, G)[j]
<1> DEFINE f == Sifted(q, G)
           g == Sifted(q, H)
<1>0. /\ InOrder(q, start, G, cells, i, n, m) /\ i \in Nat /\ n \in Nat /\ m \in Nat
      /\ i < n /\ m <= i /\ Closes(new, cells, i, n, m, rejected)
      /\ H = (IF rejected THEN G \cup {q[i + 1]} ELSE G) /\ k = (IF rejected THEN m ELSE m + 1)
  BY DEF Turns
<1>1. /\ q \in Seq(Elems) /\ Len(q) = n /\ start \in Nat /\ start <= i
      /\ \A j, l \in 1 .. n : q[j] = q[l] => j = l
      /\ G \subseteq {q[j] : j \in start + 1 .. i}
      /\ \A j \in i .. n - 1 : cells[j] = q[j + 1]
      /\ Len(f[i]) = m /\ \A j \in 1 .. m : f[i][j] = cells[j - 1]
  BY <1>0 DEF InOrder
<1>a. /\ \A j \in i + 1 .. n - 1 : new[j] = cells[j]
      /\ \A j \in 0 .. m - 1 : new[j] = cells[j]
      /\ ~rejected => new[m] = cells[i]
  BY <1>0 DEF Closes
<1>2. \A j \in 1 .. i : q[j] \in G <=> q[j] \in H
  <2> SUFFICES ASSUME NEW j \in 1 .. i, q[j] = q[i + 1] PROVE FALSE
    BY <1>0
  <2>1. j \in 1 .. n /\ i + 1 \in 1 .. n /\ j # i + 1
    BY <1>0
  <2> QED BY <1>0, <1>1, <2>1
<1>3. \A j \in 0 .. i : f[j] = g[j]
  <2>1. Len(q) \in Nat /\ i \in Nat /\ i <= Len(q)
    BY <1>0, <1>1
  <2> QED BY <1>2, <2>1, SiftSame
<1>4. g[i + 1] = IF q[i + 1] \in H THEN g[i] ELSE Append(g[i], q[i + 1])
  <2>1. Len(q) \in Nat /\ i + 1 \in 1 .. Len(q) /\ (i + 1) - 1 = i
    BY <1>0, <1>1
  <2> QED BY <1>0, <2>1, SiftedIs
<1>5. g[i] = f[i] /\ f[i] \in Seq(Elems)
  <2>1. i \in 0 .. i /\ i \in 0 .. Len(q)
    BY <1>0, <1>1
  <2> QED BY <1>0, <1>1, <1>3, <2>1, SiftType
<1>6. q[i + 1] \in G => FALSE
  <2> SUFFICES ASSUME q[i + 1] \in G PROVE FALSE
    BY <1>0
  <2>1. PICK j \in start + 1 .. i : q[j] = q[i + 1]
    BY <1>0, <1>1
  <2>2. j \in 1 .. n /\ i + 1 \in 1 .. n /\ j # i + 1
    BY <1>0, <1>1, <2>1
  <2> QED BY <1>0, <1>1, <2>1, <2>2
<1>7. H \subseteq {q[j] : j \in start + 1 .. i + 1}
  <2> SUFFICES ASSUME NEW x \in H PROVE \E j \in start + 1 .. i + 1 : x = q[j]
    BY <1>0
  <2>1. CASE x \in G
    <3>1. PICK j \in start + 1 .. i : q[j] = x
      BY <1>0, <1>1, <2>1
    <3>2. j \in start + 1 .. i + 1
      BY <1>0, <1>1, <3>1
    <3> QED BY <1>0, <3>1, <3>2
  <2>2. CASE x = q[i + 1]
    <3>1. i + 1 \in start + 1 .. i + 1
      BY <1>0, <1>1
    <3> QED BY <1>0, <2>2, <3>1
  <2> QED BY <1>0, <2>1, <2>2
<1>8. q[i + 1] = cells[i] /\ q[i + 1] \in Elems
  <2>1. i \in i .. n - 1 /\ i + 1 \in 1 .. n
    BY <1>0
  <2> QED BY <1>0, <1>1, <2>1
<1> HIDE DEF f, g
<1>9. Len(g[i + 1]) = k /\ \A j \in 1 .. k : g[i + 1][j] = new[j - 1]
  <2>1. \A j \in 1 .. m : j - 1 \in 0 .. m - 1
    BY <1>0
  <2>2. \A j \in 1 .. m : f[i][j] = new[j - 1]
    BY <1>0, <1>1, <1>a, <2>1
  <2>3. CASE rejected
    <3>1. g[i + 1] = f[i] /\ k = m
      BY <1>0, <1>4, <1>5, <2>3
    <3> QED BY <1>0, <1>1, <2>2, <3>1
  <2>4. CASE ~rejected
    <3>1. g[i + 1] = Append(f[i], q[i + 1]) /\ k = m + 1
      BY <1>0, <1>4, <1>5, <1>6, <2>4
    <3>2. /\ Len(g[i + 1]) = m + 1
          /\ \A j \in 1 .. m : g[i + 1][j] = f[i][j]
          /\ g[i + 1][m + 1] = q[i + 1]
      BY <1>0, <1>1, <1>5, <1>8, <3>1
    <3>3. g[i + 1][m + 1] = new[m] /\ (m + 1) - 1 = m
      BY <1>0, <1>8, <1>a, <2>4, <3>2
    <3>4. \A j \in 1 .. m + 1 : j \in 1 .. m \/ j = m + 1
      BY <1>0
    <3> QED BY <1>0, <2>2, <3>1, <3>2, <3>3, <3>4
  <2> QED BY <1>0, <2>3, <2>4
<1>10. start <= i + 1 /\ \A j \in i + 1 .. n - 1 : new[j] = q[j + 1]
  BY <1>0, <1>1, <1>a
<1>11. InOrder(q, start, H, new, i + 1, n, k)
  BY <1>0, <1>1, <1>7, <1>9, <1>10 DEF InOrder, g
<1> QED BY <1>0, <1>3, <1>11 DEF f, g

(* In f, which counts the items that stay: m of the first i, then the rest.*)
Counts(f, cells, i, n, m) ==
  /\ f[n] \in Seq(Elems) /\ Len(f[n]) = m + (n - i)
  /\ \A j \in 1 .. m + (n - i) : f[n][j] = cells[IF j <= m THEN j - 1 ELSE i + (j - m) - 1]

(* If no further question is asked, the rest stays.                        *)
LEMMA OrderEnds ==
  ASSUME NEW q, NEW start, NEW G, NEW cells, NEW i \in Nat, NEW n \in Nat, NEW m \in Nat,
         InOrder(q, start, G, cells, i, n, m), i <= n
  PROVE  Counts(Sifted(q, G), cells, i, n, m)
<1> DEFINE f == Sifted(q, G)
<1>1. /\ q \in Seq(Elems) /\ Len(q) = n /\ start \in Nat /\ start <= i
      /\ \A j, l \in 1 .. n : q[j] = q[l] => j = l
      /\ G \subseteq {q[j] : j \in start + 1 .. i}
      /\ \A j \in i .. n - 1 : cells[j] = q[j + 1]
      /\ Len(f[i]) = m /\ \A j \in 1 .. m : f[i][j] = cells[j - 1]
  BY DEF InOrder
<1>2. \A j \in i + 1 .. Len(q) : q[j] \notin G
  <2> SUFFICES ASSUME NEW j \in i + 1 .. n, q[j] \in G PROVE FALSE
    BY <1>1
  <2>1. PICK l \in start + 1 .. i : q[l] = q[j]
    BY <1>1
  <2>2. j \in 1 .. n /\ l \in 1 .. n /\ j # l
    BY <1>1, <2>1
  <2> QED BY <1>1, <2>1, <2>2
<1>3. i \in 0 .. Len(q) /\ n \in i .. Len(q) /\ n \in 0 .. Len(q)
  BY <1>1
<1>4. /\ f[n] \in Seq(Elems) /\ Len(f[n]) = m + (n - i)
      /\ \A j \in 1 .. m + (n - i) : f[n][j] = IF j <= m THEN f[i][j] ELSE q[i + (j - m)]
  <2> DEFINE l == Len(f[i])
  <2>1. q \in Seq(Elems) /\ i \in 0 .. Len(q) /\ n \in i .. Len(q) /\ n \in 0 .. Len(q)
    BY <1>1, <1>3
  <2>2. f[n] \in Seq(Elems)
    BY <2>1, SiftType
  <2>3. \A k \in i .. Len(q) :
          /\ Len(f[k]) = l + (k - i)
          /\ \A j \in 1 .. l + (k - i) : f[k][j] = IF j <= l THEN f[i][j] ELSE q[i + (j - l)]
    <3>1. Runs(f, q, i)
      BY <1>2, <2>1, SiftTail
    <3> QED BY <3>1 DEF Runs
  <2>4. l = m
    BY <1>1
  <2> HIDE DEF f, l
  <2> QED BY <2>1, <2>2, <2>3, <2>4
<1> HIDE DEF f
<1>5. ASSUME NEW j \in 1 .. m + (n - i)
      PROVE  f[n][j] = cells[IF j <= m THEN j - 1 ELSE i + (j - m) - 1]
  <2>1. CASE j <= m
    <3>1. j \in 1 .. m
      BY <2>1
    <3> QED BY <1>1, <1>4, <2>1, <3>1
  <2>2. CASE ~(j <= m)
    <3>1. i + (j - m) - 1 \in i .. n - 1 /\ (i + (j - m) - 1) + 1 = i + (j - m)
      BY <2>2
    <3>2. cells[i + (j - m) - 1] = q[i + (j - m)]
      BY <1>1, <3>1
    <3> QED BY <1>4, <2>2, <3>2
  <2> QED BY <2>1, <2>2
<1> QED BY <1>4, <1>5 DEF f, Counts
----------------------------------------------------------------------------
(* The history of a loop.                                                  *)

(* How many of the items asked about stay.                                 *)
Stayed == IF loop.kind = "dedup" THEN loop.w ELSE loop.idx - loop.del

History == [items : Seq(Elems), start : Nat, calls : Seq(Seq(Elems)), gone : SUBSET Elems]

(* What the questions and the answers so far say of the vector.            *)
Ordered ==
  /\ asked \in History /\ (loop.kind = "none" => asked = NoAsked)
  /\ loop.kind # "none" =>
       InOrder(asked.items, asked.start, asked.gone, Cells(store, v), loop.idx, loop.old_len, Stayed)
  /\ loop.kind = "dedup" => asked.start = 1 /\ loop.w >= 1
  /\ loop.kind \in {"retain", "dedup"} =>
       Owned(store, v) = {asked.items[n] : n \in 1 .. loop.old_len}
  /\ AskedInOrder

LEMMA ShowsTwo ==
  ASSUME NEW x, NEW y
  PROVE  <<x>> \o <<y>> = <<x, y>> /\ <<x>> \o <<>> = <<x>>
<1> DEFINE S == {x, y}
           p == <<x>>
           q == <<y>>
           r == <<x, y>>
<1>0. x \in S /\ y \in S
  OBVIOUS
<1> HIDE DEF S
<1>1. p \in Seq(S) /\ q \in Seq(S) /\ r \in Seq(S)
  BY <1>0
<1>2. Len(p) = 1 /\ Len(q) = 1 /\ Len(r) = 2 /\ p[1] = x /\ q[1] = y /\ r[1] = x /\ r[2] = y
  OBVIOUS
<1> HIDE DEF p, q, r
<1> DEFINE c == p \o q
<1>3. /\ c \in Seq(S) /\ Len(c) = Len(p) + Len(q)
      /\ \A i \in 1 .. Len(p) + Len(q) : c[i] = IF i <= Len(p) THEN p[i] ELSE q[i - Len(p)]
  BY <1>1, ConcatProperties
<1> HIDE DEF c
<1>4. Len(c) = 2 /\ c[1] = x /\ c[2] = y
  BY <1>2, <1>3
<1>5. \A i \in 1 .. Len(c) : c[i] = r[i]
  <2>1. \A i \in 1 .. 2 : i = 1 \/ i = 2
    OBVIOUS
  <2> QED BY <1>2, <1>3, <1>4, <2>1
<1>6. c = r
  BY <1>1, <1>2, <1>3, <1>5, SeqEqual
<1>7. p \o <<>> = p
  BY <1>1, ConcatEmptySeq
<1> QED BY <1>6, <1>7 DEF c, p, q, r

(* What the n-th question shows the closure.                               *)
Shows(q, G, start, kind, n) ==
  <<q[start + n]>>
    \o (IF kind = "dedup" THEN <<Sifted(q, G)[n][Len(Sifted(q, G)[n])]>> ELSE <<>>)

LEMMA AskedAre ==
  AskedInOrder <=>
    /\ Len(asked.calls) = loop.idx - asked.start
    /\ \A n \in 1 .. Len(asked.calls) :
         asked.calls[n] = Shows(asked.items, asked.gone, asked.start, loop.kind, n)
  BY DEF AskedInOrder, Shows, Kept

LEMMA AskOrdered ==
  ASSUME FInv, Ordered, loop.kind # "none", loop.idx < loop.end,
         NEW rejected \in BOOLEAN, NEW args \in Seq(Elems), Answered(args, rejected),
         args = <<Item(store, v, loop.idx)>>
                  \o (IF loop.kind = "dedup" THEN <<Item(store, v, loop.w - 1)>> ELSE <<>>),
         v' = v, loop'.kind = loop.kind, loop'.idx = loop.idx + 1,
         loop'.old_len = loop.old_len, loop'.w \in Nat, loop'.w >= loop.w,
         Stayed' = IF rejected THEN Stayed ELSE Stayed + 1,
         Closes(Cells(store', v), Cells(store, v), loop.idx, loop.old_len, Stayed, rejected),
         loop.kind \in {"retain", "dedup"} => Owned(store', v) = Owned(store, v)
  PROVE  Ordered'
<1> DEFINE q     == asked.items
           G     == asked.gone
           start == asked.start
           calls == asked.calls
           kind  == loop.kind
           i     == loop.idx
           n     == loop.old_len
           m     == Stayed
           cells == Cells(store, v)
           new   == Cells(store', v)
           H     == IF rejected THEN G \cup {q[i + 1]} ELSE G
           k     == IF rejected THEN m ELSE m + 1
           e     == Item(store, v, i)
           last  == Item(store, v, loop.w - 1)
<1>1. /\ i \in Nat /\ n \in Nat /\ i < n /\ m \in Nat /\ m <= i /\ loop.w \in Nat
  BY LoopTypes, LoopFacts DEF Stayed
<1>2. /\ InOrder(q, start, G, cells, i, n, m)
      /\ asked \in History /\ (kind = "dedup" => start = 1 /\ loop.w >= 1 /\ m = loop.w)
      /\ kind \in {"retain", "dedup"} => Owned(store, v) = {q[j] : j \in 1 .. n}
      /\ Len(calls) = i - start /\ \A j \in 1 .. Len(calls) : calls[j] = Shows(q, G, start, kind, j)
  BY AskedAre DEF Ordered, Stayed
<1>3. /\ q \in Seq(Elems) /\ start \in Nat /\ calls \in Seq(Seq(Elems)) /\ G \subseteq Elems
      /\ Len(q) = n /\ start <= i /\ cells[i] = q[i + 1] /\ q[i + 1] \in Elems
      /\ Len(Sifted(q, G)[i]) = m /\ \A j \in 1 .. m : Sifted(q, G)[i][j] = cells[j - 1]
  <2>1. i \in i .. n - 1 /\ i + 1 \in 1 .. n
    BY <1>1
  <2> QED BY <1>2, <2>1 DEF InOrder, History
<1>4. e = q[i + 1]
  BY <1>3 DEF Item
<1>5. args[1] = e
  <2> HIDE DEF e, last
  <2>1. args = IF kind = "dedup" THEN <<e, last>> ELSE <<e>>
    <3>1. <<e>> \o <<last>> = <<e, last>> /\ <<e>> \o <<>> = <<e>>
      BY ShowsTwo
    <3> QED BY <3>1 DEF e, last
  <2> QED BY <2>1
<1>6. asked' = [items |-> q, start |-> start, calls |-> Append(calls, args), gone |-> H]
  <2>1. asked' = [asked EXCEPT !.calls = Append(@, args),
                               !.gone = IF rejected THEN @ \cup {args[1]} ELSE @]
    BY DEF Answered
  <2>2. asked = [items |-> q, start |-> start, calls |-> calls, gone |-> G]
    BY <1>2 DEF History
  <2> HIDE DEF q, start, calls, G, i, e
  <2> QED BY <1>4, <1>5, <2>1, <2>2
<1> HIDE DEF q, G, start, calls, kind, i, n, m, cells, new, k, e, last
<1>7. /\ asked'.items = q /\ asked'.start = start /\ asked'.gone = H
      /\ asked'.calls = Append(calls, args)
  BY <1>6
<1>8. asked' \in History
  <2>1. H \subseteq Elems /\ Append(calls, args) \in Seq(Seq(Elems))
    BY <1>3
  <2> HIDE DEF H
  <2> QED BY <1>3, <1>6, <2>1 DEF History
<1>9. /\ InOrder(q, start, H, new, i + 1, n, k)
      /\ \A j \in 0 .. i : Sifted(q, H)[j] = Sifted(q, G)[j]
  <2>1. Closes(new, cells, i, n, m, rejected)
    BY DEF i, n, m, cells, new
  <2>2. H = IF rejected THEN G \cup {q[i + 1]} ELSE G
    OBVIOUS
  <2>3. k = IF rejected THEN m ELSE m + 1
    BY DEF k
  <2> HIDE DEF H
  <2>4. Turns(q, start, G, cells, i, n, m, rejected, H, new, k)
    BY <1>1, <1>2, <2>1, <2>2, <2>3 DEF Turns
  <2> QED BY <2>4, OrderGoesOn
<1> HIDE DEF H
<1>10. /\ v' = v /\ loop'.kind = kind /\ loop'.idx = i + 1 /\ loop'.old_len = n /\ Stayed' = k
       /\ kind # "none" /\ Cells(store', v') = new
  BY DEF kind, i, n, k, m, new
<1>11. InOrder(asked'.items, asked'.start, asked'.gone, Cells(store', v'), loop'.idx, loop'.old_len, Stayed')
  BY <1>7, <1>9, <1>10
<1>12. loop'.kind = "dedup" => asked'.start = 1 /\ loop'.w >= 1
  <2>2. loop.w >= 1 => loop'.w >= 1
    BY <1>1
  <2> QED BY <1>2, <1>7, <1>10, <2>2
<1>13. loop'.kind \in {"retain", "dedup"} =>
         Owned(store', v') = {asked'.items[j] : j \in 1 .. loop'.old_len}
  BY <1>2, <1>7, <1>10 DEF kind
<1>14. /\ Len(asked'.calls) = loop'.idx - asked'.start
       /\ \A j \in 1 .. Len(asked'.calls) :
            asked'.calls[j] = Shows(asked'.items, asked'.gone, asked'.start, loop'.kind, j)
  <2> DEFINE c == Len(calls)
  <2>1. /\ Len(Append(calls, args)) = c + 1 /\ c \in Nat /\ c = i - start
        /\ \A j \in 1 .. c : Append(calls, args)[j] = calls[j]
        /\ Append(calls, args)[c + 1] = args
    BY <1>2, <1>3
  <2> HIDE DEF c
  <2>2. c + 1 = (i + 1) - start /\ start + (c + 1) = i + 1 /\ c <= i
    BY <1>1, <1>3, <2>1
  <2>3. ASSUME NEW j \in 1 .. c
        PROVE  Append(calls, args)[j] = Shows(q, H, start, kind, j)
    <3>1. j \in 0 .. i
      BY <1>1, <2>1, <2>2
    <3>2. Sifted(q, H)[j] = Sifted(q, G)[j]
      BY <1>9, <3>1
    <3>3. calls[j] = Shows(q, G, start, kind, j)
      BY <1>2 DEF c
    <3> QED BY <2>1, <3>2, <3>3 DEF Shows
  <2>4. args = Shows(q, H, start, kind, c + 1)
    <3>1. q[start + (c + 1)] = e
      BY <1>4, <2>2 DEF e
    <3>2. CASE kind = "dedup"
      <4>1. c + 1 = i /\ m >= 1 /\ m \in 1 .. m
        BY <1>1, <1>2, <1>3, <2>1, <3>2
      <4>2. i \in 0 .. i /\ Sifted(q, H)[i] = Sifted(q, G)[i]
        BY <1>1, <1>9
      <4>3. Sifted(q, H)[i][Len(Sifted(q, H)[i])] = last
        <5>1. cells[m - 1] = last
          BY <1>2, <3>2 DEF last, Item, cells
        <5> QED BY <1>3, <4>1, <4>2, <5>1
      <4> QED BY <3>1, <3>2, <4>1, <4>3 DEF Shows, kind, e, last, i
    <3>3. CASE kind # "dedup"
      BY <3>1, <3>3 DEF Shows, kind, e, i
    <3> QED BY <3>2, <3>3
  <2>5. \A j \in 1 .. c + 1 : j \in 1 .. c \/ j = c + 1
    BY <2>1
  <2> QED BY <1>7, <1>10, <2>1, <2>2, <2>3, <2>4, <2>5
<1>15. AskedInOrder'
  BY <1>14 DEF AskedInOrder, Shows, Kept
<1> QED BY <1>8, <1>10, <1>11, <1>12, <1>13, <1>15 DEF Ordered
LEMMA BeginOrdered ==
  ASSUME FInv, NEW h \in Handles, NEW kind \in {"extract", "retain", "dedup"},
         NEW start \in Nat, NEW end \in Nat, start <= end, end <= LenOf(store, h),
         Begin(h, kind, start, end), Cells(store', h) = Cells(store, h),
         kind = "dedup" => start = 1, kind # "extract" => Owned(store', h) = Owned(store, h)
  PROVE  Ordered'
<1> DEFINE q     == Contents(store, h)
           cells == Cells(store, h)
           n     == LenOf(store, h)
           none  == {}
           noone == <<>>
<1>1. /\ Accounts(store, caller, dropped, live, AtStake)
      /\ n \in Nat /\ v' = h /\ loop'.kind = kind /\ kind # "none"
      /\ loop'.idx = start /\ loop'.old_len = n /\ loop'.del = 0 /\ loop'.w = start
  BY BeginFields
<1>2. asked' = [items |-> q, start |-> start, calls |-> noone, gone |-> none]
  <2>1. asked' = [NoAsked EXCEPT !.items = q, !.start = start]
    BY DEF Begin
  <2> HIDE DEF q
  <2> QED BY <2>1 DEF NoAsked
<1>3. Distinct(store, h) /\ Owned(store, h) \subseteq Elems
  BY <1>1 DEF Accounts, Own
<1>4. \A i \in 0 .. n - 1 : cells[i] \in Elems
  BY <1>3 DEF Owned, Item
<1>5. \A i, j \in 0 .. n - 1 : cells[i] = cells[j] => i = j
  BY <1>3 DEF Distinct, Item
<1>6. q \in Seq(Elems) /\ Len(q) = n /\ \A j \in 1 .. n : q[j] = cells[j - 1]
  BY <1>1, <1>4, ContentsAre
<1>7. Owned(store, h) = {cells[i] : i \in 0 .. n - 1}
  BY DEF Owned, Item
<1> HIDE DEF q, cells, n
<1>8. \A j, k \in 1 .. n : q[j] = q[k] => j = k
  <2> SUFFICES ASSUME NEW j \in 1 .. n, NEW k \in 1 .. n, q[j] = q[k] PROVE j = k
    OBVIOUS
  <2>1. j - 1 \in 0 .. n - 1 /\ k - 1 \in 0 .. n - 1
    BY <1>1
  <2>2. j - 1 = k - 1
    BY <1>5, <1>6, <2>1
  <2> QED BY <1>1, <2>2
<1>9. \A j \in 0 .. n - 1 : cells[j] = q[j + 1]
  <2> SUFFICES ASSUME NEW j \in 0 .. n - 1 PROVE cells[j] = q[j + 1]
    OBVIOUS
  <2>1. j + 1 \in 1 .. n /\ (j + 1) - 1 = j
    BY <1>1
  <2> QED BY <1>6, <2>1
<1>10. InOrder(q, start, none, cells, start, n, start)
  <2>1. start <= n
    BY <1>1 DEF n
  <2>2. none = {}
    OBVIOUS
  <2> HIDE DEF none
  <2> QED BY <1>6, <1>8, <1>9, <2>1, <2>2, OrderBegins
<1>11. Owned(store, h) = {q[j] : j \in 1 .. n}
  <2>1. \A i \in 0 .. n - 1 : i + 1 \in 1 .. n
    BY <1>1
  <2>2. \A j \in 1 .. n : j - 1 \in 0 .. n - 1
    BY <1>1
  <2> QED BY <1>6, <1>7, <1>9, <2>1, <2>2
<1>12. Stayed' = start
  <2>1. start - 0 = start
    OBVIOUS
  <2> QED BY <1>1, <2>1 DEF Stayed
<1>13. /\ asked'.items = q /\ asked'.start = start /\ asked'.gone = none /\ asked'.calls = noone
  BY <1>2
<1>14. asked' \in History
  <2>1. none \subseteq Elems /\ noone \in Seq(Seq(Elems))
    OBVIOUS
  <2> HIDE DEF none, noone
  <2> QED BY <1>2, <1>6, <2>1 DEF History
<1>15. AskedInOrder'
  <2>1. Len(noone) = 0 /\ start - start = 0 /\ 1 .. 0 = {}
    OBVIOUS
  <2> HIDE DEF noone
  <2> QED BY <1>1, <1>13, <2>1 DEF AskedInOrder
<1>16. InOrder(asked'.items, asked'.start, asked'.gone, Cells(store', v'), loop'.idx, loop'.old_len, Stayed')
  <2>1. Cells(store', v') = cells
    BY <1>1 DEF cells
  <2> HIDE DEF none
  <2> QED BY <1>1, <1>10, <1>12, <1>13, <2>1
<1>17. loop'.kind \in {"retain", "dedup"} =>
         Owned(store', v') = {asked'.items[j] : j \in 1 .. loop'.old_len}
  <2>1. kind # "extract" => Owned(store', v') = Owned(store, h)
    BY <1>1
  <2> QED BY <1>1, <1>11, <1>13, <2>1
<1>18. loop'.kind = "dedup" => asked'.start = 1 /\ loop'.w >= 1
  BY <1>1, <1>13
<1> QED BY <1>1, <1>14, <1>15, <1>16, <1>17, <1>18 DEF Ordered

LEMMA NotLooping ==
  ASSUME loop' = NoLoop, asked' = NoAsked
  PROVE  Ordered'
<1> DEFINE noone == <<>>
           none  == {}
<1>1. loop'.kind = "none"
  BY DEF NoLoop
<1>2. asked' = [items |-> noone, start |-> 0, calls |-> noone, gone |-> none]
  BY DEF NoAsked
<1>3. noone \in Seq(Elems) /\ noone \in Seq(Seq(Elems)) /\ none \subseteq Elems /\ Len(noone) = 0
  OBVIOUS
<1> HIDE DEF noone, none
<1>4. asked' \in History
  BY <1>2, <1>3 DEF History
<1>5. AskedInOrder'
  <2>1. Len(asked'.calls) = 0 /\ asked'.start = 0 /\ loop'.idx = 0 /\ 0 - 0 = 0 /\ 1 .. 0 = {}
    BY <1>2, <1>3 DEF NoLoop
  <2> QED BY <2>1 DEF AskedInOrder
<1> QED BY <1>1, <1>4, <1>5 DEF Ordered

LEMMA ExtractAskOrdered ==
  ASSUME FInv, Ordered, NEW rejected \in BOOLEAN, ExtractAsk(rejected)
  PROVE  Ordered'
<1> DEFINE src  == Cells(store, v)
           i    == loop.idx
           n    == loop.old_len
           m    == i - loop.del
           e    == Item(store, v, i)
           one  == 1
           new  == Cells(store', v)
           args == <<e>>
           cells == IF rejected THEN Wipe(src, i, one) ELSE Shift(src, i, m, one)
<1>1. /\ loop.kind = "extract" /\ i < loop.end /\ Answered(args, rejected)
      /\ loop' = [loop EXCEPT !.idx = @ + 1, !.del = IF rejected THEN @ + 1 ELSE @]
      /\ store' = [store EXCEPT !.mem[AsPtr(store, v)] = cells]
  BY DEF ExtractAsk, Asking, Cells
<1>2. /\ v \in Handles /\ Sound(store) /\ src \in Block /\ loop \in Loops
      /\ i \in Nat /\ n \in Nat /\ m \in Nat /\ m <= i /\ i < n /\ n <= MaxCap
      /\ loop.del \in Nat /\ loop.w \in Nat /\ MaxCap \in Nat
  BY <1>1, LoopTypes, LoopFacts, RawAssumption DEF FInv
<1>3. e \in Elems
  <2>1. Holds(src, i, n, Rest)
    BY <1>1 DEF FInv, Aside
  <2>2. Rest \subseteq Elems /\ i \in i .. n - 1
    BY <1>1, <1>2, Disjoint DEF Apart, AtStake
  <2> QED BY <2>1, <2>2 DEF Holds, Item
<1>4. new = cells
  <2> HIDE DEF cells
  <2>1. store' = Edited(store, v, cells, LenOf(store, v))
    BY <1>1, <1>2, InPlaceWrites
  <2>2. LenOf(store, v) \in 0 .. MaxCap
    BY <1>2, SoundLen
  <2> QED BY <1>2, <2>1, <2>2, Rewritten
<1>5. Closes(new, src, i, n, m, rejected)
  <2>1. /\ i \in Slots /\ m \in Slots /\ \A j \in i + 1 .. n - 1 : j \in Slots
        /\ \A j \in 0 .. m - 1 : j \in Slots
    BY <1>2 DEF Slots
  <2>2. one \in Nat /\ one = 1 /\ i + one <= MaxCap /\ one \in Int /\ i \in Int
    BY <1>2
  <2> HIDE DEF src, i, n, m, one
  <2>3. CASE rejected
    <3>1. \A j \in Slots : cells[j] = IF j \in i .. i + one - 1 THEN Uninit ELSE src[j]
      BY <1>2, <2>2, <2>3, WipeType
    <3> HIDE DEF cells
    <3>2. /\ \A j \in i + 1 .. n - 1 : cells[j] = src[j]
          /\ \A j \in 0 .. m - 1 : cells[j] = src[j]
      BY <1>2, <2>1, <2>2, <3>1
    <3> QED BY <1>4, <2>3, <3>2 DEF Closes
  <2>4. CASE ~rejected
    <3>0. cells = Shift(src, i, m, one)
      BY <2>4
    <3>1. \A j \in Slots : cells[j] = IF j \in m .. m + one - 1 THEN src[j - m + i]
                                      ELSE IF j \in i .. i + one - 1 THEN Uninit ELSE src[j]
      <4>1. ShiftedFrom(src, Shift(src, i, m, one), i, m, one)
        BY <1>2, <2>2, ShiftIs
      <4> QED BY <3>0, <4>1 DEF ShiftedFrom
    <3> HIDE DEF cells
    <3>2. /\ \A j \in i + 1 .. n - 1 : cells[j] = src[j]
          /\ \A j \in 0 .. m - 1 : cells[j] = src[j]
      BY <1>2, <2>1, <2>2, <3>0, <3>1
    <3>3. cells[m] = src[i]
      <4>1. m \in m .. m + one - 1 /\ m - m + i = i
        BY <1>2, <2>2
      <4> QED BY <2>1, <3>0, <3>1, <4>1
    <3> QED BY <1>4, <3>2, <3>3 DEF Closes
  <2> QED BY <2>3, <2>4
<1> HIDE DEF cells
<1>6. /\ v' = v /\ loop'.kind = loop.kind /\ loop'.idx = loop.idx + 1
      /\ loop'.old_len = loop.old_len /\ loop'.w = loop.w
      /\ loop'.del = IF rejected THEN loop.del + 1 ELSE loop.del
  BY <1>1, <1>2 DEF Loops, v
<1>7. Stayed = m /\ Stayed' = IF rejected THEN Stayed ELSE Stayed + 1
  <2>1. /\ (loop.idx + 1) - (loop.del + 1) = m /\ (loop.idx + 1) - loop.del = m + 1
    BY <1>2
  <2> QED BY <1>1, <1>6, <2>1 DEF Stayed
<1>8. args \in Seq(Elems)
  BY <1>3
<1>9. args = <<Item(store, v, loop.idx)>>
               \o (IF loop.kind = "dedup" THEN <<Item(store, v, loop.w - 1)>> ELSE <<>>)
  <2>1. <<e>> \o <<>> = <<e>>
    BY ShowsTwo
  <2> QED BY <1>1, <2>1
<1>10. /\ loop.kind # "none" /\ loop.idx < loop.end /\ loop'.w \in Nat /\ loop'.w >= loop.w
       /\ loop.kind \notin {"retain", "dedup"}
       /\ Closes(Cells(store', v), Cells(store, v), loop.idx, loop.old_len, Stayed, rejected)
  BY <1>1, <1>2, <1>5, <1>6, <1>7
<1> HIDE DEF args
<1> QED BY <1>1, <1>6, <1>7, <1>8, <1>9, <1>10, AskOrdered
(* An item that stays changes places with the first rejected one.          *)
LEMMA KeepCloses ==
  ASSUME FInv, loop.kind \in {"retain", "dedup"}, loop.idx < loop.end,
         NEW rejected \in BOOLEAN, NEW j \in Nat, j <= loop.idx,
         IF rejected THEN UNCHANGED store ELSE Keep(loop.idx, j)
  PROVE  /\ Closes(Cells(store', v), Cells(store, v), loop.idx, loop.old_len, j, rejected)
         /\ Owned(store', v) = Owned(store, v)
<1> DEFINE i   == loop.idx
           n   == loop.old_len
           src == Cells(store, v)
           new == Cells(store', v)
           cap == Capacity(store, v)
<1>1. /\ i \in Nat /\ n \in Nat /\ i < n /\ j < n /\ j < loop.end /\ n <= MaxCap /\ n <= cap
      /\ src \in Block /\ FitIn(src, cap) /\ cap \in Nat /\ cap <= MaxCap
  BY LoopTypes, LoopFacts, RawAssumption DEF FInv, Loops
<1>2. CASE rejected
  <2>1. store' = store
    BY <1>2
  <2> QED BY <1>2, <2>1 DEF Closes, Owned, Item, Cells, AsPtr, OnHeap, LenOf
<1>3. CASE ~rejected
  <2>1. /\ Owned(store', v) = Owned(store, v)
        /\ i # j => new = Swap(src, i, j)
        /\ i = j => new = src
    <3>1. Keep(loop.idx, j)
      BY <1>3
    <3> QED BY <1>1, <3>1, KeepAccounts
  <2> HIDE DEF i, n, src, new, cap
  <2>2. CASE i # j
    <3>1. \A k \in Slots : new[k] = src[IF k = j THEN i ELSE IF k = i THEN j ELSE k]
      <4>1. i < cap /\ j < cap
        BY <1>1
      <4>2. \A k \in Slots : Swap(src, i, j)[k] = src[IF k = j THEN i ELSE IF k = i THEN j ELSE k]
        BY <1>1, <4>1, SwapType
      <4> QED BY <2>1, <2>2, <4>2
    <3>2. /\ \A k \in i + 1 .. n - 1 : k \in Slots /\ k # i /\ k # j
          /\ \A k \in 0 .. j - 1 : k \in Slots /\ k # i /\ k # j
          /\ j \in Slots
      BY <1>1, RawAssumption DEF Slots, i
    <3>3. /\ \A k \in i + 1 .. n - 1 : new[k] = src[k]
          /\ \A k \in 0 .. j - 1 : new[k] = src[k]
          /\ new[j] = src[i]
      BY <3>1, <3>2
    <3> QED BY <2>1, <3>3 DEF Closes, i, n, src, new
  <2>3. CASE i = j
    BY <2>1, <2>3 DEF Closes, i, n, src, new
  <2> QED BY <2>2, <2>3
<1> QED BY <1>2, <1>3

(* The items of retain_mut and dedup_by are elements.                      *)
LEMMA AskedItems ==
  ASSUME FInv, loop.kind \in {"retain", "dedup"}
  PROVE  \A i \in 0 .. loop.old_len - 1 : Item(store, v, i) \in Elems
<1>1. LenOf(store, v) = loop.old_len /\ Owned(store, v) \subseteq Elems
  BY LoopTypes, Disjoint DEF FInv, Layout, AtStake
<1> QED BY <1>1 DEF Owned

LEMMA RetainAskOrdered ==
  ASSUME FInv, Ordered, NEW rejected \in BOOLEAN, RetainAsk(rejected)
  PROVE  Ordered'
<1> DEFINE m    == loop.idx - loop.del
           e    == Item(store, v, loop.idx)
           args == <<e>>
<1>1. /\ loop.kind = "retain" /\ loop.idx < loop.end /\ Answered(args, rejected)
      /\ loop' = [loop EXCEPT !.idx = @ + 1, !.del = IF rejected THEN @ + 1 ELSE @]
      /\ IF rejected THEN UNCHANGED store ELSE Keep(loop.idx, m)
  BY DEF RetainAsk, Asking
<1>2. /\ loop.idx \in Nat /\ loop.old_len \in Nat /\ loop.del \in Nat /\ loop.w \in Nat
      /\ m \in Nat /\ m <= loop.idx /\ loop \in Loops /\ loop.idx \in 0 .. loop.old_len - 1
  BY <1>1, LoopTypes, LoopFacts DEF FInv
<1>3. loop.kind \in {"retain", "dedup"}
  BY <1>1
<1>4. e \in Elems
  BY <1>2, <1>3, AskedItems
<1>5. /\ v' = v /\ loop'.kind = loop.kind /\ loop'.idx = loop.idx + 1
      /\ loop'.old_len = loop.old_len /\ loop'.w = loop.w
      /\ loop'.del = IF rejected THEN loop.del + 1 ELSE loop.del
  BY <1>1, <1>2 DEF Loops, v
<1>6. Stayed = m /\ Stayed' = IF rejected THEN Stayed ELSE Stayed + 1
  <2>1. (loop.idx + 1) - (loop.del + 1) = m /\ (loop.idx + 1) - loop.del = m + 1
    BY <1>2
  <2> QED BY <1>1, <1>5, <2>1 DEF Stayed
<1>7. args \in Seq(Elems)
  BY <1>4
<1>8. args = <<Item(store, v, loop.idx)>>
               \o (IF loop.kind = "dedup" THEN <<Item(store, v, loop.w - 1)>> ELSE <<>>)
  <2>1. <<e>> \o <<>> = <<e>>
    BY ShowsTwo
  <2> QED BY <1>1, <2>1
<1> HIDE DEF args, m
<1>9. /\ Closes(Cells(store', v), Cells(store, v), loop.idx, loop.old_len, Stayed, rejected)
      /\ Owned(store', v) = Owned(store, v)
  BY <1>1, <1>2, <1>3, <1>6, KeepCloses
<1>10. /\ loop.kind # "none" /\ loop.idx < loop.end /\ loop'.w \in Nat /\ loop'.w >= loop.w
  BY <1>1, <1>2, <1>5
<1> QED BY <1>1, <1>5, <1>6, <1>7, <1>8, <1>9, <1>10, AskOrdered

LEMMA DedupAskOrdered ==
  ASSUME FInv, Ordered, NEW rejected \in BOOLEAN, DedupAsk(rejected)
  PROVE  Ordered'
<1> DEFINE e    == Item(store, v, loop.idx)
           last == Item(store, v, loop.w - 1)
           args == <<e, last>>
<1>1. /\ loop.kind = "dedup" /\ loop.idx < loop.end /\ Answered(args, rejected)
      /\ loop' = [loop EXCEPT !.idx = @ + 1, !.w = IF rejected THEN @ ELSE @ + 1]
      /\ IF rejected THEN UNCHANGED store ELSE Keep(loop.idx, loop.w)
  BY DEF DedupAsk, Asking
<1>2. /\ loop.idx \in Nat /\ loop.old_len \in Nat /\ loop.w \in Nat /\ loop.w >= 1
      /\ loop.w <= loop.idx /\ loop \in Loops /\ loop.idx \in 0 .. loop.old_len - 1
      /\ loop.w - 1 \in 0 .. loop.old_len - 1
  BY <1>1, LoopTypes, LoopFacts DEF FInv, Ordered
<1>3. loop.kind \in {"retain", "dedup"}
  BY <1>1
<1>4. e \in Elems /\ last \in Elems
  BY <1>2, <1>3, AskedItems
<1>5. /\ v' = v /\ loop'.kind = loop.kind /\ loop'.idx = loop.idx + 1
      /\ loop'.old_len = loop.old_len
      /\ loop'.w = IF rejected THEN loop.w ELSE loop.w + 1
  BY <1>1, <1>2 DEF Loops, v
<1>6. Stayed = loop.w /\ Stayed' = IF rejected THEN Stayed ELSE Stayed + 1
  BY <1>1, <1>5 DEF Stayed
<1> HIDE DEF e, last
<1>7. args \in Seq(Elems)
  BY <1>4
<1>8. args = <<Item(store, v, loop.idx)>>
               \o (IF loop.kind = "dedup" THEN <<Item(store, v, loop.w - 1)>> ELSE <<>>)
  <2>1. <<e>> \o <<last>> = <<e, last>>
    BY ShowsTwo
  <2> QED BY <1>1, <2>1 DEF e, last
<1> HIDE DEF args
<1>9. /\ Closes(Cells(store', v), Cells(store, v), loop.idx, loop.old_len, Stayed, rejected)
      /\ Owned(store', v) = Owned(store, v)
  BY <1>1, <1>2, <1>3, <1>6, KeepCloses
<1>10. /\ loop.kind # "none" /\ loop.idx < loop.end /\ loop'.w \in Nat /\ loop'.w >= loop.w
  BY <1>1, <1>2, <1>5
<1> QED BY <1>1, <1>5, <1>6, <1>7, <1>8, <1>9, <1>10, AskOrdered

LEMMA BeginningOrdered ==
  ASSUME FInv, Ordered, NEW h \in Handles,
         \/ Retain(h) \/ Dedup(h)
         \/ \E start, end \in Nat : ExtractIf(h, start, end)
  PROVE  Ordered'
<1> DEFINE len == LenOf(store, h)
<1>1. len \in Nat /\ Sound(store)
  BY SoundLen, RawAssumption DEF FInv, Accounts, Bounded
<1>2. CASE Retain(h) \/ Dedup(h)
  <2>1. PICK kind \in {"retain", "dedup"}, start \in Nat :
          /\ start <= len /\ Begin(h, kind, start, len) /\ store' = store
          /\ kind = "dedup" => start = 1
    BY <1>1, <1>2 DEF Retain, Dedup
  <2>2. Cells(store', h) = Cells(store, h) /\ Owned(store', h) = Owned(store, h)
    BY <2>1
  <2> QED BY <1>1, <2>1, <2>2, BeginOrdered
<1>3. ASSUME NEW start \in Nat, NEW end \in Nat, ExtractIf(h, start, end)
      PROVE  Ordered'
  <2> DEFINE zero == 0
             kind == "extract"
  <2>1. start <= end /\ end <= len /\ Begin(h, kind, start, end) /\ store' = SetLen(store, h, zero)
    BY <1>3 DEF ExtractIf
  <2>2. zero \in 0 .. MaxCap
    BY RawAssumption
  <2> HIDE DEF zero
  <2>3. store' = Edited(store, h, Cells(store, h), zero)
    BY <1>1, <2>1, SetLenWrites
  <2>4. Cells(store', h) = Cells(store, h)
    BY <1>1, <2>2, <2>3, Rewritten
  <2> QED BY <1>1, <2>1, <2>4, BeginOrdered
<1> QED BY <1>2, <1>3

LEMMA OrderedStep ==
  ASSUME FInv, Ordered, [FilterNext]_allVars
  PROVE  Ordered'
<1>1. CASE Program
  <2>1. loop' = loop /\ asked' = asked /\ loop.kind = "none" /\ loop = NoLoop /\ asked = NoAsked
    BY <1>1 DEF Program, fvars, FInv, Layout, Ordered
  <2> QED BY <2>1, NotLooping
<1>2. ASSUME NEW h \in Handles, Retain(h) \/ Dedup(h)
      PROVE  Ordered'
  BY <1>2, BeginningOrdered
<1>3. ASSUME NEW h \in Handles, NEW start \in 0 .. MaxCap, NEW end \in 0 .. MaxCap,
             ExtractIf(h, start, end)
      PROVE  Ordered'
  <2>1. start \in Nat /\ end \in Nat
    BY RawAssumption
  <2> QED BY <1>3, <2>1, BeginningOrdered
<1>4. ASSUME NEW rejected \in BOOLEAN,
             ExtractAsk(rejected) \/ RetainAsk(rejected) \/ DedupAsk(rejected)
      PROVE  Ordered'
  BY <1>4, ExtractAskOrdered, RetainAskOrdered, DedupAskOrdered
<1>5. CASE DropExtract \/ ForgetExtract \/ LoopEnds \/ LoopPanics
  BY <1>5, NotLooping DEF DropExtract, ForgetExtract, LoopEnds, LoopPanics, Finish
<1>6. CASE UNCHANGED allVars
  <2>1. store' = store /\ loop' = loop /\ asked' = asked
    BY <1>6 DEF allVars, vars, fvars
  <2>2. v' = v /\ Stayed' = Stayed
    BY <2>1 DEF v, Stayed
  <2>3. AskedInOrder'
    BY <2>1 DEF Ordered, AskedInOrder, Kept
  <2> QED BY <2>1, <2>2, <2>3 DEF Ordered
<1>7. CASE ExtractPanics
  BY <1>6, <1>7 DEF ExtractPanics
<1> QED BY <1>1, <1>2, <1>3, <1>4, <1>5, <1>6, <1>7 DEF FilterNext

LEMMA OrderedInvariant == FilterSpec => [](FInv /\ Ordered)
<1>1. FilterInit => FInv /\ Ordered
  <2> SUFFICES ASSUME FilterInit PROVE FInv /\ Ordered
    OBVIOUS
  <2> DEFINE noone == <<>>
             none  == {}
  <2>1. loop = NoLoop /\ loop.kind = "none" /\ loop.idx = 0
    BY DEF FilterInit, NoLoop
  <2>2. asked = [items |-> noone, start |-> 0, calls |-> noone, gone |-> none] /\ asked = NoAsked
    BY DEF FilterInit, NoAsked
  <2>3. noone \in Seq(Elems) /\ noone \in Seq(Seq(Elems)) /\ none \subseteq Elems /\ Len(noone) = 0
    OBVIOUS
  <2> HIDE DEF noone, none
  <2>4. asked \in History
    BY <2>2, <2>3 DEF History
  <2>5. AskedInOrder
    <3>1. Len(asked.calls) = 0 /\ asked.start = 0 /\ 0 - 0 = 0 /\ 1 .. 0 = {}
      BY <2>2, <2>3
    <3> QED BY <2>1, <3>1 DEF AskedInOrder
  <2>6. Ordered
    BY <2>1, <2>2, <2>4, <2>5 DEF Ordered
  <2> QED BY <2>6, InitFilter
<1>2. FInv /\ Ordered /\ [FilterNext]_allVars => FInv' /\ Ordered'
  BY FilterStep, OrderedStep
<1> QED BY <1>1, <1>2, PTL DEF FilterSpec

(* The closure is asked once about each item of the range, in order, and   *)
(* about no other; dedup_by shows it the last item kept so far as well,    *)
(* which the swaps of the loop must have brought to the write index.       *)
THEOREM QuestionsInOrder == FilterSpec => []AskedInOrder
<1>1. FInv /\ Ordered => AskedInOrder
  BY DEF Ordered
<1> QED BY <1>1, OrderedInvariant, PTL
----------------------------------------------------------------------------
(* What a loop leaves behind.                                              *)

LEMMA EmptyContents ==
  ASSUME NEW s, NEW h, LenOf(s, h) = 0
  PROVE  Contents(s, h) = <<>>
<1> DEFINE k == <<>>
<1>1. k \in Seq(Elems) /\ Len(k) = 0 /\ 1 .. 0 = {}
  OBVIOUS
<1> HIDE DEF k
<1>2. Contents(s, h) = k
  BY <1>1, SameContents
<1> QED BY <1>2 DEF k

(* The items that stay, if the loop asks no more questions.                *)
LEMMA KeptCells ==
  ASSUME FInv, Ordered, loop.kind # "none"
  PROVE  LET i   == loop.idx
             m   == Stayed
             len == Stayed + (loop.old_len - loop.idx)
         IN  /\ Kept(Len(asked.items)) \in Seq(Elems) /\ Len(Kept(Len(asked.items))) = len
             /\ \A j \in 1 .. len : Kept(Len(asked.items))[j] =
                                      Cells(store, v)[IF j <= m THEN j - 1 ELSE i + (j - m) - 1]
<1> DEFINE q == asked.items
           G == asked.gone
           cells == Cells(store, v)
           i == loop.idx
           n == loop.old_len
           m == Stayed
<1>1. i \in Nat /\ n \in Nat /\ m \in Nat /\ i <= n
  BY LoopTypes, LoopFacts DEF Stayed
<1>2. InOrder(q, asked.start, G, cells, i, n, m) /\ Len(q) = n
  BY DEF Ordered, InOrder
<1>3. Kept(Len(asked.items)) = Sifted(q, G)[n]
  BY <1>2 DEF Kept
<1> HIDE DEF q, G, cells, i, n, m
<1>4. Counts(Sifted(q, G), cells, i, n, m)
  BY <1>1, <1>2, OrderEnds
<1> QED BY <1>3, <1>4 DEF Counts, cells, i, n, m

LEMMA DropSurvivors ==
  ASSUME FInv, Ordered, DropExtract
  PROVE  Contents(store', v) = Kept(Len(asked.items))
<1> DEFINE src   == Cells(store, v)
           new   == Cells(store', v)
           i     == loop.idx
           del   == loop.del
           m     == i - del
           rest  == loop.old_len - i
           n     == loop.old_len - del
           k     == Kept(Len(asked.items))
           cells == IF rest > 0 /\ del > 0 THEN Shift(src, i, m, rest) ELSE src
<1>1. loop.kind = "extract" /\ loop.kind # "none" /\ store' = Edited(store, v, cells, n)
  BY DEF DropExtract
<1>2. /\ v \in Handles /\ Sound(store) /\ src \in Block
      /\ i \in Nat /\ del \in Nat /\ m \in Nat /\ rest \in Nat /\ n \in Nat /\ m + del = i
      /\ n = m + rest /\ i + rest <= MaxCap /\ n <= MaxCap /\ MaxCap \in Nat
  BY <1>1, LoopTypes, LoopFacts, RawAssumption
<1>3. /\ k \in Seq(Elems) /\ Len(k) = n
      /\ \A j \in 1 .. n : k[j] = src[IF j <= m THEN j - 1 ELSE i + (j - m) - 1]
  <2>1. Stayed = m
    BY <1>1 DEF Stayed
  <2> HIDE DEF k
  <2>2. m + (loop.old_len - loop.idx) = n
    BY <1>2
  <2> QED BY <1>1, <2>1, <2>2, KeptCells DEF k
<1>4. new = cells /\ LenOf(store', v) = n
  <2>1. n \in 0 .. MaxCap
    BY <1>2
  <2> HIDE DEF cells, n
  <2> QED BY <1>1, <1>2, <2>1, Rewritten
<1> HIDE DEF src, new, i, del, m, rest, n, k
<1>5. ASSUME NEW j \in 1 .. n
      PROVE  cells[j - 1] = src[IF j <= m THEN j - 1 ELSE i + (j - m) - 1]
  <2>1. j \in Nat /\ j - 1 \in Slots /\ j - 1 \in 0 .. n - 1
    BY <1>2 DEF Slots
  <2>2. CASE rest > 0 /\ del > 0
    <3>0. cells = Shift(src, i, m, rest)
      BY <2>2
    <3>1. \A l \in Slots : cells[l] = IF l \in m .. m + rest - 1 THEN src[l - m + i]
                                      ELSE IF l \in i .. i + rest - 1 THEN Uninit ELSE src[l]
      <4>1. ShiftedFrom(src, Shift(src, i, m, rest), i, m, rest)
        BY <1>2, ShiftIs
      <4> QED BY <3>0, <4>1 DEF ShiftedFrom
    <3> HIDE DEF cells
    <3>2. CASE j <= m
      <4>1. j - 1 \notin m .. m + rest - 1 /\ j - 1 \notin i .. i + rest - 1
        BY <1>2, <2>1, <3>2
      <4> QED BY <2>1, <3>1, <3>2, <4>1
    <3>3. CASE ~(j <= m)
      <4>1. j - 1 \in m .. m + rest - 1 /\ j - 1 - m + i = i + (j - m) - 1
        BY <1>2, <2>1, <3>3
      <4> QED BY <2>1, <3>1, <3>3, <4>1
    <3> QED BY <3>2, <3>3
  <2>3. CASE ~(rest > 0 /\ del > 0)
    <3>1. cells = src
      BY <2>3
    <3>2. ~(j <= m) => i + (j - m) - 1 = j - 1
      BY <1>2, <2>1, <2>3
    <3> HIDE DEF cells
    <3> QED BY <3>1, <3>2
  <2> QED BY <2>2, <2>3
<1> HIDE DEF cells
<1>6. \A j \in 1 .. Len(k) : Cells(store', v)[j - 1] = k[j]
  BY <1>3, <1>4, <1>5 DEF new
<1>7. Contents(store', v) = k
  BY <1>3, <1>4, <1>6, SameContents
<1> QED BY <1>7 DEF k

LEMMA LoopSurvivors ==
  ASSUME FInv, Ordered, LoopEnds
  PROVE  Contents(store', v) = Kept(Len(asked.items))
<1> DEFINE src   == Cells(store, v)
           m     == Stayed
           many  == LenOf(store, v) - m
           k     == Kept(Len(asked.items))
           cells == Wipe(src, m, many)
<1>1. /\ loop.kind \in {"retain", "dedup"} /\ loop.kind # "none" /\ loop.idx = loop.end
      /\ CutTo(v, IF loop.kind = "retain" THEN loop.end - loop.del ELSE loop.w)
  BY DEF LoopEnds
<1>2. /\ v \in Handles /\ Sound(store) /\ src \in Block /\ LenOf(store, v) = loop.old_len
      /\ loop.idx \in Nat /\ loop.idx = loop.old_len /\ m \in Nat /\ m <= loop.old_len
      /\ loop.old_len <= MaxCap /\ MaxCap \in Nat
  BY <1>1, LoopTypes, LoopFacts, RawAssumption DEF FInv, Layout, Stayed
<1>3. store' = Edited(store, v, cells, m)
  BY <1>1 DEF CutTo, Stayed
<1>4. /\ k \in Seq(Elems) /\ Len(k) = m
      /\ \A j \in 1 .. m : k[j] = src[j - 1]
  <2> HIDE DEF k
  <2>1. m + (loop.old_len - loop.idx) = m
    BY <1>2
  <2>2. /\ k \in Seq(Elems) /\ Len(k) = m
        /\ \A j \in 1 .. m : k[j] = src[IF j <= m THEN j - 1 ELSE loop.idx + (j - m) - 1]
    BY <1>1, <2>1, KeptCells DEF k
  <2>3. \A j \in 1 .. m : j <= m
    BY <1>2
  <2> QED BY <2>2, <2>3
<1>5. Cells(store', v) = cells /\ LenOf(store', v) = m
  <2>1. m \in 0 .. MaxCap
    BY <1>2
  <2> HIDE DEF cells, m
  <2> QED BY <1>2, <1>3, <2>1, Rewritten
<1>6. \A j \in 1 .. m : cells[j - 1] = src[j - 1]
  <2>1. many \in Int /\ m \in Int
    BY <1>2
  <2>2. \A j \in 1 .. m : j - 1 \in Slots /\ j - 1 \notin m .. m + many - 1
    BY <1>2 DEF Slots
  <2> HIDE DEF src, m, many
  <2>3. \A l \in Slots : cells[l] = IF l \in m .. m + many - 1 THEN Uninit ELSE src[l]
    BY <1>2, <2>1, WipeType
  <2> HIDE DEF cells
  <2> QED BY <2>2, <2>3
<1> HIDE DEF k, m, cells
<1>7. \A j \in 1 .. Len(k) : Cells(store', v)[j - 1] = k[j]
  BY <1>4, <1>5, <1>6
<1>8. Contents(store', v) = k
  BY <1>4, <1>5, <1>7, SameContents
<1> QED BY <1>8 DEF k

(* However a loop ends, the vector is the items that were not rejected, in *)
(* their order: the shifts of ExtractIf and the swaps of retain_mut and    *)
(* dedup_by lose and reorder none.  After a panic in retain_mut or         *)
(* dedup_by it is all of them; after a forgotten ExtractIf it is empty.    *)
THEOREM SurvivorsStay == FilterSpec => SurvivorsInOrder
<1> DEFINE Left == IF ForgetExtract THEN Contents(store', v) = <<>>
                   ELSE IF LoopPanics
                   THEN /\ LenOf(store', v) = Len(asked.items)
                        /\ Owned(store', v) = {asked.items[n] : n \in 1 .. Len(asked.items)}
                   ELSE Contents(store', v) = Kept(Len(asked.items))
<1>1. FInv /\ Ordered /\ [FilterNext]_allVars => [loop.kind # "none" /\ loop'.kind = "none" => Left]_allVars
  <2> SUFFICES ASSUME FInv, Ordered, FilterNext, loop.kind # "none", loop'.kind = "none"
               PROVE  Left
    OBVIOUS
  <2>1. DropExtract \/ ForgetExtract \/ LoopEnds \/ LoopPanics
    <3>1. ~Program /\ ~ExtractPanics
      BY DEF Program, ExtractPanics, allVars, fvars
    <3>2. \A h \in Handles :
            /\ ~Retain(h) /\ ~Dedup(h)
            /\ \A start, end \in 0 .. MaxCap : ~ExtractIf(h, start, end)
      BY DEF Retain, Dedup, ExtractIf, Begin
    <3>3. loop \in Loops
      BY DEF FInv
    <3>4. \A rejected \in BOOLEAN :
            ~ExtractAsk(rejected) /\ ~RetainAsk(rejected) /\ ~DedupAsk(rejected)
      <4> SUFFICES ASSUME NEW rejected \in BOOLEAN,
                          ExtractAsk(rejected) \/ RetainAsk(rejected) \/ DedupAsk(rejected)
                   PROVE  FALSE
        OBVIOUS
      <4>1. loop'.kind = loop.kind
        BY <3>3 DEF ExtractAsk, RetainAsk, DedupAsk, Loops
      <4> QED BY <4>1
    <3> QED BY <3>1, <3>2, <3>4 DEF FilterNext
  <2>2. CASE ForgetExtract
    <3>1. store' = store /\ LenOf(store, v) = 0
      BY <2>2 DEF ForgetExtract, vars, FInv, Layout
    <3>2. LenOf(store', v) = 0
      BY <3>1
    <3> QED BY <2>2, <3>2, EmptyContents
  <2>3. CASE ~ForgetExtract /\ LoopPanics
    <3>1. store' = store /\ loop.kind \in {"retain", "dedup"}
      BY <2>3 DEF LoopPanics, Asking, vars
    <3>2. LenOf(store, v) = loop.old_len /\ Len(asked.items) = loop.old_len
      BY <3>1 DEF FInv, Layout, Ordered, InOrder
    <3>3. Owned(store, v) = {asked.items[n] : n \in 1 .. loop.old_len}
      BY <3>1 DEF Ordered
    <3> QED BY <2>3, <3>1, <3>2, <3>3
  <2>4. CASE ~ForgetExtract /\ ~LoopPanics
    <3>1. Contents(store', v) = Kept(Len(asked.items))
      BY <2>1, <2>4, DropSurvivors, LoopSurvivors
    <3> QED BY <2>4, <3>1
  <2> QED BY <2>2, <2>3, <2>4
<1> QED BY <1>1, OrderedInvariant, PTL DEF FilterSpec, SurvivorsInOrder
=============================================================================
