------------------------------- MODULE Clones -------------------------------
(***************************************************************************)
(* The calls that make elements while they run, by Clone, by an iterator   *)
(* or by a closure, and the ones that make them all at once because T is   *)
(* Copy.  User code runs for each element and may panic there.  A call     *)
(* stores what it gets in one of three ways:                               *)
(*   push   : each element is pushed; a panic keeps those already there    *)
(*   guard  : written beyond the length, which moves at the end; a panic   *)
(*            drops them (DropGuard)                                       *)
(*   assign : clone_from overwrites the items the vector has               *)
(* With the feature "specialization", extend and from_iter of a TrustedLen *)
(* iterator take the second way; without it, the first.                    *)
(***************************************************************************)
EXTENDS IntoIter

CONSTANTS
  ChunkRoom    \* what BufMut::chunk_mut reserves: 64 in the code

ASSUME ChunkAssumption == ChunkRoom \in Nat \ {0}

VARIABLES
  call,     \* the locals of the running call
  val,      \* history: the value of every element; at first each has its own,
            \* and what the running call clones has that of its original
  past      \* history: values before the call, values it should add

cvars   == <<call, val, past>>
allVars == <<vars, ivars, cvars>>

(* how: as above.  give: where elements come from, "clone"s of the items   *)
(* of src from at on, "repeat"s of value, or "item"s of an iterator.  n    *)
(* elements are due (open: as many as the iterator gives), made are        *)
(* stored.  base: the length at first.  fresh: the call constructs vec.    *)
NoCall == [how |-> "none", give |-> "item", open |-> FALSE, fresh |-> FALSE,
           vec |-> Std, src |-> Std, at |-> 0, n |-> 0, made |-> 0, base |-> 0,
           value |-> Uninit]
NoPast == [before |-> <<>>, want |-> <<>>]
OwnValues == [e \in Elems |-> e]

v    == call.vec
Idle == call.how = "none"

ValuesOf(seq, vals) == [i \in 1 .. Len(seq) |-> vals[seq[i]]]
Values(s, h, vals)  == ValuesOf(Contents(s, h), vals)

CloneInit ==
  /\ Init
  /\ IterInit
  /\ call = NoCall
  /\ val = OwnValues
  /\ past = NoPast

(* Calls of the program and of its iterators between two of these calls:   *)
(* vectors are made, grow, change hands and are dropped.  A new vector     *)
(* takes a handle whose storage no iterator owns.                          *)
Program ==
  /\ Idle
  /\ \/ /\ \E h \in Handles :
             \/ New(h) \/ FromVec(h) \/ Push(h) \/ DropVec(h)
             \/ \E c \in Sizes : NewWithCapacity(h, c)
             \/ \E c, n \in Sizes : h = Std /\ VecNew(c, n)
        /\ UNCHANGED ivars
     \/ IterNext
  /\ live' \cap iters' = {}
  /\ UNCHANGED cvars

----------------------------------------------------------------------------
(* How a call begins: the vector in state s, the elements that are due.    *)

Begin(h, s, c, want) ==
  /\ Idle
  /\ store' = s
  /\ call' = [c EXCEPT !.vec = h, !.base = LenOf(s, h)]
  /\ past' = [before |-> Values(s, h, val), want |-> want]
  /\ UNCHANGED <<caller, dropped, val, ivars>>

Begins(h, outcomes, c, want) ==
  /\ h \in live \cap SmallVecs
  /\ \E s \in outcomes : Begin(h, s, c, want)
  /\ UNCHANGED live

Constructs(h, outcomes, c, want) ==
  /\ Construct(h)
  /\ h \notin iters
  /\ \E s \in outcomes : Begin(h, s, [c EXCEPT !.fresh = TRUE], want)

(* A slice &[T] of the program: n items of a vector or iterator from at.   *)
Slice(k, at, n) ==
  k \in live \cup iters /\ begin[k] <= at /\ at + n <= LenOf(store, k)

Cloning(how, k, at, n) ==
  [NoCall EXCEPT !.how = how, !.give = "clone", !.src = k, !.at = at, !.n = n]
Repeating(how, e, n) ==
  [NoCall EXCEPT !.how = how, !.give = "repeat", !.value = e, !.n = n]
Drawing(how, open, n) ==
  [NoCall EXCEPT !.how = how, !.open = open, !.n = n]

SliceValues(k, at, n) == ValuesOf(Items(store, k, at, n), val)

Ways == {"push", "guard"}

(* From<&[T]>, Clone for SmallVec and for IntoIter.  Vec::from(slice) and  *)
(* from_vec beyond the inline size; both guard the clones they have made.  *)
FromSlice(h, k, at, n) ==
  /\ Slice(k, at, n)
  /\ Constructs(h, WithCapacity(store, h, n), Cloning("guard", k, at, n),
                SliceValues(k, at, n))

(* from_elem: vec![elem; n] and from_vec beyond the inline size.           *)
FromElem(h, n) ==
  \E e \in caller :
    Constructs(h, WithCapacity(store, h, n), Repeating("guard", e, n),
               [i \in 1 .. n |-> val[e]])

ExtendFromWithin(h, at, n) ==
  /\ Slice(h, at, n)
  /\ Begins(h, Reserve(store, h, n), Cloning("guard", h, at, n), SliceValues(h, at, n))

ExtendFromSlice(h, k, at, n) ==
  /\ h # k
  /\ Slice(k, at, n)
  /\ \E how \in Ways :
       Begins(h, Reserve(store, h, n), Cloning(how, k, at, n), SliceValues(k, at, n))

(* extend_fallback: lower is any lower bound of a size_hint.               *)
Extend(h, lower) ==
  Begins(h, Reserve(store, h, lower), Drawing("push", TRUE, 0), <<>>)

(* spec_extend of a TrustedLen iterator of n items.                        *)
SpecExtend(h, n) == Begins(h, Reserve(store, h, n), Drawing("guard", FALSE, n), <<>>)

FromIter(h, lower) ==
  Constructs(h, WithCapacity(store, h, lower), Drawing("push", TRUE, 0), <<>>)

SpecFromIter(h, n) ==
  Constructs(h, WithCapacity(store, h, n), Drawing("guard", FALSE, n), <<>>)

(* serde's visit_seq, and the macro smallvec![x, y]: New, then push.  The  *)
(* hint is the format's; a failed try_reserve is an Err without an effect. *)
VisitSeq(h, hint) ==
  Constructs(h, Reserve(NewInline(store, h), h, hint), Drawing("push", TRUE, 0), <<>>)

ResizeUp(h, len) ==
  LET n == len - LenOf(store, h)
  IN  /\ n > 0
      /\ \E how \in Ways, e \in caller :
           Begins(h, Reserve(store, h, n), Repeating(how, e, n), [i \in 1 .. n |-> val[e]])

(* resize that does not grow: the value is dropped as well.                *)
ResizeDown(h, len) ==
  /\ Idle
  /\ h \in live \cap SmallVecs
  /\ len <= LenOf(store, h)
  /\ \E e \in caller :
       /\ caller' = caller \ {e}
       /\ dropped' = dropped \cup {e} \cup {Item(store, h, i) : i \in len .. LenOf(store, h) - 1}
  /\ store' = Edited(store, h, Wipe(Cells(store, h), len, LenOf(store, h) - len), len)
  /\ UNCHANGED <<live, ivars, cvars>>

(* resize_with that grows; otherwise it is truncate.                       *)
ResizeWith(h, len) ==
  LET n == len - LenOf(store, h)
  IN  /\ n > 0
      /\ Begins(h, Reserve(store, h, n), Drawing("push", FALSE, n), <<>>)

(* clone_from: what will not be overwritten is dropped first.              *)
CloneFrom(h, k) ==
  /\ Idle
  /\ h \in live \cap SmallVecs
  /\ k \in (live \cap SmallVecs) \ {h}
  /\ LET n == IF LenOf(store, h) < LenOf(store, k) THEN LenOf(store, h) ELSE LenOf(store, k)
     IN  /\ CutTo(h, n)
         /\ call' = [Cloning("assign", k, 0, n) EXCEPT !.vec = h]
         /\ past' = [before |-> SubSeq(Values(store, h, val), 1, n), want |-> Values(store, k, val)]
  /\ UNCHANGED <<val, ivars>>

(* reserve, or with_capacity, panics before anything happens: the value    *)
(* that from_elem or resize was given is dropped.                          *)
ArgumentDropped(h, n) ==
  /\ Idle
  /\ \/ h \in SmallVecs \ (live \cup iters) /\ n > MaxCap
     \/ h \in live \cap SmallVecs /\ n > 0 /\ ReserveOverflows(store, h, n)
  /\ DropArgument
  /\ UNCHANGED <<ivars, cvars>>

Start ==
  \E h \in Handles, n \in Sizes :
    \/ FromElem(h, n) \/ Extend(h, n) \/ SpecExtend(h, n) \/ FromIter(h, n)
    \/ SpecFromIter(h, n) \/ VisitSeq(h, n) \/ ResizeUp(h, n) \/ ResizeDown(h, n)
    \/ ResizeWith(h, n) \/ ArgumentDropped(h, n)
    \/ \E at \in Slots : ExtendFromWithin(h, at, n)
    \/ \E k \in Handles, at \in Slots : FromSlice(h, k, at, n) \/ ExtendFromSlice(h, k, at, n)
    \/ \E k \in Handles : CloneFrom(h, k)

----------------------------------------------------------------------------
(* How it goes on: user code gives an element, with the value it has then. *)

Due == call.made < call.n \/ (call.how = "push" /\ call.open)

CloneOf(e) == {[elem |-> c, vals |-> [val EXCEPT ![c] = val[e]]] : c \in caller \ {call.value}}

(* Mutant: forgets where the slice begins.                                 *)
GivenFromFront ==
  CASE call.give = "item"  -> {[elem |-> e, vals |-> val] : e \in caller}
    [] call.give = "clone" -> CloneOf(Item(store, call.src, call.made))
    [] call.give = "repeat" ->
         IF call.made = call.n - 1 THEN {[elem |-> call.value, vals |-> val]}
         ELSE CloneOf(call.value)

(* The last repeat is the value itself.                                    *)
Given ==
  CASE call.give = "item"  -> {[elem |-> e, vals |-> val] : e \in caller}
    [] call.give = "clone" -> CloneOf(Item(store, call.src, call.at + call.made))
    [] call.give = "repeat" ->
         IF call.made = call.n - 1 THEN {[elem |-> call.value, vals |-> val]}
         ELSE CloneOf(call.value)

Take(g) ==
  /\ caller' = caller \ {g.elem}
  /\ val' = g.vals
  /\ call' = [call EXCEPT !.made = @ + 1]
  /\ past' = [past EXCEPT !.want =
                IF call.give = "item" THEN Append(@, g.vals[g.elem]) ELSE @]
  /\ UNCHANGED <<live, ivars>>

PushStep ==
  /\ call.how = "push"
  /\ Due
  /\ \E g \in Given : Push(v) /\ Take(g)

(* The element is written beyond the length.                               *)
GuardStep ==
  /\ call.how = "guard"
  /\ Due
  /\ \E g \in Given :
       /\ Take(g)
       /\ store' = [store EXCEPT !.mem[AsPtr(store, v)][call.base + call.made] = g.elem]
  /\ UNCHANGED dropped

(* Mutant: the new item is written over the old one, which is not dropped. *)
AssignStepForgets ==
  /\ call.how = "assign"
  /\ Due
  /\ \E g \in Given :
       /\ Take(g)
       /\ store' = [store EXCEPT !.mem[AsPtr(store, v)][call.made] = g.elem]
  /\ UNCHANGED dropped

(* clone_from of an item: once the clone exists, the old item is dropped.  *)
AssignStep ==
  /\ call.how = "assign"
  /\ Due
  /\ \E g \in Given :
       /\ Take(g)
       /\ dropped' = dropped \cup {Item(store, v, call.made)}
       /\ store' = [store EXCEPT !.mem[AsPtr(store, v)][call.made] = g.elem]

EndCall == call' = NoCall /\ past' = NoPast /\ val' = OwnValues

(* clone_from: the rest of the source is cloned by extend.                 *)
AssignTail ==
  /\ call.how = "assign"
  /\ ~Due
  /\ LET rest == LenOf(store, call.src) - call.n
     IN  \E how \in Ways, s \in Reserve(store, v, rest) :
           /\ store' = s
           /\ call' = [Cloning(how, call.src, call.n, rest) EXCEPT !.vec = v, !.base = call.n]
  /\ past' = [before |-> SubSeq(past.want, 1, call.n),
               want |-> SubSeq(past.want, call.n + 1, Len(past.want))]
  /\ UNCHANGED <<live, caller, dropped, val, ivars>>

AssignTailPanics ==
  /\ call.how = "assign"
  /\ ~Due
  /\ ReserveOverflows(store, v, LenOf(store, call.src) - call.n)
  /\ EndCall
  /\ UNCHANGED <<vars, ivars>>

(* The iterator ends, or nothing is due any more.                          *)
PushEnds ==
  /\ call.how = "push"
  /\ call.made = call.n \/ call.open
  /\ EndCall
  /\ UNCHANGED <<vars, ivars>>

(* The guard is forgotten and the length covers what it guarded.  A value  *)
(* of which no copy was due is dropped.                                    *)
GuardEnds ==
  /\ call.how = "guard"
  /\ ~Due
  /\ store' = SetLen(store, v, call.base + call.n)
  /\ LET unused == {call.value} \cap caller
     IN  caller' = caller \ unused /\ dropped' = dropped \cup unused
  /\ EndCall
  /\ UNCHANGED <<live, ivars>>

----------------------------------------------------------------------------
(* How it may fail.                                                        *)

Guarded == IF call.how = "guard" THEN call.base .. call.base + call.made - 1 ELSE {}

(* Mutant: the guard publishes its elements instead of dropping them.      *)
UnwindsPublishing(inFlight) ==
  LET lost == ({call.value} \cap caller) \cup inFlight
      kept == SetLen(store, v, IF call.how = "guard" THEN call.base + call.made
                               ELSE LenOf(store, v))
  IN  /\ caller' = caller \ lost
      /\ IF call.fresh
         THEN /\ store' = Released(kept, v)
              /\ live' = live \ {v}
              /\ dropped' = dropped \cup lost \cup Owned(kept, v)
         ELSE store' = kept /\ dropped' = dropped \cup lost /\ UNCHANGED live
      /\ EndCall
      /\ UNCHANGED ivars

(* The unwinding drops what the guard guards, the value, the element in    *)
(* flight, and the vector if it is the call's own.                         *)
Unwinds(inFlight) ==
  LET lost    == ({call.value} \cap caller) \cup inFlight
      guarded == {Item(store, v, i) : i \in Guarded}
      kept    == [store EXCEPT !.mem[AsPtr(store, v)] =
                    [i \in Slots |-> IF i \in Guarded THEN Uninit ELSE @[i]]]
  IN  /\ caller' = caller \ lost
      /\ IF call.fresh
         THEN /\ store' = Released(kept, v)
              /\ live' = live \ {v}
              /\ dropped' = dropped \cup lost \cup guarded \cup Owned(store, v)
         ELSE store' = kept /\ dropped' = dropped \cup lost \cup guarded /\ UNCHANGED live
      /\ EndCall
      /\ UNCHANGED ivars

(* User code panics; or the source of visit_seq returns an error.          *)
UserPanics == ~Idle /\ Due /\ Unwinds({})

PushOverflows ==
  /\ call.how = "push"
  /\ Due
  /\ LenOf(store, v) = Capacity(store, v)
  /\ ReserveOverflows(store, v, 1)
  /\ \E e \in caller : Unwinds({e})

CloneStep ==
  \/ PushStep \/ GuardStep \/ AssignStep \/ AssignTail \/ AssignTailPanics
  \/ PushEnds \/ GuardEnds \/ UserPanics \/ PushOverflows

----------------------------------------------------------------------------
(* Moves in bulk: no user code runs.                                       *)

(* extend with an IntoIter: its items move, it is empty and is dropped.    *)
ExtendFromIter(h, k) ==
  /\ Idle
  /\ h \in live \cap SmallVecs
  /\ k \in iters
  /\ LET n   == LenOf(store, k) - begin[k]
         len == LenOf(store, h)
     IN  \E s \in Reserve(store, h, n) :
           store' = Released(Edited(s, h, Copy(Cells(s, k), begin[k], Cells(s, h), len, n),
                                    len + n), k)
  /\ IterGone(k)
  /\ UNCHANGED <<live, caller, dropped, leaked, cvars>>

ExtendFromIterPanics(h, k) ==
  /\ Idle
  /\ h \in live \cap SmallVecs
  /\ ReserveOverflows(store, h, LenOf(store, k) - begin[k])
  /\ DropIter(k)
  /\ UNCHANGED cvars

(* The instances f are copies, of the values in want.                      *)
CopiedValues(f, want) ==
  [e \in Elems |-> IF e \in Taken(f, Len(want))
                   THEN want[1 + (CHOOSE i \in 0 .. Len(want) - 1 : f[i] = e)]
                   ELSE val[e]]

(* Items with the values in want are copied to index of h, in state s.     *)
CopyIn(outcomes, h, index, want) ==
  \E s \in outcomes, f \in Arrays(Len(want)) :
    LET n    == Len(want)
        len  == LenOf(s, h)
        open == Shift(Cells(s, h), index, index + n, len - index)
    IN  /\ store' = Edited(s, h, Copy(Filled(f, n), 0, open, index, n), len + n)
        /\ caller' = caller \ Taken(f, n)
        /\ val' = CopiedValues(f, want)
        /\ past' = [before |-> Values(s, h, val), want |-> want]
        /\ call' = [NoCall EXCEPT !.how = "copy", !.vec = h, !.base = index]

CopyCall(h, index, k, at, n) ==
  /\ Idle
  /\ h \in live \cap SmallVecs
  /\ Slice(k, at, n)
  /\ CopyIn(Reserve(store, h, n), h, index, SliceValues(k, at, n))
  /\ UNCHANGED <<live, dropped, ivars>>

ExtendFromSliceCopy(h, k, at, n) == h # k /\ CopyCall(h, LenOf(store, h), k, at, n)
ExtendFromWithinCopy(h, at, n)   == CopyCall(h, LenOf(store, h), h, at, n)
InsertFromSliceCopy(h, index, k, at, n) ==
  h # k /\ index <= LenOf(store, h) /\ CopyCall(h, index, k, at, n)

FromSliceCopy(h, k, at, n) ==
  /\ Idle
  /\ Construct(h)
  /\ h \notin iters
  /\ Slice(k, at, n)
  /\ CopyIn(WithCapacity(store, h, n), h, 0, SliceValues(k, at, n))
  /\ UNCHANGED <<dropped, ivars>>

(* from_elem of a Copy type within the inline size: there is no guard.     *)
FromElemCopy(h, n) ==
  /\ Idle
  /\ Construct(h)
  /\ h \notin iters
  /\ n <= InlineSize[h]
  /\ \E e \in caller : CopyIn({NewInline(store, h)}, h, 0, [i \in 1 .. n |-> val[e]])
  /\ UNCHANGED <<dropped, ivars>>

(* clone_from for T: Copy is clear, then extend_from_slice.                *)
CloneFromCopy(h, k) ==
  /\ Idle
  /\ {h, k} \subseteq live \cap SmallVecs
  /\ h # k
  /\ LET empty == Edited(store, h, Blank, 0)
         n     == LenOf(store, k)
     IN  CopyIn(Reserve(empty, h, n), h, 0, SliceValues(k, 0, n))
  /\ dropped' = dropped \cup Owned(store, h)
  /\ UNCHANGED <<live, ivars>>

(* Its reserve panics once clear has emptied the vector.                   *)
CloneFromCopyPanics(h, k) ==
  /\ Idle
  /\ {h, k} \subseteq live \cap SmallVecs
  /\ h # k
  /\ LET empty == Edited(store, h, Blank, 0)
     IN  ReserveOverflows(empty, h, LenOf(store, k)) /\ store' = empty
  /\ dropped' = dropped \cup Owned(store, h)
  /\ UNCHANGED <<live, caller, ivars, cvars>>

CopyEnds ==
  /\ call.how = "copy"
  /\ EndCall
  /\ UNCHANGED <<vars, ivars>>

----------------------------------------------------------------------------
(* bytes::BufMut for a vector of bytes.                                    *)

ChunkMut(h) ==
  /\ Idle
  /\ Resize(h, IF Capacity(store, h) = LenOf(store, h) THEN Reserve(store, h, ChunkRoom)
               ELSE {store})
  /\ UNCHANGED <<ivars, cvars>>

(* The program has written n bytes into the chunk; more than fit panic.    *)
AdvanceMut(h, n) ==
  /\ Idle
  /\ h \in live \cap SmallVecs
  /\ n <= Capacity(store, h) - LenOf(store, h)
  /\ \E f \in Arrays(n) :
       LET len == LenOf(store, h)
       IN  /\ store' = Edited(store, h, Copy(Filled(f, n), 0, Cells(store, h), len, n), len + n)
           /\ caller' = caller \ Taken(f, n)
  /\ UNCHANGED <<live, dropped, ivars, cvars>>

(* put: room for what remains, then chunk by chunk; a source that panics   *)
(* has delivered m of the n bytes.                                         *)
Put(h, n, m) ==
  /\ Idle
  /\ h \in live \cap SmallVecs
  /\ m <= n
  /\ \E s \in Reserve(store, h, n), f \in Arrays(m) :
       LET len == LenOf(s, h)
       IN  /\ store' = Edited(s, h, Copy(Filled(f, m), 0, Cells(s, h), len, m), len + m)
           /\ caller' = caller \ Taken(f, m)
  /\ UNCHANGED <<live, dropped, ivars, cvars>>

Bulk ==
  \E h, k \in Handles :
    \/ ExtendFromIter(h, k) \/ ExtendFromIterPanics(h, k)
    \/ CloneFromCopy(h, k) \/ CloneFromCopyPanics(h, k) \/ ChunkMut(h)
    \/ \E n \in Sizes :
         \/ AdvanceMut(h, n) \/ FromElemCopy(h, n)
         \/ \E m \in Sizes : Put(h, n, m)
         \/ \E at \in Slots :
              \/ ExtendFromSliceCopy(h, k, at, n) \/ ExtendFromWithinCopy(h, at, n)
              \/ FromSliceCopy(h, k, at, n)
              \/ \E index \in 0 .. MaxCap : InsertFromSliceCopy(h, index, k, at, n)

CloneNext == Program \/ Start \/ Bulk \/ CloneStep \/ CopyEnds

CloneSpec == CloneInit /\ [][CloneNext]_allVars

----------------------------------------------------------------------------
(* No call makes more than it is due, clones come from items that are      *)
(* there, and what is handed out or dropped is an element.                 *)
CloneTypeOK ==
  /\ TypeOK
  /\ IterTypeOK
  /\ call \in [how : {"none", "push", "guard", "assign", "copy"},
               give : {"item", "clone", "repeat"}, open : BOOLEAN, fresh : BOOLEAN,
               vec : Handles, src : Handles, at : 0 .. MaxCap, n : 0 .. MaxCap + 1,
               made : 0 .. MaxCap, base : 0 .. MaxCap, value : Cell]
  /\ val \in [Elems -> Elems]

(* The cells a guard guards are in use as well.                            *)
CellsInUse(h) == IterCells(h) \cup (IF h = v THEN Guarded ELSE {})

(* Whatever panics, at whichever element, no element is lost, duplicated   *)
(* or dropped twice; only forgetting an IntoIter leaks.                    *)
CloneAccountedFor == EachElementOnce(live \cup iters, CellsInUse, leaked)

(* What a guard writes without a check fits the capacity reserved for it,  *)
(* on the strength of a slice length or of TrustedLen, and nothing is      *)
(* written outside a buffer.                                               *)
GuardStaysInBounds ==
  /\ WritesStayInBounds
  /\ call.how = "guard" => call.base + call.n <= Capacity(store, v)

(* A call that returns has added the values it was asked for, where it was *)
(* asked to, and moved no other: clones and copies are of the right items. *)
CallAddsWhatIsDue ==
  [][PushEnds \/ GuardEnds \/ CopyEnds =>
       Values(store', v, val) =
         SubSeq(past.before, 1, call.base) \o past.want
           \o SubSeq(past.before, call.base + 1, Len(past.before))]_allVars

(* A panic in a call that makes its elements one at a time leaves an       *)
(* existing vector what it had, and of the new values those already        *)
(* pushed, or assigned by clone_from.  The clone_from of a Copy type makes *)
(* no such promise: CloneFromCopyPanics leaves the vector empty.           *)
PanicKeepsOldValues ==
  [][(UserPanics \/ PushOverflows \/ AssignTailPanics) /\ ~call.fresh =>
       Values(store', v, val) =
         CASE call.how = "push"   -> past.before \o SubSeq(past.want, 1, call.made)
           [] call.how = "guard"  -> past.before
           [] call.how = "assign" ->
                SubSeq(past.want, 1, call.made)
                  \o SubSeq(past.before, call.made + 1, Len(past.before))]_allVars

(* No constructor that panics, no iterator and no clone loses a heap block.*)
(* What does is growing an empty spilled vector, which clone_from of a     *)
(* Copy type does to a vector it has cleared, and forgetting an IntoIter.  *)
ClonesLoseNoBlock ==
  [][\A h \in live \cup iters, p \in Ptrs :
       /\ h \in Holders(store, live \cup iters, p)
       /\ store'.size[p] > 0
       /\ Holders(store', live' \cup iters', p) = {}
       => \/ h \in iters /\ ForgetIter(h)
          \/ /\ h \in live'
             /\ OnHeap(store', h)
             /\ LenOf(store, h) = 0 \/ (call'.how = "copy" /\ past'.before = <<>>)]_allVars
=============================================================================
