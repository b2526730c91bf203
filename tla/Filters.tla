------------------------------ MODULE Filters ------------------------------
(***************************************************************************)
(* extract_if, retain_mut and dedup_by: loops that ask a closure about one *)
(* item after the other and close the gaps of those it does not want.      *)
(* retain, dedup and dedup_by_key only wrap the closure.  Each question is *)
(* a step; it may panic.  retain_mut and dedup_by leave the length alone   *)
(* and swap; ExtractIf hands items out, so it cuts the length first.       *)
(***************************************************************************)
EXTENDS UserCode

VARIABLES
  loop,     \* the locals of the loop, or the fields of the ExtractIf
  leaked,   \* elements that a forgotten ExtractIf still had to give back
  asked     \* history: the items at first, the questions, the rejected items

fvars   == <<loop, leaked, asked>>
allVars == <<vars, fvars>>

(* idx is the item to ask about next, end the first that is not asked      *)
(* about, del the number rejected; w is dedup_by's write index.            *)
NoLoop  == [kind |-> "none", vec |-> Std, idx |-> 0, end |-> 0, old_len |-> 0,
            del |-> 0, w |-> 0]
NoAsked == [items |-> <<>>, start |-> 0, calls |-> <<>>, gone |-> {}]

v == loop.vec

FilterInit ==
  /\ Init
  /\ loop = NoLoop
  /\ leaked = {}
  /\ asked = NoAsked

(* Calls of the program between two loops.                                 *)
Program ==
  /\ loop.kind = "none"
  /\ OneVector
  /\ UNCHANGED fvars

Begin(h, kind, start, end) ==
  /\ loop.kind = "none"
  /\ h \in live \cap SmallVecs
  /\ loop' = [NoLoop EXCEPT !.kind = kind, !.vec = h, !.idx = start, !.end = end,
                            !.old_len = LenOf(store, h), !.w = start]
  /\ asked' = [NoAsked EXCEPT !.items = Contents(store, h), !.start = start]
  /\ UNCHANGED <<live, caller, dropped, leaked>>

Finish == loop' = NoLoop /\ asked' = NoAsked

(* The closure was called with these items, the first being the judged one.*)
Answered(args, rejected) ==
  asked' = [asked EXCEPT !.calls = Append(@, args),
                         !.gone = IF rejected THEN @ \cup {args[1]} ELSE @]

----------------------------------------------------------------------------
(* ExtractIf.                                                              *)

(* extract_if: leaking the iterator must not leak the right to the items.  *)
ExtractIf(h, start, end) ==
  /\ start <= end /\ end <= LenOf(store, h)
  /\ Begin(h, "extract", start, end)
  /\ store' = SetLen(store, h, 0)

Asking(kind) == loop.kind = kind /\ loop.idx < loop.end

(* One round of next: the item is handed out, or moved down over the gap.  *)
ExtractAsk(rejected) ==
  /\ Asking("extract")
  /\ LET i == loop.idx
         e == Item(store, v, i)
     IN  /\ Answered(<<e>>, rejected)
         /\ loop' = [loop EXCEPT !.idx = @ + 1, !.del = IF rejected THEN @ + 1 ELSE @]
         /\ caller' = IF rejected THEN caller \cup {e} ELSE caller
         /\ store' = [store EXCEPT !.mem[AsPtr(store, v)] =
                        IF rejected THEN Wipe(@, i, 1) ELSE Shift(@, i, i - loop.del, 1)]
  /\ UNCHANGED <<live, dropped, leaked>>

(* Mutant: the index is moved before the closure is called.                *)
ExtractPanicsAfterIndex ==
  /\ Asking("extract")
  /\ loop' = [loop EXCEPT !.idx = @ + 1]
  /\ UNCHANGED <<vars, leaked, asked>>

(* The closure panics in next: the index has not moved.  The panic may be  *)
(* caught and the iterator used again.                                     *)
ExtractPanics ==
  /\ Asking("extract")
  /\ UNCHANGED allVars

(* Mutants: only the range moves down; the length covers what was removed. *)
DropExtractShiftsRange ==
  /\ loop.kind = "extract"
  /\ LET rest == loop.end - loop.idx
     IN  store' = Edited(store, v, Shift(Cells(store, v), loop.idx, loop.idx - loop.del, rest),
                         loop.old_len - loop.del)
  /\ Finish
  /\ UNCHANGED <<live, caller, dropped, leaked>>
DropExtractOldLen ==
  /\ loop.kind = "extract"
  /\ LET rest == loop.old_len - loop.idx
     IN  store' = Edited(store, v, Shift(Cells(store, v), loop.idx, loop.idx - loop.del, rest),
                         loop.old_len)
  /\ Finish
  /\ UNCHANGED <<live, caller, dropped, leaked>>

(* Drop for ExtractIf: what was not asked about moves down, and the length *)
(* covers all that is left.                                                *)
DropExtract ==
  /\ loop.kind = "extract"
  /\ LET rest  == loop.old_len - loop.idx
         moved == IF rest > 0 /\ loop.del > 0
                  THEN Shift(Cells(store, v), loop.idx, loop.idx - loop.del, rest)
                  ELSE Cells(store, v)
     IN  store' = Edited(store, v, moved, loop.old_len - loop.del)
  /\ Finish
  /\ UNCHANGED <<live, caller, dropped, leaked>>

(* The cells an ExtractIf still has to give back.                          *)
Pending == {i \in 0 .. loop.old_len - 1 : i < loop.idx - loop.del \/ i >= loop.idx}

ForgetExtract ==
  /\ loop.kind = "extract"
  /\ leaked' = leaked \cup {Item(store, v, i) : i \in Pending}
  /\ Finish
  /\ UNCHANGED vars

----------------------------------------------------------------------------
(* retain_mut and dedup_by.                                                *)

Swap(cells, i, j) == [cells EXCEPT ![i] = cells[j], ![j] = cells[i]]

(* The kept item at i changes places with the first rejected one, at j.    *)
Keep(i, j) ==
  store' = [store EXCEPT !.mem[AsPtr(store, v)] = IF i # j THEN Swap(@, i, j) ELSE @]

Retain(h) == Begin(h, "retain", 0, LenOf(store, h)) /\ UNCHANGED store

RetainAsk(rejected) ==
  /\ Asking("retain")
  /\ LET i == loop.idx
     IN  /\ Answered(<<Item(store, v, i)>>, rejected)
         /\ loop' = [loop EXCEPT !.idx = @ + 1, !.del = IF rejected THEN @ + 1 ELSE @]
         /\ IF rejected THEN UNCHANGED store ELSE Keep(i, i - loop.del)
  /\ UNCHANGED <<live, caller, dropped, leaked>>

(* dedup_by returns at once from a vector of at most one item.             *)
Dedup(h) ==
  /\ LenOf(store, h) > 1
  /\ Begin(h, "dedup", 1, LenOf(store, h))
  /\ UNCHANGED store

(* Mutant: compares with the item before, not with the last one kept.      *)
DedupAskNeighbour(rejected) ==
  /\ Asking("dedup")
  /\ LET r == loop.idx
     IN  /\ Answered(<<Item(store, v, r), Item(store, v, r - 1)>>, rejected)
         /\ loop' = [loop EXCEPT !.idx = @ + 1, !.w = IF rejected THEN @ ELSE @ + 1]
         /\ IF rejected THEN UNCHANGED store ELSE Keep(r, loop.w)
  /\ UNCHANGED <<live, caller, dropped, leaked>>

DedupAsk(rejected) ==
  /\ Asking("dedup")
  /\ LET r == loop.idx
     IN  /\ Answered(<<Item(store, v, r), Item(store, v, loop.w - 1)>>, rejected)
         /\ loop' = [loop EXCEPT !.idx = @ + 1, !.w = IF rejected THEN @ ELSE @ + 1]
         /\ IF rejected THEN UNCHANGED store ELSE Keep(r, loop.w)
  /\ UNCHANGED <<live, caller, dropped, leaked>>

(* The loop is through: the rejected items are at the end.                 *)
LoopEnds ==
  /\ loop.kind \in {"retain", "dedup"}
  /\ loop.idx = loop.end
  /\ CutTo(v, IF loop.kind = "retain" THEN loop.end - loop.del ELSE loop.w)
  /\ Finish
  /\ UNCHANGED leaked

(* The closure panics: no item has left the vector.                        *)
LoopPanics ==
  /\ Asking("retain") \/ Asking("dedup")
  /\ Finish
  /\ UNCHANGED <<vars, leaked>>

FilterNext ==
  \/ Program
  \/ \E h \in Handles :
       \/ Retain(h) \/ Dedup(h)
       \/ \E start, end \in 0 .. MaxCap : ExtractIf(h, start, end)
  \/ \E rejected \in BOOLEAN : ExtractAsk(rejected) \/ RetainAsk(rejected) \/ DedupAsk(rejected)
  \/ ExtractPanics \/ DropExtract \/ ForgetExtract \/ LoopEnds \/ LoopPanics

FilterSpec == FilterInit /\ [][FilterNext]_allVars

----------------------------------------------------------------------------
(* No loop reaches past the length it found, and what it hands out or      *)
(* drops is an element.                                                    *)
FilterTypeOK ==
  /\ TypeOK
  /\ loop \in [kind : {"none", "extract", "retain", "dedup"}, vec : Handles,
               idx : 0 .. MaxCap, end : 0 .. MaxCap, old_len : 0 .. MaxCap,
               del : 0 .. MaxCap, w : 0 .. MaxCap]
  /\ loop.idx <= loop.end /\ loop.end <= loop.old_len
  /\ leaked \subseteq Elems

InUse(h) ==
  {i \in Slots : i < LenOf(store, h) \/ (loop.kind = "extract" /\ h = v /\ i \in Pending)}

(* Between any two questions, after a panic and after a mem::forget, no    *)
(* element is lost, duplicated or dropped twice, and only forgetting an    *)
(* ExtractIf leaks.                                                        *)
FilterAccountedFor == EachElementOnce(live, InUse, leaked)

(* What is left of the first n items when those in gone are taken out.     *)
Sifted(items, gone) ==
  LET left[n \in 0 .. Len(items)] ==
        IF n = 0 THEN <<>>
        ELSE IF items[n] \in gone THEN left[n - 1]
        ELSE Append(left[n - 1], items[n])
  IN  left

(* The closure is asked once about each item of the range, in order, and   *)
(* about no other: a panic, a gap or a swap skips or repeats none.         *)
(* dedup_by shows it the last item kept so far as well.                    *)
Kept(n) == Sifted(asked.items, asked.gone)[n]

AskedInOrder ==
  /\ Len(asked.calls) = loop.idx - asked.start
  /\ \A n \in 1 .. Len(asked.calls) :
       asked.calls[n] =
         <<asked.items[asked.start + n]>>
           \o (IF loop.kind = "dedup" THEN <<Kept(n)[Len(Kept(n))]>> ELSE <<>>)

(* However the loop ends, the vector is the items that were not rejected,  *)
(* in their order; after a panic in retain_mut or dedup_by it is all of    *)
(* them, in some order; after a forgotten ExtractIf it is empty.           *)
SurvivorsInOrder ==
  [][loop.kind # "none" /\ loop'.kind = "none" =>
       IF ForgetExtract THEN Contents(store', v) = <<>>
       ELSE IF LoopPanics
       THEN /\ LenOf(store', v) = Len(asked.items)
            /\ Owned(store', v) = {asked.items[n] : n \in 1 .. Len(asked.items)}
       ELSE Contents(store', v) = Kept(Len(asked.items))]_allVars

(* The loop that the documentation of extract_if calls equivalent: from    *)
(* item 0, each question either removes an item or moves on, until the     *)
(* index reaches the end of the range or of the shortened vector.          *)
ExtractsLikeTheLoop ==
  loop.kind = "extract" /\ loop.idx = loop.end =>
    LET n    == Len(asked.calls)
        i    == n - loop.del
        left == loop.old_len - loop.del
    IN  /\ asked.calls = [k \in 1 .. n |-> <<asked.items[k]>>]
        /\ i = IF left < loop.end THEN left ELSE loop.end
=============================================================================
