# A verification project for `smallvec` (the `src/` tree of this repository)

`SmallVec<T, N>` is a vector that keeps up to `N` elements inside itself and
moves to the heap beyond that. The crate is one file, `src/src/lib.rs`; line
numbers below are lines of it. Nothing in it is concurrent: a call has
`&mut self`. What is hard is *partial execution*. A call may be left half way
by a panic of user code (an iterator, a destructor, a predicate, `Clone`) or of
the crate itself (`capacity overflow`, a failed assert); an iterator that
borrows the vector may be dropped early or forgotten; and a one-bit tag decides
which member of an untagged union holds the data.

## Inventory

| component | state it keeps | operations | what makes it correct |
|---|---|---|---|
| storage: `RawSmallVec` (136-295), `TaggedLen` (297-353) | a word (length and heap bit), a union of `[T; N]` and `(ptr, cap)` | `new_inline`, `new_heap`, `try_grow_raw`, `set_len`, `set_on_heap`, `set_inline` | the tag agrees with the union member last written; the capacity is the size the block was allocated with; a block has one owner |
| `SmallVec` core (846-1606, 1698-1789, 1972-1992, 2568-2592) | a `TaggedLen` and a `RawSmallVec` | constructors, `from_vec`/`into_vec`/`leak`/`from_raw_parts`, `push` ... `split_off`, `reserve` ... `shrink_to`, `Drop` | every element is in one place; contents change as a `Vec`'s would; growth makes the room it promises; removal keeps the buffer |
| `Drain`, `Splice` (372-547, 647-725, 1100-1125, 1219-1225) | range iterator, `tail_start`, `tail_len`, a pointer to the vector; `Splice` also the replacement iterator | `next`, `next_back`, `fill`, `move_tail`, two `Drop`s | the tail comes back behind whatever precedes it, however the borrow ends |
| `ExtractIf` (550-645, 1196-1217) | `idx`, `end`, `del`, `old_len` | `next`, `Drop` | removed items leave once, the others close up in order, a panic or a forget leaves an honest length |
| `retain*`, `dedup*`, `resize_with` (1608-1696) | loop indices | swap loops, then `truncate` | all elements stay owned when the closure panics |
| clone family (1792-1829, 2036-2520, 2595-2655) and specialisations | `DropGuard { ptr, len }` | `from_elem`, `extend`, `extend_from_within`, `clone_from`, `From<&[T]>`, `from_iter`, `resize` | a panicking `Clone` or iterator leaks and duplicates nothing |
| `IntoIter` (732-845, 1994-2015, 2702-2720) | `begin`, `end` (tagged), the storage | `next`, `next_back`, `Drop` | each item leaves once, the block is released once |
| zero-sized `T` | only a length; the capacity is `usize::MAX` | branches in most calls | lengths and drop counts agree |
| `slice_range` (159-189) | none | bound arithmetic | agrees with `core::slice::range` at `usize::MAX` |
| `Copy` family (1831-1912), serde, `bytes`, `io::Write` (2872-3040) | none of their own | bulk moves over `reserve` and `set_len` | in-bounds moves |
| comparison, `Hash`, `Debug`, `Borrow`, `MallocSizeOf` | none | pure | not a concern of state |
| ETNA harness, tests, fuzz target, benches | none | drivers | outside the program |

Interaction is by calls on one value: `Drain` and `Splice` hold a raw pointer to
a vector whose length they have cut; `Splice` calls `extend`, `reserve` and
the user's iterator on it; `from_vec`, `into_vec` and `leak` exchange the
allocation with a `std::vec::Vec`; every growth goes through `try_grow_raw`.
`PROJECT.json` lists under `hazards` each place where this bites, with the
properties that cover it.

## Modules

| module | models |
|---|---|
| `RawSmallVec` | the storage as operators on a record of words, pointers, capacities, cells and block sizes; capacity policies return the *set* of outcomes (the allocator picks the block; the empty set is `Err`) |
| `SmallVec` | the state machine: a program with several vectors, one `Vec` and the raw parts of a leaked vector; one action per call |
| `VecSpec` | the abstract specification: each vector is a sequence, capacity does not exist |
| `SmallVecRefinement` | the refinement mapping from `SmallVec` to `VecSpec`, and which action of `VecSpec` each call is |
| `UserCode` | what the next four share: a vector's items as a sequence, a program with one vector, the accounting of elements |
| `Drain` | extends `SmallVec` with one borrow at a time, by `Drain` or `Splice`, in steps between which user code runs |
| `Filters` | `extract_if`, `retain*`, `dedup*`: one question to the closure per step |
| `IntoIter` | vectors taken apart into owning iterators, composed with the calls that clone from or extend with them |
| `Clones` | extends `IntoIter`: every call that makes elements by `Clone`, an iterator, a closure or a copy, one element per step |
| `SliceRange` | `slice_range` as a function, against the meaning of its bounds |
| `ZstSmallVec` | extends `SliceRange`: vectors, `Vec`, `Drain` and `IntoIter` of a zero-sized `T`, by counting |
| `MCSmallVec`, `MCDrain`, `MCFilters`, `MCClones`, `MCZst` | TLC instances |
| `SmallVecProofs` | lemmas about the storage operators, the inductive invariant, the theorems |
| `BufferProofs`, `OwnershipProofs` | on top of them, the proofs of `RemovalKeepsBuffer`, `OnlyEmptyVectorsLoseBlocks`, `WritesStayInBounds` and `ElementsOwnedOnce`, and the accounting lemmas for calls that are several steps |
| `RefinementProofs` | `SmallVec` implements `VecSpec`, call by call |
| `DrainProofs`, `FiltersProofs`, `ClonesProofs` | types, bounds and accounting of `Drain`, `Splice`, the filters, `IntoIter` and the clone loops, over those lemmas; also the order of the items of borrows, filters and iterators, and the values the calls of `Clones` leave |
| `ZstProofs` | `slice_range` is right for every `usize`; lengths of a zero-sized `T` fit; its destructors run once |

### State and actions

* `store.word[h]` is the `TaggedLen` word of handle `h`, encoded as in
  `TaggedLen::new` (`2 * len + tag`, modulo the width). Every accessor reads the
  tag from it, as the code does; `store.ptr[h]` and `store.cap[h]` are the heap
  member of the union, and `store.mem[h]` the bytes of the inline array. `Std`,
  a handle without inline array, is the program's `Vec`. `Raw`, another, is what
  a program keeps of a vector it has leaked (pointer, length, capacity): `Leak`
  fills it and only `FromRawParts` empties it; nothing drops or releases it.
* `store.mem` and `store.size` are the memory: cells that hold an element or
  `Uninit`, and the size each block was allocated with. A `ptr::read`, a
  `drop_in_place` and the source of a copy leave `Uninit` behind, so that a
  second use of a moved-out cell is visible although the code's bytes remain.
* `live`, `caller`, `dropped` are the vectors that exist, the elements the
  program holds and those whose destructor has run. Elements have identities.
* A call is one step, from entry to return or to the panic that leaves it
  (`PushPanics`, `InsertPanics`, `FromBufAndLenPanics`, `LeakPanics`). A call
  that fails without an effect stutters and is no action; a failed allocation
  in an infallible call aborts and ends the behaviour.
* In `Drain` a call is *several* steps: `phase` is the program counter of the
  iterator and of `Drop for Splice`, `borrow` the fields of the `Drain`
  (`iter` as two indices). The replacement iterator is any iterator: at every
  point it gives an element, ends or panics, and its `size_hint` is any number.
  Destructors of range elements may panic (`DropDrain`). `Forget` is
  `mem::forget`. `leaked` and `past` are history variables: what a forgotten
  iterator held, and the items around the range.
* In `Filters`, `loop` holds the fields of the `ExtractIf` or the locals of
  `retain_mut` and `dedup_by`; the closure answers anything or panics. A
  caught panic leaves an `ExtractIf` that may be used again, dropped or
  forgotten (`ExtractPanics` changes nothing, which is the point of the
  comment at 599). `asked` is history: the items, the questions, the rejects.
* In `IntoIter`, the storage of a handle simply belongs to the iterator from
  `into_iter` on; `begin[h]` is its front, its end is the tagged word.
* In `Clones`, `call` holds the locals of the running call: how it stores what
  it gets (`push`; `guard`, beyond the length under a `DropGuard`; `assign`,
  over old items in `clone_from`) and where elements come from (clones of a
  slice, repeats of a value, an iterator or closure). The many public
  functions differ only in these and in what they reserve, so each is one
  definition over a shared set of steps. With the feature `specialization` a
  `TrustedLen` iterator goes the `guard` way, without it the `push` way; both
  are outcomes of the same call (`Ways`). `val` gives elements values so that a
  clone can be compared with its original. `Unwinds` is a panic of user code
  at any element; the `Copy` family has no such step and is one action
  followed by a return (`CopyEnds`). Its `reserve` may panic, which has an
  effect in one place: `clone_from` (2316) has cleared the vector by then, and
  `CloneFromCopyPanics` leaves it empty. `CloneSpec` bounds neither the number
  of iterators nor which calls begin beside them.
* In `ZstSmallVec` elements have neither bytes nor identity, so `count` says
  how many the program holds, how many were dropped and how many forgotten;
  the length words say where the rest is. `OverflowChecks` is the build's.

## Runs

| run | instance | question |
|---|---|---|
| `small_vec_mixed` | `SmallVec<T, 0>`, `SmallVec<T, 2>`, `Vec`, raw parts; 3 elements, 3 blocks, blocks of up to 3 | storage, tags, blocks, bounds and ownership through every sequence of calls |
| `small_vec_refines` | two `SmallVec<T, 1>`, `Vec`, raw parts; 3 elements, 2 blocks | `SmallVec` implements `VecSpec`, and each call is its namesake of `Vec` |
| `drain_safety` | one `SmallVec<T, 1>`, built directly or from a `Vec`; 5 elements, blocks of up to 4 | every borrow, however it ends, gives the vector back whole |
| `drain_returns` | the same with 3 elements, no symmetry, fairness | dropping a `Splice` ends |
| `filters_safety` | one `SmallVec<T, 1>`, as in `drain_safety`; 5 elements | each item is asked about once and in order, and stays in one place |
| `clones_safety` | `SmallVec<T, 1>`, `SmallVec<T, 2>`, `Vec`; 5 elements, 2 blocks of up to 3 | making elements, from slices, values and iterators, with a panic at each |
| `zst_safety` | two vectors with `N = 2`, `Vec`; a 2-bit `usize`, 5 elements | destructors run once, ranges are right, up to `usize::MAX` |
| `block_leak`, `raw_parts_inline`, `splice_tail`, `extract_doc`, `zst_append` | as above | the five findings below |

Bounds. `UMax = 15` is a 4-bit `usize` (`clones_safety` has 3 bits); `MaxCap` (3 or 4) is the number of
elements in `isize::MAX` bytes, so a `T` of 2 bytes or so. Capacity overflow,
the round-up to a power of two that fails while the exact size would fit, and
spilling from inline sizes 0, 1 and 2 are all within a few calls. `Sizes` goes
one past `MaxCap`. The fifth element of `drain_safety` lets the push inside
a `Splice` overflow the capacity. Three elements fill a spilled vector, or
leave an item to push on one that cannot grow: from capacity 2 the next is 4. They
are enough for an item before a position, one at it and one after. A
third block lets two spilled vectors and a growing one exist together.
Elements and blocks are only compared, so the safety runs use symmetry over
both. A poisoned borrow (undefined behaviour, see below) is given a stuttering
step; a vector can always be dropped, so only `clones_safety` disables the
deadlock check: it starts nothing new once an element is gone, and an
allocation that finds no block aborts. That is one of the bounds `SmallSpec` of
`MCClones` sets, where `CloneSpec` has none. `BeginsSmall` has the others: the
program's `Vec` is made first, empty with capacity 1, which gives a vector spilled
below its inline size; a second vector begins inline or by the call that
fills it; while there are iterators (both vectors may be taken apart) nothing is
pushed. Fewer elements, other capacities or more ways to the same vector would
give the calls no new shape. Five elements are a full source and a target that
overflows. A 2-bit `usize`
is enough for `zst_safety`, where a vector at `usize::MAX` and a non-empty one
need no more than 4 elements and the fifth is an argument.

Fairness. Only `FairDrainSpec` states any: weak fairness of `SpliceStep`, the
steps inside `Drop for Splice`. It is one thread running one function; nothing
can preempt it for ever as long as the user's `next` and `size_hint`
return. The replacement is finite because elements are. The property then
says that no answer makes the three rounds of filling wait for ever or restart.

### Properties worth knowing

* `ElementsOwnedOnce`, `AccountedFor`, `FilterAccountedFor`,
  `CloneAccountedFor`, `EachDroppedOnce`: no element is lost, duplicated,
  uninitialised or dropped twice, also across panics, at every step at which
  user code runs; only forgetting an iterator leaks, and only what it held.
* `TagMatchesUnion`, `BlocksNotShared`, `WritesStayInBounds`: what the SAFETY
  comments rely on.
* `OnlyEmptyVectorsLoseBlocks`: the exact extent of the leak in finding 1.
* `ReserveMakesRoom`, `RemovalKeepsBuffer`: what `reserve`, `split_off` and
  the removing calls promise about capacity and address.
* `VectorIsRestored`: when a borrow ends the vector is what was before the
  range, what was spliced in, and what was after, in order.
* `AskedInOrder`, `SurvivorsInOrder`: which items a closure is shown, and what
  is left of the vector when the loop ends, is left by a panic or forgotten.
* `CallAddsWhatIsDue`, `PanicKeepsOldValues`: what a call that makes elements
  has added when it returns, and what a call that makes them one at a time leaves
  of an existing vector when user code or a growth panics: the `push` way keeps
  the new items, the `guard` way none. `clone_from` of a `Copy` type is not such
  a call and promises nothing: a growth that panics leaves the vector empty.
* `GuardStaysInBounds`: unchecked writes fit what was reserved for them.
* `ClonesLoseNoBlock`: the leak of finding 1 is the only one here too. With
  `specialization`, `clone_from` of a `Copy` type (2316) clears the vector and
  then grows it, so it loses the block of any spilled vector that must grow.
* `IterTakesFromTheEnds`: what an `IntoIter` has still to yield changes only by
  its first item or its last being taken.
* `RangesAreRight`: `slice_range` against the bounds, for every length reached.
* `ImplementsVec`: the refinement. The mapping turns the cells below the length
  into a sequence. `VecSpec!Next` is any call at any index, so this alone says
  only that the calls do nothing that no call of `Vec` could.
* `CallsDoWhatVecDoes`: the step of each call is the action of `VecSpec` of the
  same name, for the same handles, index and length: `insert(i)` puts at i,
  `pop` takes the last, a call that panics drops its argument and nothing else;
  a capacity call leaves the sequences alone.

### Findings

1. **A block is lost when an empty spilled vector grows** (`block_leak`).
   `try_grow_raw` (269) takes a fresh block when `len == 0`, also if the
   vector is on the heap already, and never releases the old one.
   `OnlyEmptyVectorsLoseBlocks` shows that this is the only way.
2. **`move_tail` is not panic safe** (`splice_tail`). It sets the length
   to cover the tail (536), reserves (537), and sets it back (538). If reserve
   panics, `Drain::drop` runs with the wrong length, against the comment at
   382-383. `Unwind` leads to the phase `poisoned`; the other properties
   of `Drain` say nothing from there on (`Defined`).
3. **`from_raw_parts` asserts nothing about the inline size**
   (`raw_parts_inline`), while its documentation says so (1735). In the run a
   vector of inline size 0 spills with capacity 1, is leaked, and
   `from_raw_parts` makes its parts a vector of inline size 2. The model lets such
   a vector in, and all other properties hold of it.

4. **The loop that documents `extract_if` is another one** (`extract_doc`).
   It starts at item 0 and its end follows the shortened vector (1149-1150);
   the code starts at `range.start` and stops at the original `range.end`
   (1211, 595). The example's own assertion (1159) does not hold of
   `extract_if(1..4)`.
5. **`append` loses elements of a zero-sized type** (`zst_append`). The sum
   of the lengths (1267) can overflow, against the comment at 1264, because a
   `SmallVec<(), N>` may be as long as `usize::MAX`. A build with overflow checks
   panics there with both vectors intact (`zst_safety`).

## Proofs

`SmallVecProofs` proves for all constants that satisfy `RawAssumption` and
`StdAssumption` (any vectors, inline sizes, blocks, elements; `2 * MaxCap + 1
<= UMax`, which is what `isize::MAX` bytes mean for a sized `T`):

* `Invariant`: `Spec => []IInv`;
* `TypeCorrect`, `TagAgrees`, `BlocksDisjoint`: the invariants `TypeOK`,
  `TagMatchesUnion`, `BlocksNotShared`;
* `RoomIsMade`: the action property `ReserveMakesRoom`.

`TypeOK` is not inductive. `caller` receives the items a vector gives back, so
that they are elements needs every cell below a length to be initialised; that
needs copies to stay within capacity, hence the tag, the capacity and the
block size to agree; and a write through one handle preserves another's only
if no two share a block. `IInv` is the conjunction, `Sound(store)`, stated for
*all* handles: one that is not live is an empty inline vector, which makes
construction an ordinary edit. The first part of the module proves it operator
by operator. `FrameSound` is the common argument (an operator changes h's fields
and among the blocks only h's own and free ones); `Resized` is what all
capacity calls have in common. The second part then needs one lemma per group
of actions, combined in `StepInv`.

`BufferProofs` proves `BufferStays`, the action property `RemovalKeepsBuffer`,
by a frame: `OnlyTouches(s, g, H)` says that an operator assigns word, pointer
and capacity of handles of `H` only, and `EditedStays` that `Edited` assigns a
length but neither tag nor pointer nor capacity. Whatever else an action does
to a vector that lives on, it does not shorten it.

It also proves `BlocksStay`, the action property
`OnlyEmptyVectorsLoseBlocks`, over the same frames. `Settled(s, g, h)` says what
a growth or shrink does to the block of `h`: it is kept, released, or left by an
empty vector. What follows the growth writes in place, so that the vector is
`Settled` over the whole step; a vector that ends has its block released or
handed over. The finding on lost blocks is therefore the only way to lose one.

Its last part proves `InBounds`, the invariant `WritesStayInBounds`. It is
not inductive: a handle that becomes spilled must have blank inline bytes, a
block handed over must be untouched behind its capacity, and `TryGrowRaw`
copies whole blocks. The inductive invariant `BInv` adds to the storage's
soundness that the cells behind any handle's capacity were never written and
that a handle that does not live has blank inline bytes.

`OwnershipProofs` proves `OwnedOnce`, the invariant `ElementsOwnedOnce`. Its
inductive invariant `OInv` is accounting: within a vector no element occurs at
two indices, no two handles (live or not) hold the same, none is held that the
program has or that was dropped, every element is somewhere, and dead handles
hold nothing. The proof has two halves. The first says what each call does to
the items by index, wherever the buffers are and however the storage grew:
ten *effects*, `Made`, `Rejected`, `Passed`, `Closed`, `TakenOut`,
`CutOff`, `Entered`, `Appended`, `Divided` and `Stays`, over `Leaves` (one
lemma per group of calls, `PushEnters`, `SplitOffDivides`, ...). The second
shows that each effect keeps the accounts; the pure lemmas `Reindexed`,
`Inserted`, `Split`, `Moved` and `Joined` say what a permutation, an insertion,
a cut and a concatenation do to what a range of cells holds. `StepOwns`
combines them.

`RefinementProofs` proves `Refines`, `Spec => ImplementsVec`, and `CallsAreVecs`,
`Spec => CallsDoWhatVecDoes`. It reads the cells of a vector below its length as a
sequence (`ListOf`); `ListInsert`, `ListRemove`, `ListSwap`, `ListCut`,
`ListJoin` say that writing cells so and so is `InsertAt`, `RemoveAt`,
`SubSeq` or `\o` of that sequence. With them each effect is a step of `VecSpec`
(`EnteredPuts`, `DividedSplits`, ...; `StaysStutters` for the capacity calls),
under `OInv`, which says that dead handles hold nothing and that what is read is
initialised. `VecSpec` bounds the length of an argument by the number of
elements the program holds; for that `ElemsFinite` assumes finitely many.

`ZstProofs` proves `SliceRangeIsRight` for a `usize` of any width and
every length: `slice_range` panics exactly when the bounds cross or leave the
vector, and otherwise returns the indices both admit. A bound that overflows
when it is moved by one is out of range of any vector, so that the panic of
`checked_add` is no extra case. It proves `LengthsFit`, that `ZInv`
is an invariant of `ZstSmallVec`: words are lengths, no iterator has passed
its end, and what a `Drain` gives back fits. The last two conjuncts are what
makes the first inductive, since `next_back` and `Drop for Drain` do
unchecked arithmetic on lengths. `DrainRangesRight` follows: `RangesAreRight`.

Its last part is the accounting. `EachDroppedOnce` is a sum over all handles,
stated as the number of pairs of a handle and a rank (`Obligations`), so that
the facts about finite sets replace an induction: `Apiece` splits off the
summand of one handle, `OneDiffers` and `TwoDiffer` compare two sums. With
`ZInv` the inductive invariant is `Counted`: handles that are neither vector nor
iterator have length 0, and what was held, dropped and forgotten is with what
all handles have never more than there was, and exactly that unless `append`
wraps. It wraps only in a build without overflow checks when there are more
elements than a `usize` counts; `NoWrap` excludes that, and without it the
finding on `append` is the counterexample. So `ZstTypeCorrect` needs no
hypothesis, and `DestructorsRunOnce` says `Spec => [](NoWrap => EachDroppedOnce)`.
`IsFiniteSet(Vecs)` is assumed: a program has finitely many vectors.

`DrainProofs`, `FiltersProofs` and `ClonesProofs` are about calls that are
several steps. While one runs, the vector's length covers only some of its elements; the others, in
cells that the iterator keeps by index, are *set aside*. Counted by length
alone they would be lost, and no step would preserve `Own`. The inductive
invariants therefore count them with the dropped ones: they say

    Accounts(store, caller, dropped \cup Apart, live, AtStake)

where `Apart` is what is set aside (the rest of the range and the tail of a
`Drain`; the items an `ExtractIf` has passed over and those it has not asked
about) and `AtStake` all elements but those that a `mem::forget` leaked.
`Accounts` is `Own` with the bounds and the dead handles, so that one lemma,
`AccountsWrite`, serves every step: one write of cells and a length, after which
the vector, the program and the dropped ones `Share` in another way what they
had. `Holds(cells, a, b, X)` says that the cells from a up to b hold the
elements of X, one each; `WipeHolds`, `ShiftHolds`, `ShiftBrings`, `CopyHolds`,
`CopyBrings`, `PutHolds` and `SwapHolds` say what each way of writing does to
it. `push` and `reserve` inside an iterator are `PushKeeps` and `ReserveKeeps`,
which `OwnershipProofs` proves from the lemmas of its own invariant.

* `DInv`, for `Drain`, adds where length, range, tail and capacity are in each
  phase (`Layout`) and that the cells set aside hold elements of nobody else
  (`Aside`), both as long as what the code does is defined. From it follow
  `DrainTypeCorrect`, `SpliceInBounds` and `DrainAccountsForAll`: the
  invariants `DrainTypeOK`, `SpliceStaysInBounds` and `AccountedFor`.
* `DInv /\ Remembered`, for the order a borrow restores. `Remembered` ties the
  history `past` to the cells: those below the length spell what was before the
  range and then what was added (`Stands`), those from `tail_start` on what was
  after it. `StandsKept` serves every step that moves cells (`Keeps` is what a
  wipe, a growth and `move_tail` have in common), `StandsMore` every step that
  adds items, `StandsTogether` the end, where the tail follows the rest. From it
  follows `VectorRestored`, the action property `VectorIsRestored`.
* `FInv`, for the filters, says the same of the three loops; the vector of
  `retain_mut` and `dedup_by` keeps its length and nothing is set aside. From
  it follow `FilterTypeCorrect` and `FilterAccountsForAll`: `FilterTypeOK` and
  `FilterAccountedFor`.
* `FInv /\ Ordered`, for the order the filters keep. `Ordered` ties the history
  `asked` to the cells through `InOrder`: the cells hold, of the first idx items
  of the range, the `Stayed` ones that stay, in their order; the items rejected
  lie between the first of the range and idx; what was not asked about is where
  it was; and no item is there twice. `OrderBegins`, `OrderGoesOn` and
  `OrderEnds` say this of one range and its cells, whatever loop runs over it:
  `Closes` is what moving one kept item does and `Turns` what one answer does.
  From it follow `QuestionsInOrder` and `SurvivorsStay`: `AskedInOrder` and
  `SurvivorsInOrder`.
* `CInv`, for `Clones` and `IntoIter`. What a `DropGuard` guards is set aside:
  `Guarded` cells beyond the length. An iterator is harder, since its storage
  has lost items at its front and is no vector. The invariant therefore looks
  at the store through `Mask`, which shows the handle of an iterator with
  length 0 and the same buffer, and sets aside what each iterator has still to
  yield (`Left`); the `Data...` lemmas say what one write, one growth, a
  vector made, closed or taken apart do to that. `SourceOK` and `TargetOK` tie
  the running call to the store: the items it still has to clone are there and
  initialised, its value is the program's, what is due fits the capacity, and
  the guarded cells hold what is set aside. From it follow `CloneTypeCorrect`,
  `GuardInBounds` and `CloneAccountsForAll`: `CloneTypeOK`,
  `GuardStaysInBounds` and `CloneAccountedFor`. The lemmas say of each step also
  which storage it leaves alone: `Spares` a set of handles, or writes `Only` one.
  With that, `TakesAtEnds` compares the row of cells an iterator has still to
  yield before and after a step (`RowSame`, `RowLess`); `ItersStand` says of
  every call that the storage of each iterator stands, however many there are, and
  `YieldsAtTheEnds` follows: the action property `IterTakesFromTheEnds`. `BlockFares` says what
  becomes of the block of one handle; `Settled` of `BufferProofs`, which holds of
  the masked storage, gives it for a vector that grows, and `SameBlock` for one
  that is written into. `OnlyClearedLoseBlocks` follows: `ClonesLoseNoBlock`.
* `CInv /\ Remembers` (`HInv`), for the values the calls of `Clones` leave.
  `Remembers` ties the history variables `val` and `past` to the cells while a
  call runs: the cells it has not overwritten have the values of `past.before`,
  those it has made the values of `past.want` (`KeptOK`), and what is still due
  is what its source has from where it reads on (`DueOK`), or for an iterator,
  which decides as it goes, nothing. `CInv` is needed for it: that the source is
  another vector or not written, and that a new element is nobody else's, so
  that giving it a value changes that of no cell. `Reads(cells, a, lo, hi, f,
  seq)` says that the cells from a on have the values lo to hi of seq;
  `KeptMore` is what one more element does to it, and `ReadsJoin` and
  `ReadsPart` turn it into sequences when the call ends. From it follow
  `ReturnsWithAll` and `PanicsLeaveValues`: `CallAddsWhatIsDue` and
  `PanicKeepsOldValues`. TLC checked `Remembers` on the instance of
  `clones_safety` before it was proved.

What a filter leaves is `Sifted`, a recursive function over the items, so those
two proofs need an induction. The library's induction theorems take an operator
as a parameter and cannot be instantiated, but that Nat is well-founded is a
fact about a set (`NatLessThanWellFounded`, `WFMin`): it gives `LeastNumber`,
and with it `Counting`, induction stated for a *set* of numbers in the place of
a predicate. `SiftExists` shows by it that the function exists, `SiftedIs`
unfolds it, and `SiftType`, `SiftSame` and `SiftTail` say what it returns for
sequences of any length.

Every property `small_vec_mixed`, `small_vec_refines` and `zst_safety` check is
proved, for all constants and, for `EachDroppedOnce`, under `NoWrap`; of the other
passing runs, every invariant and every action property. Only model-checked is:

* Liveness, `SpliceDropReturns`: fairness and ENABLED are out of reach of the
  prover.

## Not modelled

* `Splice`, the filters and the clone loops for a zero-sized `T`: they do not
  branch on the size; `reserve` refuses where it would overflow (`Reserves`).
* `from_buf_and_len_unchecked` and `set_len` as unsafe entry points of the
  program; `spare_capacity_mut` with `set_len` is the pattern of `AdvanceMut`.
* `into_boxed_slice` is `into_vec` followed by code of the standard library.
* `io::Write`, `put_slice` and `put_bytes` only call `extend_from_slice` and
  `resize`; serialisation, comparison, hashing and formatting read the slice.
* `realloc` may keep or move the block (both are outcomes), but its failure in
  an infallible call aborts.
* The bytes of a moved-out cell, alignment, pointer provenance and lifetimes.
  The stale slice iterator that line 690 clears is such a pointer.
* `Splice`'s `extend` behind an empty tail is the fallback path, push by push; with
  `specialization` a `TrustedLen` replacement goes the way of `SpecExtend` in `Clones`.
* For a zero-sized `T`, the panic of `from_buf_and_len` for `len > N`; for a sized one
  it is `FromBufAndLenPanics`.
* Destructors that panic outside `Drop for Drain` and `Drop for Splice`.
* The ETNA harness, tests, the fuzz target and benches: drivers around the
  crate that add no state to a vector.

## Plan

Done: the storage and the calls of a `SmallVec` with the proofs of storage,
bounds, buffers, ownership and the refinement of `VecSpec`; `Drain`, `Splice`,
`Filters`, `IntoIter` and `Clones` with the proofs of their types, bounds and
accounting, of the order that borrows, filters and iterators keep, and of the
values that calls and panics leave; `SliceRange` and `ZstSmallVec` with their
proofs.

Left: `Splice` over a zero-sized `T` at `usize::MAX`, where `move_tail`'s sums
meet the width.
