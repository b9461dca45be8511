# A verification of libadt

libadt is a C library of generic containers: a dynamic array, a stack, a linked
list and a queue, two storage modules they are built on, and operations that
work on any of them (traversal, printing, sorting, statistics). This directory
holds TLA+ models of the containers, their storages, their public type-based calls,
and of the traversal, the sorting and the statistics of any container, the TLC
configurations that check them on small instances, and proofs, checked by TLAPS,
that hold for every size, every memory and every comparator.

Paths below are those of the repository (`src/...`, `include/libadt/...`,
`docs/...`).

## 1. Inventory of the system

libadt is a sequential library without global state. Everything is stored in
the container the caller owns; the only other actors are the allocator, which
may refuse any request, and the caller, which may pass any pointer it has.

| Component | State | Operations | Depends on | What makes it correct |
| --- | --- | --- | --- | --- |
| Header (`ADT_Super_t`, `ADT_ElementTypeInfo_t`) | vtable, size, element type (size in bytes; destroy, compare, print and toNumber callbacks) | read by `adt_Size`, `adt_ElementType`; written by the containers | callbacks of the caller | all zero before `Init` and after `Destroy` |
| Contiguous storage | block, capacity | Init, InitFrom, Reserve, At, Insert, Erase, ContainsAddress, Destroy | malloc, realloc, free | the block has the recorded capacity; a failure changes nothing; an aliased source is read before it is moved |
| Linked storage | head, tail, nodes with one element block each | Init, InitFrom, At, Insert, Prepend, Append, Erase, ContainsAddress, Destroy | malloc, free | both directions agree; a failure frees what it had allocated; addresses of elements are stable |
| Dynamic array | header, contiguous storage | Init, InitFrom, Get, Set, IndexOf, Contains, Insert, Prepend, Append, Remove, Take, Clear, Destroy | contiguous storage | an indexable list; every resource has one owner |
| Stack | header, contiguous storage | Init, InitFrom, Peek, Push, Pop, Discard, Clear, Destroy | contiguous storage | last in, first out; every resource has one owner |
| Linked list | header, linked storage | those of the dynamic array | linked storage | the same list as the dynamic array |
| Queue | header, linked storage | Init, InitFrom, Front, Back, Enqueue, Dequeue, Discard, Clear, Destroy | linked storage | first in, first out; every resource has one owner |
| Traversal | a loop's position, for the time of a call | `adt_ForEach`, `adt_ForEachMutable` | the vtable visitors, the caller's visitor | every element once, in order, although the visitor may change the container |
| Printing | none | `adt_Print`, `adt_PrintDebug` | traversal, the printer | output only |
| Sorting | a temporary buffer and room for one element, for the time of a call | `adt_Sort`, `adt_SortBy`; five algorithms | traversal, malloc, the comparator | a sorted permutation, stable where it is promised, or nothing changed; every index in the buffer, whatever the comparator answers |
| Statistics | a temporary array of doubles, for the time of a call | `adt_Min`, `adt_Max`, `adt_Mean`, `adt_Median`, `adt_Mode` and their `By` variants | traversal, malloc, the comparator, the numeric projection, qsort | the definition of each; nothing changed but the output |
| Comparators, converters | none | one of each per primitive type | floating point | one total order, NaN included, on which both agree |
| Primitive operations | none | one wrapper per type and operation, selected by `_Generic` in the public headers | the containers | a value of another size is refused, any other call is that of the container |

How they interact: a container calls its storage with its own size and element
size as arguments (a storage knows neither), and counts an element only after
the storage has accepted it. Sorting and statistics reach a container only
through its vtable. Elements cross the boundary to the caller as bytes; the
*resources* they own cross it by convention (`docs/ownership.md`).

What is hard here is not concurrency but
- **memory**: every allocation may fail, in the middle of a call too; realloc
  moves the block while the caller's pointer still points into the old one;
- **aliasing**: an element to store may be an element of the container itself;
- **ownership**: a resource must have one owner over any sequence of calls;
- **limits**: sizes and capacities are `size_t` and must not wrap;
- **links**: a stale link shows only in a later walk from the other end;
- **callbacks**: a sort calls the comparator while the buffer is half rearranged,
  and nothing makes the comparator an order; a visitor may call the container
  that is being visited, and move or free what the loop is about to read;
- **floating point**: sums round, halves of the smallest numbers round, and a NaN
  is in no order unless it is given a place.

`PROJECT.json` lists each such hazard at its line, with the properties that
would notice it, or the reason why none does yet.

## 2. The modules

```
ElementType ── Ownership ───────────────┬──────────── SequenceADT ─┬─ ListADT
     │             │                    │                          ├─ StackADT
   Memory ── AbstractDataType           │                          └─ QueueADT
     │             │                                                     ▲
     ├─ ContiguousStorage ─ ContiguousContainer ─┬─ DynamicArray ──── implements
     │                                           └─ Stack ─────────── implements
     └─ LinkedStorage ───── LinkedContainer ─────┬─ LinkedList ────── implements
                                                 └─ Queue ─────────── implements
ElementType ── Sorting ── implements ── SortADT

DynamicArray, Stack ── ArrayPrimitives, StackPrimitives ─ ContiguousTraversal ─┐
LinkedList, Queue ──── ListPrimitives, QueuePrimitives ── LinkedTraversal ─────┤
AbstractDataType ───── PrimitiveDispatch ── used by all of these               │
                                                       implement ForEachADT ───┘
Doubles ── Primitives ── Statistics ── implements ── StatisticsADT
```

| Module | Models |
| --- | --- |
| `ElementType` | the element type a container was initialised with: element size, whether it has a destroy and a compare callback, and what a search compares by (`Matches`) |
| `Ownership` | the caller: which resources it owns, how often each has been released, and what it sees of a call (`result`) |
| `Memory` | malloc, realloc and free as sets of outcomes, pointers and what is read through them, memmove. External: modelled from how `src/` uses them |
| `AbstractDataType` | the header, and the pointers a caller may pass |
| `ContiguousStorage` | `src/shared/storage/contiguous_storage.c`, one operator per function, each the set of its outcomes `[ok, heap, storage]` |
| `ContiguousContainer` | what `dynamic_array.c` and `stack.c` do the same way, and the properties of both |
| `DynamicArray`, `Stack` | one action per public operation |
| `LinkedStorage` | `src/shared/storage/linked_storage.c`, in the same form |
| `LinkedContainer`, `LinkedList`, `Queue` | the same for `linked_list.c` and `queue.c` |
| `SequenceADT`, `ListADT`, `StackADT`, `QueueADT` | abstract specifications: a sequence and the ownership of its elements, without memory. They allow failure exactly where the call's arguments are wrong, or where the call allocates |
| `Sorting` | `src/shared/sorting.c`: `adt_Sort`, `adt_SortBy`, the five algorithms |
| `SortADT` | abstract specification: in one step the elements are put in order, stably or not, or nothing changes |
| `ContiguousTraversal`, `LinkedTraversal` | `adt_ForEach`, `adt_ForEachMutable` and the visitors of the two kinds of containers: a step for each call of the visitor and each return, composed with the type-based calls of the containers, which the visitor may make (`kind` is the C type of the container) |
| `ForEachADT` | abstract specification: indices 0, 1, 2 and so on, each with the element that is there when the visitor is called |
| `Doubles` | `double` and `long double` as a compiler makes them, with few bits. External |
| `Primitives` | `src/shared/element/comparators.c` and `number_converters.c`, and what `COMPARATOR` and `TO_NUMBER` select of them |
| `Statistics` | `src/shared/statistics.c`, a step for each callback and each iteration |
| `StatisticsADT` | abstract specification: in one step a call writes what the statistic is defined to be, or fails and changes nothing |
| `PrimitiveDispatch` | `include/libadt/internal/primitive_dispatch.h`: the dispatch on the type of an argument, and the check of its size |
| `ArrayPrimitives`, `ListPrimitives`, `StackPrimitives`, `QueuePrimitives` | the macros of the public headers and `src/containers/*/primitive_operations.c` |
| `MC...` | instances for TLC |
| `OwnershipProofs` | lemmas on sequences with an element inserted or removed, and the effects a call may have on the contents and the caller |
| `ContiguousContainerProofs`, `LinkedContainerProofs` | the inductive invariant of the containers over each storage, and that each operation of the storage and each shared operation of the containers keeps it |
| `ArrayAndStackProofs`, `LinkedListProofs`, `QueueProofs` | the theorems about the four containers |
| `SortingProofs`, `StatisticsProofs` | the theorems about the sorts and the statistics |

`ArraySpec` and `StackSpec` have names of their own so that one module can extend both
containers.

**State.** `super` is the header; `storage` the storage structure; `heap` (or
`mem = [nodes, heap]`) what is allocated. `caller`, `released` and `result`
record what the caller owns, what has been released and what the last call
returned. An element is a name for its bytes *and* for the resource they own:
the library copies bytes only as a whole, so nothing it does tells more apart.
A cell that was never written, was freed or lies outside its block reads `Junk`.

**Actions.** A public call of a container is one action, because the library is
sequential and its comparators and destructors do not call back into it. Inside
an action the order of the code is kept where a failure can come between two of its steps: the temporary
copy before the growth in `contiguousStorage_Insert`, the two allocations of
`CreateNode`, the appends of `linkedStorage_InitFrom`, the destruction of an
element before its erasure in `Remove` and `Discard`. Null containers are
not modelled (each function returns at once); null elements and outputs are.

**Steps of a sort.** `Sorting` is finer: `pc` names the loop that runs (`loop`
holds its variables), and each call of the comparator is a step of its own, with
the moves of elements and the change of indices up to the next call. The recursion of
`QuickSortRange` is the sequence `loop.frames`: a frame on it is a call that has
not returned, the last one is running; the `while` of the caller is the frame
below. The container is what its visitors show, `contents`: the copies out and
back are one assignment each, because a visitor of a live container of this
library always completes (`contents` is also what the refinement mappings of the
containers read). What the comparator may answer is
the constant `Answers(x, y)`, a set of signs: one sign for an order, all three
for a comparator that contradicts itself. Bogo sort's generator is left open:
any index below `remaining` may be drawn.

**Steps of a traversal.** `visit` is the running traversal: `pc` is `"loop"` where
the loop tests its condition, `"callback"` while the visitor runs. In
`"callback"` the next step may be any type-based operation of the container, as many
as the visitor likes, then the visitor returns; in `"idle"` the owner makes the calls.
`adt_ForEach` and `adt_ForEachMutable` differ in a `const` and have one action:
a visitor of the first is one that never takes `WriteElement`.
A contiguous loop keeps an index and computes size and address anew; a linked loop
keeps a node and reads its `next` after the visitor has returned, so that a
visitor must leave that node alone (`Contract`; freeing it would be a use after
free). A visitor of kind `"behind"` also leaves alone the nodes before it; one of
kind `"anywhere"` does not, and the index it is told is not that of the element
any more. A visitor
cannot stop a traversal: it returns nothing.

**Steps of a statistic.** `pc` names the loop and `loop` holds its variables,
or those of the callback's context; `values` is the temporary buffer and `result`
the last call with what it wrote. The output of an extremum may be an element
of the container itself, which `memmove` permits. `qsort` is external: it puts the
numbers in the order of `CompareDouble`. A finite double is a number of units,
the least positive double being one, so that every rounding happens where it does in
C: additions and halves of doubles, the sum and the quotient of long doubles, the
conversions.

**Arguments by value.** In `PrimitiveDispatch` a caller writes an element value, or
an address, as the element of a call. A value of a primitive type goes to the
wrapper of its type, which compares sizes and passes on the address of its
parameter, `Variable(e)`, never one in the container; an address goes
to the function of the container. Addresses are right, values of any type are tried.

**Numbers.** `size_t` has the values `0 .. SizeMax`. The doubling in `Reserve`
and every guard against overflow is written with that bound. Where the code
relies on a guard to keep `size + 1` from wrapping, the model counts past
`SizeMax` when the guard is missing, which `TypeOK` reports.

**The environment.** The caller keeps the contract of `docs/ownership.md`: it
initialises a container only when it is zeroed or has been destroyed (line
126), and offers an element that owns something only while it owns it, so never
twice (lines 99-115). Elements that own nothing may come from anywhere,
the container's own slots included, and `Take`, `Pop` and `Dequeue` may be given
any slot of the container as output. `Acquire` makes a new resource under the
name of one that has been released; it keeps the set of names finite.

## 3. What TLC checks

| Run | Instance | Properties |
| --- | --- | --- |
| `array_plain` | 2 elements that own nothing, element sizes 0, 1, 2, 4, `SizeMax` 7, initial capacity 2, 3 blocks; arrays of up to 7 elements | `TypeOK`, `StorageConsistent`, `ContentsDefined`, `FailureChangesNothing`, `ImplementsList` |
| `array_owning` | 3 elements that own a resource, sizes 1, 2, with and without a comparator (two of the elements are equal to it) | `OwnedOnce`, `ImplementsList` |
| `stack` | 3 elements, owning and not, sizes 1, 2, `SizeMax` 5, 3 blocks | `StorageConsistent`, `OwnedOnce`, `ImplementsStack` |
| `list_plain` | 2 elements that own nothing, 5 nodes and blocks, `SizeMax` 4, deterministic allocator | `TypeOK`, `WellLinked`, `ImplementsList` |
| `list_owning` | 3 owning elements, 3 nodes and blocks, any free address | `NothingLeaks`, `OwnedOnce`, `FailureChangesNothing`, `ElementsStay` |
| `queue` | 3 elements, owning and not, 4 nodes and blocks, `SizeMax` 3, deterministic allocator | `WellLinked`, `NothingLeaks`, `OwnedOnce`, `ImplementsQueue` |
| `sorting_ordered` | all containers of up to 5 of 4 elements, two of them equal to the comparator; element sizes 0, 1, 2, with and without a comparator; `SizeMax` 8 | `ImplementsSort` |
| `sorting_any_answer` | all containers of up to 4 of 3 elements, a comparator that answers anything at any time | `TypeOK`, `Conserved`, `ShallowStack`, `Terminates` |
| `statistics` | all containers of up to 5 of 6 structs, of 2 structs without a comparator or without a projection, and of 4 values of each primitive type and of pointers | `TypeOK`, `ScanCounts`, `MeanBetweenExtremes`, `ExtremaAgreeWithNumbers`, `ImplementsStatistics` |
| `median_documented` | the containers of up to 2 structs | `MedianOfEqualMiddles`, which is violated (section 4) |
| `contiguous_traversal` | an array or a stack of a char, or of an int and a struct of one size; `SizeMax` 7, initial capacity 2, 3 blocks | `ImplementsForEach`, `VisitEnds`, `ImplementsTyped` |
| `linked_traversal` | a list or a queue of a char, or of two ints; `SizeMax` 3, 3 nodes and blocks; both kinds of visitors | `SurvivorsShownOnce`, `ImplementsForEach`, `VisitEnds`, `ImplementsTyped` |

What the properties say:

- `TypeOK`: every variable has its C type; a size that wraps would leave it.
- `StorageConsistent`: the container's block is the only one allocated and has
  exactly the recorded capacity. It fails for a leaked temporary copy, for a
  capacity recorded too early, for a write past the block.
- `ContentsDefined`: every element in use was stored by somebody. With aliased
  sources this is what the temporary copy of `contiguousStorage_Insert` is for.
- `WellLinked`: the two directions of the chain are each other's reverse, and
  `size` long. It also gives the termination of every loop over the chain.
- `NothingLeaks`: the allocated nodes and blocks are those of the chain.
- `OwnedOnce`: caller, container, released: each resource is in one place.
- `FailureChangesNothing`: a call that returns false has no effect, on memory
  either (`docs/ownership.md:83`, `docs/storage.md:40-44`).
- `ElementsStay`: an element pointer stays valid (`docs/storage.md:59`).
- `ImplementsList`, `ImplementsStack`, `ImplementsQueue`: every call does to the
  contents what the abstract specification says and returns what it says. The
  refinement mapping is the contents the vtable visitor would show.

- `TypeOK` of `Sorting`: every index an algorithm uses is in the buffer, and
  `insertionIndex <= current < end` in a partition, so that no difference of two
  `size_t` wraps.
- `Conserved`: at every call of the comparator the buffer, with the element
  insertion sort holds in `tmp`, is a reordering of the container. A record that
  is lost or duplicated is a resource that leaks or is released twice.
- `ShallowStack`: the calls of `QuickSortRange` nest at most log2(n + 1) + 1 deep.
- `Terminates`: a sort returns, even with a comparator that contradicts itself.
- `ImplementsSort`: between call and return the container is unchanged; the
  return puts it in the order of the comparator, bubble and insertion sort
  keeping the order of equal elements (`docs/sorting.md:40-44`), or changes
  nothing (`docs/sorting.md:75`).

- `ImplementsForEach`: whatever the visitor calls, the next time it is shown the
  element that is at its index then, read from a block that is allocated, and
  the traversal ends where the container ends. For linked containers this is said
  of visitors that change what is behind them only.
- `SurvivorsShownOnce`: a visitor of a linked container may insert and erase before
  and behind its node: it sees no node twice, none that is gone, and every one
  that is there from the beginning to the end.
- `VisitEnds`: a traversal ends. A visitor may add an element each time it is called:
  then the traversal goes on until the container is full, which the bounds
  make soon. (A visitor that moves nodes in front of itself can see
  elements for as long as it likes; `VisitEnds` says nothing of it.)
- `TypeOK` of `Statistics`: no index passes the container or the buffer, the buffer
  is written before it is sorted, and is freed whenever the call has returned.
- `ScanCounts`: the loop invariant of the mode, with the counts of the values seen.
- `MeanBetweenExtremes`: the mean of finite numbers is not below the least nor above
  the greatest of them. This needs the long double: with a sum in a double it is
  violated. It holds here with three extra bits for at most eight elements; a
  platform whose long double is a double does not have them (section 6).
- `ImplementsStatistics`: the extrema are the first of the least and greatest
  elements; mean and median are off by no more than the rounding of the result, or what
  arithmetic makes of infinities and NaN; the mode is the least of the most
  frequent numbers if one occurs twice; else the call fails and writes nothing.
- `ExtremaAgreeWithNumbers`: the built-in comparator and the built-in projection of a
  type put elements in one order, although they are written apart.
- `ImplementsTyped`: a value as wide as the elements does what the abstract
  container says, any other is refused and changes nothing, and so everything in
  the container has the width of its elements, after it was initialised again for
  another type too (`README.md:153` of the repository).

**Why the bounds are enough.** The interesting capacities are none, the initial
one, one doubling, and the doubling that does not fit: with an initial capacity
of 2 (8 in the code, a power of two like 2) and `SizeMax` 7 all occur, as do
full containers of every size up to `SizeMax` made by `InitFrom`, and an element
size for which the initial capacity does not fit. Growing an aliased insertion
needs three blocks: the old one, the copy, the new one. The chain needs lengths
up to 4 for nodes in the middle reached from both ends; 5 nodes leave one for an
insertion into a list of `SizeMax` elements. Two elements tell an element from
its neighbour, three let a resource be in the container, with the caller and
released at a time. Running out of blocks is a failing malloc, no more. For
sorting, five elements make both sides of a partition non-trivial and let
QuickSort loop after a recursive call. Pivots at either end occur, equal
elements apart and side by side, and more elements than Bogo sort takes
(`BogoMaxElements` 3 for 8, `BogoMaxShuffles` 2 for 100000: both limits are met,
neither is passed). Five elements of size 2 exceed `SizeMax`, so that the
guard against the overflow of the buffer's size is taken. The other
order of the two sides is noticed from size 4 on: three calls deep, then four.
For statistics a double has three bits and two exponents besides the denormal
one (`Precision` 3, `MaxExponent` 1: whole numbers to 7, even ones to 14), a long
double six bits and quarters of a unit: the sums of four elements round, the
greatest double overflows when it is added to itself as a double, one half
rounds. Four elements have both a middle value and two of them, a tie between two
modes, and a run at either end of the buffer; five of a size-2 double exceed
`SizeMax` 9. The longs have one bit more than a double, the chars of three bits
are negative from 4 on. For traversals, three or more elements have one before, at
and behind the visitor, with room for it to grow; a growth moves the block, from
2 to 4 to 7 chars or 2 to 3 ints. The type-based calls of lists and queues
are not given addresses of elements: the runs of the containers do that.

**How the runs are kept small.** `VIEW MCView` leaves out `result`: no action
and no state property reads it, and TLC evaluates action properties on every
step it generates, so they still see each call's result. Blocks (and, where no
key tells them apart, elements) are symmetric. `list_plain` and `queue` use an
allocator that returns the same free address for the same set of free addresses;
`list_owning` lets it return any.

**Liveness and fairness.** Nothing in the library waits. The calls on a
container are single actions, so their specifications assume no fairness: their
loops are bounded by a size or by a chain (`WellLinked`). `Sorting` has steps,
and assumes `WF_vars(Step)`: a call that was made runs on, because the library is
sequential and a comparator returns. Nobody has to make a call: `Call` has no
fairness. `Terminates` is checked under that assumption. The loops of the statistics
are counted by an index that `TypeOK` bounds, and assume no fairness. A traversal
assumes `WF(VisitStep)`: its loop runs on and a visitor returns,
after finitely many calls; the calls it makes have no fairness.

## 4. A disagreement with the documentation

`docs/statistics.md:66` says that an even-sized collection "averages its two middle
projected values". The code halves each of them first
(`src/shared/statistics.c:234`), as line 68 explains, so that the sum cannot overflow.
But a number near the least positive double may have no half: in the
run `median_documented` the two middle values are both one unit, each half is rounded to
zero, and so is the median. In C, the median of two elements `5e-324` is `0`,
while their mean is `5e-324`. The error is never more than one unit besides the
rounding of the addition, which is what `ImplementsStatistics` checks.

## 5. What is proved

For every set of elements and element types, every `SizeMax`, initial capacity,
number of blocks and nodes and allocator policy that satisfy the assumptions:

| States | `ArrayAndStackProofs` | `LinkedListProofs`, `QueueProofs` |
| --- | --- | --- |
| `Spec => []Inv`, the inductive invariant | `ArrayInvariance`, `StackInvariance` | `Invariance` |
| `Spec => []TypeOK` | `ArrayTypeSafety`, `StackTypeSafety` | `TypeSafety` |
| `Spec => []StorageConsistent` | `ArrayStorageSafety`, `StackStorageSafety` | |
| `Spec => []ContentsDefined` | `ArrayContentsSafety`, `StackContentsSafety` | |
| `Spec => []WellLinked` | | `LinkSafety` |
| `Spec => []NothingLeaks` | | `LeakFreedom` |
| `Spec => []OwnedOnce` | `ArrayOwnershipSafety`, `StackOwnershipSafety` | `OwnershipSafety` |
| `Spec => FailureChangesNothing` | `ArrayFailureAtomicity`, `StackFailureAtomicity` | `FailureAtomicity` |
| `Spec => ElementsStay` | | `ElementStability` |
| `Spec => ImplementsList`, `ImplementsStack`, `ImplementsQueue` | `ArrayRefinement`, `StackRefinement` | `Refinement` |

| Theorem | States |
| --- | --- |
| `SortingProofs!TypeSafety` | `Spec => []TypeOK`: no algorithm leaves its buffer |
| `SortingProofs!ContentsKept` | `Spec => []Conserved`: no algorithm loses or duplicates an element |
| `SortingProofs!DepthSafety` | `Spec => []ShallowStack`: QuickSort nests at most log2(n + 1) + 1 deep |
| `StatisticsProofs!Invariance` | `Spec => []Inv` |
| `StatisticsProofs!TypeSafety` | `Spec => []TypeOK`: no loop leaves the container or its buffer |
| `StatisticsProofs!ScanSafety` | `Spec => []ScanCounts`: the scan of the mode counts right |

So every invariant that a run checks is proved, and so are all properties of the runs of the
containers.

**Assumptions** (`ElementTypeAssumption`, `MemoryAssumption`, `NodesAssumption`,
`InitialCapacityAssumption`, `MaxInitialAssumption`, `VTablesAssumption`,
`SortingAssumption`, `DoublesAssumption`, `PrimitivesAssumption`,
`StatisticsAssumption`). They are stated next to the declarations of the constants,
and TLC evaluates them in every run: `NULL` and `Junk` are none of the things they are compared
with; `SizeMax` and `InitialCapacity` are numbers, and `SizeMax` is not zero (C has it at
65535 or more; the first index of a refused `InitFrom` of one element is an index only
then); the nodes are finitely many; `Fresh` chooses among what is free; a
comparator returns some sign for any two elements, and no more is asked of it; a
projection returns a double.

**The argument for containers over a contiguous storage.** None of the properties is
inductive: `StorageConsistent` says how large the block is, but not that the elements
written survive the next growth; `ContentsDefined` says they are defined, but not that
there is a block to hold them; `OwnedOnce` says that a resource has one owner, but a
call destroys or hands out the element it reads, which must be one that the
container holds. `Inv` is `Consistent(super, storage, heap)`, the types of `caller` and
`released`, and the account of the resources, `Accounts`. `Consistent` says at once that

- the storage is `Sound`: no block and capacity zero, or one block with cells
  for exactly the capacity, and nothing else is allocated;
- the size is at most the capacity, and the capacity in bytes fits `size_t`;
- a container that is not live is zero;
- every slot below the size holds an element.

`Sound(memory, store, others)` has a parameter for the blocks that are allocated
besides the container's own: empty between calls, and the temporary copy in the
middle of an aliased insertion. So one lemma about `Reserve` serves both
branches of `contiguousStorage_Insert`.

- `ContiguousContainerProofs` has first one lemma per function of the storage: from a
  sound storage every outcome is sound, reports failure only with everything
  unchanged, and moves the values of the slots as the function should
  (`InsertLemma`, `EraseLemma`, `ReserveLemma`, ...). The arithmetic of the
  doubling is here: `GrownCapacity` is at least the request and at most `SizeMax`. Then
  one lemma per shared operation of the containers: it preserves `Inv`, a
  failure changes nothing, and the contents change as the call should change them. Here
  too: after the checks of `Remove` and `Take`, `Erase` cannot refuse, which is why
  an element that was destroyed never stays in the container.
- `OwnershipProofs` names what a call may do to the sequence of the elements and to the caller:
  `Created`, `StoredAt`, `ReadFrom`, `TakenFrom`, `DeletedFrom`, `ReplacedAt`, `Vacated`,
  `Declined`, `Idle`. Each keeps `Accounts`, whatever the storage. Every step of a container is shown
  to have one of these effects on its `Contents`, and each effect is a step of the abstract
  specification, or a stutter. So ownership and refinement have one proof for the steps.
- `ArrayAndStackProofs`: one step per action of `ArrayNext` and `StackNext`, and the theorems.

**The argument for containers over a linked storage.** The invariant has a witness: a
sequence `c` of nodes, the walk from `head` to the end.

- `Linked`: the nodes of `c` are distinct, they are the allocated ones, `head` and `tail`
  are its ends, and each node's links name its neighbours in `c`.
- `Filled`: each node has a block of its own with one element, and no other block is allocated.
- The length of `c` is the size, and a container that is not live has no nodes.

Linking a new node is an insertion into `c`, unlinking one a removal from it
(`Inserted`, `Removed`), and a statement about both links of all nodes becomes
one about the neighbours of a position. `WellLinked` walks the links one by one;
that the walks reach what `c` says, from either end, is an induction over their length. The
library's induction theorems take an operator as a parameter, which the provers do not
instantiate; the induction is made with a least counterexample instead (`Least`,
from the well-foundedness of finite sets). The same induction follows the appends of
`linkedStorage_InitFrom`, each of which may fail and free everything. `ElementsStay` and
`FailureChangesNothing` are proved for each operation with the invariant (`Safe`).

**Sorting.** `TypeOK` of `Sorting` is inductive as it stands, with one lemma
per algorithm. `Conserved` is inductive together with it: an exchange is one
only between two positions of the buffer (`ReordersSwapped`). Insertion sort
is the case that needs `Held`: a shift overwrites an element that is safe in
the slot above, and so exchanges two elements of `Held`; placing `tmp` and
loading the next element leaves `Held` as it is. `ShallowStack` bounds the number of frames;
what is inductive is `Halved`, which bounds the width of each: with its pivot, the range of frame k
is at most `(size + 1) / 2^(k - 1)` wide. Because the pivot belongs to neither side,
the larger side may take the place of the range it is a part of, and the smaller one, called, has at most
half of it. The prover knows no powers; that `2^(n + 1)` is twice `2^n` is
proved by counting the subsets of an interval (`PowersDouble`).

**Statistics.** `TypeOK` needs two more facts: a call that was accepted has an
element (else the extremum that is copied would be none), and once qsort has run, the buffer holds
numbers, in order. `Sorted` chooses an element for each place by how many come
before it: `PlaceLemma` shows that there is one for each, `SortedLemma` that the choices are in order.
Both rest on `RankLemma`, that `CompareDouble` is a total order of all doubles,
the infinities and NaN included. That the mode counts right follows: if the
value at `i` is not the one before it, it occurs nowhere before. That the sum of a mean is a number
needs an exponent for every rounding (`NearestLemma`).

**Only model-checked.** Everything about traversals and type-based calls. That a sort ends with
the elements in order, and that it is stable (`ImplementsSort`); what the statistics write
(`ImplementsStatistics`, `ExtremaAgreeWithNumbers`; `MeanBetweenExtremes` holds for the bits of
the instance only, see section 6). That a sort and a traversal end
(`Terminates`, `VisitEnds`): liveness is out of the prover's reach.

## 6. What is not modelled

- Destroy callbacks, comparators and projections that call back into the
  container; only visitors do (`docs/runtime_type_info.md:93` gives a destroy
  callback one task). A traversal inside the visitor of another: both only read, and
  each operation the inner one could be interleaved with is tried anyway.
- Traversals of elements that own something: their visitors may not write in place,
  and show nothing else that the others do not.
- `-0.0`; numbers beyond the range of a long double; a platform on which long
  double is double, or a container so large that the extra bits of a long
  double do not suffice: there `MeanBetweenExtremes` does not hold.
- Numeric outputs (`outMean` and so on) that lie inside the container.
- Chars that are negative are left out of `ExtremaAgreeWithNumbers`: `CompareChar`
  reads a char, `ToNumberChar` an unsigned char, and the two orders differ.
- A value of another type of the same size, passed where the type of the container
  was meant: it is stored, and its bytes mean something else
  (`docs/getting_started.md:148`). Types with a destroy callback have no
  type-based instance: their elements are passed by address, as in the runs of the
  containers.
- `da_Get`, `ll_Get` and the queries that copy out are given variables of the
  caller. An output that overlaps the container is undefined (memcpy), and the
  documentation excludes it.
- Printing, which is output only; examples and tests.
- A sort of a container that is not live (it is refused, without a vtable), and
  which of the two allocations of a sort failed: both are tried, both freed.

## 7. Plan

Done: the two storages, the four containers, their type-based calls and their abstract
specifications; traversals with visitors that call back; sorting and statistics with
their abstract specifications; the proofs of every property of the four containers,
of every invariant of the sorts and of the statistics. Next, in this order:

1. Proofs about sorting: for a comparator that is an order, the loop invariants
   of bubble, selection and insertion sort and of the partition, and from them
   that what is copied back is in order (`ImplementsSort`).
2. Proofs about statistics: for such a comparator, that an extremum is the first of
   the least or greatest elements; that median and mode are those of
   `StatisticsADT` (`ImplementsStatistics`).
3. Proofs about traversals: `ImplementsForEach` and `ImplementsTyped` of the contiguous
   ones, from the inductive invariant that is proved already.
