---------------------- MODULE ContiguousContainerProofs ----------------------
(***************************************************************************)
(* What the operations of ContiguousStorage preserve and compute, for      *)
(* every value of the constants and every way malloc and realloc can go;   *)
(* then the inductive invariant of DynamicArray_t and Stack_t, and what    *)
(* each of the steps they are made of does to it.  Every step is shown to  *)
(* preserve the invariant, to change nothing if the call returns false,    *)
(* and to have one of the effects of OwnershipProofs on the sequence of    *)
(* the elements.                                                           *)
(***************************************************************************)
EXTENDS ContiguousContainer, OwnershipProofs

-----------------------------------------------------------------------------
(* The storage.                                                            *)

\* A storage whose block, if it has one, is as long as its capacity says, in a
\* heap that holds nothing else but the blocks others.
Sound(memory, store, others) ==
    /\ store \in [data : Blocks \cup {NULL}, capacity : 0 .. SizeMax]
    /\ others \subseteq Blocks
    /\ store.data \notin others
    /\ memory = [b \in DOMAIN memory |-> memory[b]]
    /\ store.data = NULL <=> store.capacity = 0
    /\ DOMAIN memory = ({store.data} \ {NULL}) \cup others
    /\ store.data # NULL => memory[store.data] \in [0 .. store.capacity - 1 -> Cells]

\* The cell at a slot of a storage.
SlotValue(memory, store, slot) == memory[store.data][slot]

\* A block malloc returns was free, and holds what was written to it.
LEMMA MallocLemma ==
    ASSUME NEW memory, NEW cells, NEW m \in Malloc(memory, cells)
    PROVE  \/ m.data = NULL /\ m.heap = memory
           \/ /\ m.data \in Blocks \ DOMAIN memory
              /\ m.data # NULL
              /\ m.heap = Alloc(memory, m.data, cells)
BY MemoryAssumption DEF Malloc

\* A successful realloc: the block is as long as asked for and keeps its cells.
Reallocated(memory, store, others, n, m) ==
    /\ m.data \in Blocks \ others
    /\ m.data # NULL
    /\ m.heap = [b \in DOMAIN m.heap |-> m.heap[b]]
    /\ DOMAIN m.heap = {m.data} \cup others
    /\ m.heap[m.data] \in [0 .. n - 1 -> Cells]
    /\ \A i \in 0 .. store.capacity - 1 :
          m.heap[m.data][i] = SlotValue(memory, store, i)
    /\ \A b \in others : m.heap[b] = memory[b]

\* What realloc returns: failure without effect, or a block of the new length
\* with the old cells, the old block being gone unless it is the same.
LEMMA ReallocLemma ==
    ASSUME NEW memory, NEW store, NEW others, Sound(memory, store, others),
           NEW n \in Nat, n >= store.capacity,
           NEW m \in Realloc(memory, store.data, n)
    PROVE  \/ m.data = NULL /\ m.heap = memory
           \/ Reallocated(memory, store, others, n, m)
<1> DEFINE cells == Resized(memory, store.data, n)
<1>1. cells \in [0 .. n - 1 -> Cells]
  BY DEF Resized, Cells, Sound
<1>2. \A i \in 0 .. store.capacity - 1 : cells[i] = SlotValue(memory, store, i)
  BY DEF Resized, Sound, SlotValue
<1> HIDE DEF cells
<1>3. CASE m.data = NULL /\ m.heap = memory
  BY <1>3
<1>4. CASE store.data # NULL /\ m.data = store.data
           /\ m.heap = Alloc(memory, store.data, cells)
  <2>1. DOMAIN m.heap = {m.data} \cup others
    BY <1>4 DEF Sound, Alloc
  <2>2. m.heap[m.data] = cells
    BY <1>4 DEF Alloc
  <2>3. \A b \in others : m.heap[b] = memory[b]
    BY <1>4 DEF Sound, Alloc
  <2>4. m.data \in Blocks \ others /\ m.data # NULL
    BY <1>4 DEF Sound
  <2>5. m.heap = [b \in DOMAIN m.heap |-> m.heap[b]]
    BY <1>4 DEF Alloc
  <2>6. QED
    BY <1>1, <1>2, <2>1, <2>2, <2>3, <2>4, <2>5 DEF Reallocated
<1>5. CASE m.data \in Blocks \ DOMAIN memory
           /\ m.heap = Alloc(Free(memory, store.data), m.data, cells)
  <2>1. DOMAIN m.heap = {m.data} \cup others
    BY <1>5, MemoryAssumption DEF Sound, Alloc, Free, Restrict
  <2>2. m.heap[m.data] = cells
    BY <1>5 DEF Alloc
  <2>3. \A b \in others : m.heap[b] = memory[b]
    BY <1>5 DEF Sound, Alloc, Free, Restrict
  <2>4. m.data \in Blocks \ others /\ m.data # NULL
    BY <1>5, MemoryAssumption DEF Sound
  <2>5. m.heap = [b \in DOMAIN m.heap |-> m.heap[b]]
    BY <1>5 DEF Alloc
  <2>6. QED
    BY <1>1, <1>2, <2>1, <2>2, <2>3, <2>4, <2>5 DEF Reallocated
<1>6. \A free \in SUBSET Blocks : Fresh(free) \subseteq free
  BY MemoryAssumption
<1>7. Fresh(Blocks \ DOMAIN memory) \subseteq Blocks \ DOMAIN memory
  BY <1>6
<1>8. \/ m = [data |-> NULL, heap |-> memory]
      \/ \E b \in {store.data} \ {NULL} :
            m = [data |-> b, heap |-> Alloc(memory, b, cells)]
      \/ \E b \in Fresh(Blocks \ DOMAIN memory) :
            m = [data |-> b, heap |-> Alloc(Free(memory, store.data), b, cells)]
  BY DEF Realloc, cells
<1>9. CASE m = [data |-> NULL, heap |-> memory]
  BY <1>3, <1>9
<1>10. CASE \E b \in {store.data} \ {NULL} :
              m = [data |-> b, heap |-> Alloc(memory, b, cells)]
  <2>1. store.data # NULL /\ m.data = store.data
        /\ m.heap = Alloc(memory, store.data, cells)
    BY <1>10
  <2>2. QED
    BY <1>4, <2>1
<1>11. CASE \E b \in Fresh(Blocks \ DOMAIN memory) :
              m = [data |-> b, heap |-> Alloc(Free(memory, store.data), b, cells)]
  <2>1. m.data \in Blocks \ DOMAIN memory
        /\ m.heap = Alloc(Free(memory, store.data), m.data, cells)
    BY <1>7, <1>11
  <2>2. QED
    BY <1>5, <2>1
<1>12. QED
  BY <1>8, <1>9, <1>10, <1>11

\* What a storage operation leaves of the storage it was given: it is still
\* sound, the first n of its cells and the other blocks are as they were.
Keeps(memory, store, others, n, r) ==
    /\ Sound(r.heap, r.storage, others)
    /\ \A i \in 0 .. n - 1 :
          SlotValue(r.heap, r.storage, i) = SlotValue(memory, store, i)
    /\ \A b \in others : r.heap[b] = memory[b]

\* Growing to a capacity in range.
LEMMA RegrowLemma ==
    ASSUME NEW memory, NEW store, NEW others, Sound(memory, store, others),
           NEW n \in 1 .. SizeMax, n >= store.capacity,
           NEW r \in Regrow(memory, store, n)
    PROVE  \/ r = Outcome(FALSE, memory, store)
           \/ /\ r = Outcome(TRUE, r.heap, r.storage)
              /\ r.storage.capacity = n
              /\ Keeps(memory, store, others, store.capacity, r)
<1>0. n \in Nat /\ SizeMax \in Nat
  BY MemoryAssumption
<1>1. PICK m \in Realloc(memory, store.data, n) :
         r = IF m.data = NULL
             THEN Outcome(FALSE, memory, store)
             ELSE Outcome(TRUE, m.heap, [data |-> m.data, capacity |-> n])
  BY DEF Regrow
<1>2. CASE m.data = NULL
  BY <1>1, <1>2
<1>3. CASE m.data # NULL
  <2>1. Reallocated(memory, store, others, n, m)
    BY <1>0, <1>3, ReallocLemma
  <2>2. /\ r = Outcome(TRUE, r.heap, r.storage)
        /\ r.heap = m.heap
        /\ r.storage = [data |-> m.data, capacity |-> n]
    BY <1>1, <1>3 DEF Outcome
  <2>3. Sound(r.heap, r.storage, others)
    BY <1>0, <1>3, <2>1, <2>2 DEF Sound, Reallocated
  <2>4. r.storage.data = m.data /\ r.storage.capacity = n
    BY <2>2
  <2>5. \A i \in 0 .. store.capacity - 1 :
           SlotValue(r.heap, r.storage, i) = SlotValue(memory, store, i)
    BY <2>1, <2>2, <2>4 DEF SlotValue, Reallocated
  <2>6. \A b \in others : r.heap[b] = memory[b]
    BY <2>1, <2>2 DEF Reallocated
  <2>7. QED
    BY <2>2, <2>3, <2>4, <2>5, <2>6 DEF Keeps
<1>4. QED
  BY <1>2, <1>3

\* The capacity after an operation is the one before, or fits a size_t in bytes.
CapacityFits(store, width, r) ==
    \/ r.storage.capacity = store.capacity
    \/ r.storage.capacity <= SizeMax \div width

\* contiguousStorage_Reserve: a refusal has no effect; a success leaves room for
\* what was required, in bytes that fit a size_t, and every cell as it was.
LEMMA ReserveLemma ==
    ASSUME NEW memory, NEW store, NEW others, Sound(memory, store, others),
           NEW required \in 0 .. SizeMax, NEW width \in Nat,
           NEW r \in contiguousStorage_Reserve(memory, store, required, width)
    PROVE  \/ r = Outcome(FALSE, memory, store)
           \/ /\ r = Outcome(TRUE, r.heap, r.storage)
              /\ required <= r.storage.capacity
              /\ CapacityFits(store, width, r)
              /\ Keeps(memory, store, others, store.capacity, r)
<1>0. /\ required \in Nat
      /\ SizeMax \in Nat
      /\ store.capacity \in Nat
  BY MemoryAssumption DEF Sound
<1>1. CASE width = 0 \/ Inconsistent(store)
  BY <1>1 DEF contiguousStorage_Reserve, Refused
<1>2. CASE ~ (width = 0 \/ Inconsistent(store)) /\ required <= store.capacity
  <2>1. r = Outcome(TRUE, memory, store)
    BY <1>2 DEF contiguousStorage_Reserve
  <2>2. QED
    BY <1>2, <2>1 DEF Outcome, Keeps, CapacityFits
<1>3. CASE ~ (width = 0 \/ Inconsistent(store)) /\ ~ (required <= store.capacity)
  <2> DEFINE fitting == {n \in GrownCapacity(store.capacity, required) :
                            n <= SizeMax \div width}
  <2>1. CASE fitting = {}
    BY <1>3, <2>1 DEF contiguousStorage_Reserve, Refused
  <2>2. CASE fitting # {}
    <3>1. r \in UNION {Regrow(memory, store, n) : n \in fitting}
      BY <1>3, <2>2 DEF contiguousStorage_Reserve
    <3>2. PICK n \in fitting : r \in Regrow(memory, store, n)
      BY <3>1
    <3>3. n \in required .. SizeMax /\ n <= SizeMax \div width
      BY <3>2 DEF GrownCapacity, Doublings
    <3>4. n \in 1 .. SizeMax /\ n >= store.capacity /\ required <= n
      BY <1>0, <1>3, <3>3
    <3>5. \/ r = Outcome(FALSE, memory, store)
          \/ /\ r = Outcome(TRUE, r.heap, r.storage)
             /\ r.storage.capacity = n
             /\ Keeps(memory, store, others, store.capacity, r)
      BY <3>2, <3>4, RegrowLemma
    <3>6. QED
      BY <3>3, <3>4, <3>5 DEF CapacityFits
  <2>3. QED
    BY <2>1, <2>2
<1>4. QED
  BY <1>1, <1>2, <1>3

-----------------------------------------------------------------------------
(* Insertion and removal.                                                  *)

\* What is read from source is e, as long as the blocks others are kept.
Steady(memory, others, source, e) ==
    \A h : /\ others \subseteq DOMAIN h
           /\ \A b \in others : h[b] = memory[b]
           => Deref(h, source) = e

\* The effect of a successful insertion of e at index among count elements.
Inserts(memory, store, others, count, index, e, r) ==
    /\ Sound(r.heap, r.storage, others)
    /\ count + 1 <= r.storage.capacity
    /\ \A i \in 0 .. index - 1 :
          SlotValue(r.heap, r.storage, i) = SlotValue(memory, store, i)
    /\ SlotValue(r.heap, r.storage, index) = e
    /\ \A i \in index + 1 .. count :
          SlotValue(r.heap, r.storage, i) = SlotValue(memory, store, i - 1)
    /\ \A b \in others : r.heap[b] = memory[b]

\* An insertion fails without effect, or succeeds.
InsertsOrFails(memory, store, others, count, index, width, e, r) ==
    \/ r = Outcome(FALSE, memory, store)
    \/ /\ r = Outcome(TRUE, r.heap, r.storage)
       /\ CapacityFits(store, width, r)
       /\ Inserts(memory, store, others, count, index, e, r)

\* Below SIZE_MAX, count + 1 does not wrap.
LEMMA NoWrap ==
    ASSUME NEW count \in 0 .. SizeMax, count # SizeMax
    PROVE  (count + 1) % (SizeMax + 1) = count + 1
BY MemoryAssumption

\* A block with e inserted at index among count elements.
Spread(cells, after, capacity, count, index, e) ==
    /\ after \in [0 .. capacity - 1 -> Cells]
    /\ \A i \in 0 .. index - 1 : after[i] = cells[i]
    /\ after[index] = e
    /\ \A i \in index + 1 .. count : after[i] = cells[i - 1]

\* The cells of the block after the hole was made at index and e written to it.
LEMMA ShiftRightLemma ==
    ASSUME NEW capacity \in Nat, NEW cells \in [0 .. capacity - 1 -> Cells],
           NEW count \in Nat, count + 1 <= capacity,
           NEW index \in 0 .. count, NEW e \in Cells
    PROVE  Spread(cells,
                  WriteCell(ShiftElementsAfterIndexRight(cells, count, index), index, e),
                  capacity, count, index, e)
<1> DEFINE after == WriteCell(ShiftElementsAfterIndexRight(cells, count, index), index, e)
<1> DEFINE shifted == ShiftElementsAfterIndexRight(cells, count, index)
<1>1. DOMAIN shifted = 0 .. capacity - 1
  BY DEF ShiftElementsAfterIndexRight, MoveCells
<1>2. \A i \in 0 .. capacity - 1 :
         shifted[i] = IF i \in index + 1 .. count THEN cells[i - 1] ELSE cells[i]
  BY DEF ShiftElementsAfterIndexRight, MoveCells
<1> HIDE DEF shifted
<1>3. after = [i \in 0 .. capacity - 1 |-> IF i = index THEN e ELSE shifted[i]]
  BY <1>1 DEF WriteCell, shifted
<1>4. \A i \in 0 .. capacity - 1 : shifted[i] \in Cells
  BY <1>2
<1> HIDE DEF after
<1>5. after \in [0 .. capacity - 1 -> Cells]
  BY <1>3, <1>4
<1>6. \A i \in 0 .. index - 1 : after[i] = cells[i]
  BY <1>2, <1>3
<1>7. after[index] = e
  BY <1>3
<1>8. \A i \in index + 1 .. count : after[i] = cells[i - 1]
  BY <1>2, <1>3
<1>9. Spread(cells, after, capacity, count, index, e)
  BY <1>5, <1>6, <1>7, <1>8 DEF Spread
<1>10. QED
  BY <1>9 DEF after

\* A block with the element at index among count taken out.
Closed(cells, after, capacity, count, index) ==
    /\ after \in [0 .. capacity - 1 -> Cells]
    /\ \A i \in 0 .. index - 1 : after[i] = cells[i]
    /\ \A i \in index .. count - 2 : after[i] = cells[i + 1]

\* The cells of the block after the element at index was erased.
LEMMA ShiftLeftLemma ==
    ASSUME NEW capacity \in Nat, NEW cells \in [0 .. capacity - 1 -> Cells],
           NEW count \in 1 .. capacity, NEW index \in 0 .. count - 1
    PROVE  Closed(cells, shiftElementsAfterIndexLeft(cells, count, index),
                  capacity, count, index)
<1> DEFINE after == shiftElementsAfterIndexLeft(cells, count, index)
<1>1. DOMAIN after = 0 .. capacity - 1
  BY DEF shiftElementsAfterIndexLeft, MoveCells
<1>2. \A i \in 0 .. capacity - 1 :
         after[i] = IF i \in index .. count - 2 THEN cells[i + 1] ELSE cells[i]
  BY DEF shiftElementsAfterIndexLeft, MoveCells
<1>3. after = [i \in 0 .. capacity - 1 |-> after[i]]
  BY <1>1 DEF shiftElementsAfterIndexLeft, MoveCells
<1>4. \A i \in 0 .. capacity - 1 : after[i] \in Cells
  BY <1>2
<1> HIDE DEF after
<1>5. after \in [0 .. capacity - 1 -> Cells]
  BY <1>3, <1>4
<1>6. \A i \in 0 .. index - 1 : after[i] = cells[i]
  BY <1>2
<1>7. \A i \in index .. count - 2 : after[i] = cells[i + 1]
  BY <1>2
<1>8. Closed(cells, after, capacity, count, index)
  BY <1>5, <1>6, <1>7 DEF Closed
<1>9. QED
  BY <1>8 DEF after

\* The quotients the overflow guards compare with are numbers.
LEMMA QuotientLemma ==
    ASSUME NEW n \in Nat, NEW d \in Nat \ {0}
    PROVE  n \div d \in Nat
OBVIOUS

\* Replacing the cells of the block keeps a storage sound.
LEMMA RewriteLemma ==
    ASSUME NEW memory, NEW store, NEW others, Sound(memory, store, others),
           store.data # NULL,
           NEW cells \in [0 .. store.capacity - 1 -> Cells]
    PROVE  /\ Sound(Alloc(memory, store.data, cells), store, others)
           /\ Alloc(memory, store.data, cells)[store.data] = cells
           /\ \A b \in others : Alloc(memory, store.data, cells)[b] = memory[b]
<1> DEFINE after == Alloc(memory, store.data, cells)
<1>1. after = [b \in DOMAIN after |-> after[b]]
  BY DEF Alloc
<1>2. DOMAIN after = ({store.data} \ {NULL}) \cup others
  BY DEF Alloc, Sound
<1>3. after[store.data] = cells
  BY DEF Alloc
<1>4. \A b \in others : after[b] = memory[b]
  BY DEF Alloc, Sound
<1> HIDE DEF after
<1>5. Sound(after, store, others)
  BY <1>1, <1>2, <1>3 DEF Sound
<1>6. QED
  BY <1>3, <1>4, <1>5 DEF after

\* Lines 186-193: growing, shifting and writing, for any source that stays
\* readable meanwhile.
LEMMA PlaceElementLemma ==
    ASSUME NEW memory, NEW store, NEW others, Sound(memory, store, others),
           NEW count \in 0 .. SizeMax, count # SizeMax, count <= store.capacity,
           NEW index \in 0 .. count, NEW width \in Nat,
           NEW source, NEW e \in Cells, Steady(memory, others, source, e),
           NEW r \in PlaceElement(memory, store, count, index, source, width)
    PROVE  InsertsOrFails(memory, store, others, count, index, width, e, r)
<1>0. count \in Nat /\ SizeMax \in Nat /\ count + 1 \in 0 .. SizeMax
  BY MemoryAssumption
<1> DEFINE shifted(g) == Alloc(g.heap, g.storage.data,
                            ShiftElementsAfterIndexRight(g.heap[g.storage.data], count, index))
           placed(g) == Alloc(shifted(g), g.storage.data,
                           WriteCell(shifted(g)[g.storage.data], index,
                                     Deref(shifted(g), source)))
<1>1. PICK g \in contiguousStorage_Reserve(memory, store, count + 1, width) :
         r = IF ~ g.ok
             THEN g
             ELSE Outcome(TRUE, placed(g), g.storage)
  BY NoWrap DEF PlaceElement
<1>2. CASE g = Outcome(FALSE, memory, store)
  BY <1>1, <1>2 DEF Outcome, InsertsOrFails
<1>3. CASE /\ g = Outcome(TRUE, g.heap, g.storage)
           /\ count + 1 <= g.storage.capacity
           /\ CapacityFits(store, width, g)
           /\ Keeps(memory, store, others, store.capacity, g)
  <2> DEFINE data == g.storage.data
             cells == g.heap[data]
             after == WriteCell(ShiftElementsAfterIndexRight(cells, count, index), index, e)
  <2>1. Sound(g.heap, g.storage, others)
    BY <1>3 DEF Keeps
  <2>2. data # NULL /\ g.storage.capacity \in Nat
    BY <1>0, <1>3, <2>1 DEF Sound
  <2>3. cells \in [0 .. g.storage.capacity - 1 -> Cells]
    BY <2>1, <2>2 DEF Sound
  <2>4. Deref(shifted(g), source) = e
    <3>1. others \subseteq DOMAIN shifted(g)
      BY <2>1 DEF Sound, Alloc
    <3>2. \A b \in others : shifted(g)[b] = memory[b]
      BY <1>3, <2>1 DEF Keeps, Sound, Alloc
    <3>3. QED
      BY <3>1, <3>2 DEF Steady
  <2>5. shifted(g)[data] = ShiftElementsAfterIndexRight(cells, count, index)
    BY DEF Alloc
  <2>6. Spread(cells, after, g.storage.capacity, count, index, e)
    <3> HIDE DEF cells
    <3>1. count + 1 <= g.storage.capacity
      BY <1>3
    <3>2. QED
      BY <1>0, <2>2, <2>3, <3>1, ShiftRightLemma
  <2>7. placed(g) = Alloc(g.heap, data, after)
    <3>1. Alloc(shifted(g), data, after) = Alloc(g.heap, data, after)
      BY DEF Alloc
    <3>2. QED
      BY <2>4, <2>5, <3>1
  <2>8. r = Outcome(TRUE, Alloc(g.heap, data, after), g.storage)
    <3> HIDE DEF placed, after
    <3>1. g.ok = TRUE
      BY <1>3 DEF Outcome
    <3>2. QED
      BY <1>1, <2>7, <3>1
  <2>9. r.storage = g.storage /\ r.ok = TRUE /\ r.heap = Alloc(g.heap, data, after)
    BY <2>8 DEF Outcome
  <2> HIDE DEF shifted, after
  <2>10. /\ Sound(r.heap, r.storage, others)
         /\ r.heap[data] = after
         /\ \A b \in others : r.heap[b] = g.heap[b]
    BY <2>1, <2>2, <2>6, <2>9, RewriteLemma DEF Spread
  <2>11. \A i \in 0 .. count - 1 : cells[i] = SlotValue(memory, store, i)
    BY <1>0, <1>3 DEF Keeps, SlotValue, Sound
  <2>12. \A i \in 0 .. count : SlotValue(r.heap, r.storage, i) = after[i]
    BY <2>9, <2>10 DEF SlotValue
  <2>13. \A b \in others : r.heap[b] = memory[b]
    BY <1>3, <2>10 DEF Keeps
  <2> HIDE DEF data, cells
  <2>14. \A i \in 0 .. index - 1 :
            SlotValue(r.heap, r.storage, i) = SlotValue(memory, store, i)
    BY <1>0, <2>6, <2>11, <2>12 DEF Spread
  <2>15. SlotValue(r.heap, r.storage, index) = e
    BY <1>0, <2>6, <2>12 DEF Spread
  <2>16. \A i \in index + 1 .. count :
            SlotValue(r.heap, r.storage, i) = SlotValue(memory, store, i - 1)
    BY <1>0, <2>6, <2>11, <2>12 DEF Spread
  <2>17. Inserts(memory, store, others, count, index, e, r)
    BY <1>3, <2>9, <2>10, <2>13, <2>14, <2>15, <2>16 DEF Inserts
  <2>18. CapacityFits(store, width, r)
    BY <1>3, <2>9 DEF CapacityFits
  <2>19. QED
    BY <2>8, <2>9, <2>17, <2>18 DEF InsertsOrFails
<1>4. \/ g = Outcome(FALSE, memory, store)
      \/ /\ g = Outcome(TRUE, g.heap, g.storage)
         /\ count + 1 <= g.storage.capacity
         /\ CapacityFits(store, width, g)
         /\ Keeps(memory, store, others, store.capacity, g)
  BY <1>0, ReserveLemma
<1>5. QED
  BY <1>2, <1>3, <1>4

\* The heap copied is heap, and a block of its own that holds e.
Copied(memory, store, block, e, copied) ==
    /\ Sound(copied, store, {block})
    /\ Steady(copied, {block}, Address(block, 0), e)
    /\ \A i \in 0 .. store.capacity - 1 :
          SlotValue(copied, store, i) = SlotValue(memory, store, i)
    /\ Free(copied, block) = memory

\* The copy of an aliased element: a block of its own beside the storage.
LEMMA CopyLemma ==
    ASSUME NEW memory, NEW store, Sound(memory, store, {}), NEW e,
           NEW block \in Blocks \ DOMAIN memory,
           NEW copied, copied = Alloc(memory, block, [i \in {0} |-> e])
    PROVE  Copied(memory, store, block, e, copied)
<1>1. Sound(copied, store, {block})
  BY MemoryAssumption DEF Sound, Alloc
<1>2. Steady(copied, {block}, Address(block, 0), e)
  <2>1. copied[block] = [i \in {0} |-> e]
    BY DEF Alloc
  <2>2. Address(block, 0) # NULL /\ block # Caller
    BY MemoryAssumption DEF Address
  <2>3. SUFFICES ASSUME NEW h, block \in DOMAIN h, h[block] = copied[block]
                 PROVE  Deref(h, Address(block, 0)) = e
    BY DEF Steady
  <2>4. Address(block, 0).block = block /\ Address(block, 0).slot = 0
    BY DEF Address
  <2>5. 0 \in DOMAIN h[block] /\ h[block][0] = e
    BY <2>1, <2>3
  <2>6. QED
    BY <2>2, <2>3, <2>4, <2>5 DEF Deref
<1>3. \A i \in 0 .. store.capacity - 1 :
         SlotValue(copied, store, i) = SlotValue(memory, store, i)
  BY MemoryAssumption DEF Sound, Alloc, SlotValue
<1>4. Free(copied, block) = memory
  <2>1. DOMAIN copied \ {block} = DOMAIN memory
    BY DEF Alloc
  <2>2. \A b \in DOMAIN memory : copied[b] = memory[b]
    BY DEF Alloc
  <2>3. memory = [b \in DOMAIN memory |-> memory[b]]
    BY DEF Sound
  <2>4. QED
    BY <2>1, <2>2, <2>3 DEF Free, Restrict
<1>5. QED
  BY <1>1, <1>2, <1>3, <1>4 DEF Copied

\* Freeing the copy leaves a sound storage.
LEMMA FreeCopyLemma ==
    ASSUME NEW memory, NEW store, NEW block, Sound(memory, store, {block})
    PROVE  /\ Sound(Free(memory, block), store, {})
           /\ \A i \in 0 .. store.capacity - 1 :
                 SlotValue(Free(memory, block), store, i) = SlotValue(memory, store, i)
<1>1. Sound(Free(memory, block), store, {})
  BY MemoryAssumption DEF Sound, Free, Restrict
<1>2. \A i \in 0 .. store.capacity - 1 :
         SlotValue(Free(memory, block), store, i) = SlotValue(memory, store, i)
  BY MemoryAssumption DEF Sound, Free, Restrict, SlotValue
<1>3. QED
  BY <1>1, <1>2

\* Lines 174-196: an aliased element is inserted as it was before the call, and
\* no copy of it remains allocated.
LEMMA PlaceCopiedLemma ==
    ASSUME NEW memory, NEW store, Sound(memory, store, {}),
           NEW count \in 0 .. SizeMax, count # SizeMax, count <= store.capacity,
           NEW index \in 0 .. count, NEW width \in Nat,
           NEW element, Deref(memory, element) \in Cells,
           NEW r \in PlaceCopied(memory, store, count, index, element, width)
    PROVE  InsertsOrFails(memory, store, {}, count, index, width,
                          Deref(memory, element), r)
<1> DEFINE e == Deref(memory, element)
           copies == Malloc(memory, [i \in {0} |-> e])
<1>1. PICK m \in copies :
         r \in IF m.data = NULL
               THEN Refused(memory, store)
               ELSE {Outcome(p.ok, Free(p.heap, m.data), p.storage) :
                        p \in PlaceElement(m.heap, store, count, index,
                                           Address(m.data, 0), width)}
  BY DEF PlaceCopied
<1>2. CASE m.data = NULL
  BY <1>1, <1>2 DEF Refused, InsertsOrFails
<1>3. CASE m.data # NULL
  <2> DEFINE block == m.data
  <2>1. block \in Blocks \ DOMAIN memory /\ m.heap = Alloc(memory, block, [i \in {0} |-> e])
    BY <1>3, MallocLemma
  <2>2. /\ Sound(m.heap, store, {block})
        /\ Steady(m.heap, {block}, Address(block, 0), e)
        /\ \A i \in 0 .. store.capacity - 1 :
              SlotValue(m.heap, store, i) = SlotValue(memory, store, i)
        /\ Free(m.heap, block) = memory
    <3> HIDE DEF e, block
    <3>1. Copied(memory, store, block, e, m.heap)
      BY <2>1, CopyLemma
    <3>2. QED
      BY <3>1 DEF Copied
  <2>3. PICK p \in PlaceElement(m.heap, store, count, index, Address(block, 0), width) :
           r = Outcome(p.ok, Free(p.heap, block), p.storage)
    BY <1>1, <1>3
  <2> HIDE DEF e, block
  <2>4. InsertsOrFails(m.heap, store, {block}, count, index, width, e, p)
    <3>1. e \in Cells
      BY DEF e
    <3>2. QED
      BY <2>2, <2>3, <3>1, PlaceElementLemma
  <2>5. CASE p = Outcome(FALSE, m.heap, store)
    BY <2>2, <2>3, <2>5 DEF Outcome, InsertsOrFails, e
  <2>6. CASE /\ p = Outcome(TRUE, p.heap, p.storage)
             /\ CapacityFits(store, width, p)
             /\ Inserts(m.heap, store, {block}, count, index, e, p)
    <3>1. r = Outcome(TRUE, Free(p.heap, block), p.storage)
      <4>1. p.ok = TRUE
        BY <2>6 DEF Outcome
      <4>2. QED
        BY <2>3, <4>1
    <3>2. r.ok = TRUE /\ r.heap = Free(p.heap, block) /\ r.storage = p.storage
      BY <3>1 DEF Outcome
    <3>3. Sound(p.heap, p.storage, {block}) /\ count + 1 <= p.storage.capacity
      BY <2>6 DEF Inserts
    <3>4. /\ Sound(r.heap, r.storage, {})
          /\ \A i \in 0 .. p.storage.capacity - 1 :
                SlotValue(r.heap, r.storage, i) = SlotValue(p.heap, p.storage, i)
      BY <3>2, <3>3, FreeCopyLemma
    <3>5. count \in Nat /\ store.capacity \in Nat /\ p.storage.capacity \in Nat
      BY <3>3, MemoryAssumption DEF Sound
    <3>6. \A i \in 0 .. index - 1 :
             SlotValue(r.heap, r.storage, i) = SlotValue(memory, store, i)
      BY <2>2, <2>6, <3>3, <3>4, <3>5 DEF Inserts
    <3>7. SlotValue(r.heap, r.storage, index) = e
      BY <2>6, <3>3, <3>4, <3>5 DEF Inserts
    <3>8. \A i \in index + 1 .. count :
             SlotValue(r.heap, r.storage, i) = SlotValue(memory, store, i - 1)
      BY <2>2, <2>6, <3>3, <3>4, <3>5 DEF Inserts
    <3>9. Inserts(memory, store, {}, count, index, e, r)
      BY <3>2, <3>3, <3>4, <3>6, <3>7, <3>8 DEF Inserts
    <3>10. CapacityFits(store, width, r)
      BY <2>6, <3>2 DEF CapacityFits
    <3>11. QED
      BY <3>1, <3>2, <3>9, <3>10 DEF e, InsertsOrFails
  <2>7. QED
    BY <2>4, <2>5, <2>6 DEF InsertsOrFails
<1>4. QED
  BY <1>2, <1>3

\* contiguousStorage_Insert, whatever the source aliases: it fails and changes
\* nothing, or inserts what the source held when the call was made.
LEMMA InsertLemma ==
    ASSUME NEW memory, NEW store, Sound(memory, store, {}),
           NEW count \in 0 .. SizeMax, count <= store.capacity,
           NEW index \in Nat, NEW width \in Nat,
           NEW element, Deref(memory, element) \in Cells,
           \/ element = NULL
           \/ contiguousStorage_ContainsAddress(store, element, width)
           \/ Steady(memory, {}, element, Deref(memory, element)),
           NEW r \in contiguousStorage_Insert(memory, store, count, index, element, width)
    PROVE  /\ InsertsOrFails(memory, store, {}, count, index, width,
                             Deref(memory, element), r)
           /\ r.ok => index <= count /\ element # NULL /\ width # 0
<1>1. CASE CannotInsert(store, count, index, element, width)
  BY <1>1 DEF contiguousStorage_Insert, Refused, InsertsOrFails, Outcome
<1>2. CASE ~ CannotInsert(store, count, index, element, width)
  <2>1. /\ element # NULL /\ width # 0 /\ count # SizeMax
        /\ index \in 0 .. count /\ index <= count
    BY <1>2, MemoryAssumption DEF CannotInsert
  <2>2. CASE contiguousStorage_ContainsAddress(store, element, width)
    <3>1. r \in PlaceCopied(memory, store, count, index, element, width)
      BY <1>2, <2>2 DEF contiguousStorage_Insert
    <3>2. QED
      BY <2>1, <3>1, PlaceCopiedLemma
  <2>3. CASE ~ contiguousStorage_ContainsAddress(store, element, width)
    <3>1. r \in PlaceElement(memory, store, count, index, element, width)
      BY <1>2, <2>3 DEF contiguousStorage_Insert
    <3>2. Steady(memory, {}, element, Deref(memory, element))
      BY <2>1, <2>3
    <3>3. QED
      BY <2>1, <3>1, <3>2, PlaceElementLemma
  <2>4. QED
    BY <2>2, <2>3
<1>3. QED
  BY <1>1, <1>2

\* The effect of an erasure at index among count elements.
Erases(memory, store, count, index, r) ==
    /\ r.ok = TRUE
    /\ r.storage = store
    /\ Sound(r.heap, store, {})
    /\ \A i \in 0 .. index - 1 :
          SlotValue(r.heap, store, i) = SlotValue(memory, store, i)
    /\ \A i \in index .. count - 2 :
          SlotValue(r.heap, store, i) = SlotValue(memory, store, i + 1)

\* contiguousStorage_Erase at an index in use never refuses and closes the gap.
LEMMA EraseLemma ==
    ASSUME NEW memory, NEW store, Sound(memory, store, {}),
           NEW count \in Nat, count <= store.capacity,
           NEW index \in 0 .. count - 1, NEW width \in Nat \ {0},
           NEW r, r = contiguousStorage_Erase(memory, store, count, index, width)
    PROVE  Erases(memory, store, count, index, r)
<1> DEFINE cells == memory[store.data]
           after == shiftElementsAfterIndexLeft(cells, count, index)
<1>1. store.capacity \in Nat /\ store.data # NULL /\ count \in 1 .. store.capacity
  BY MemoryAssumption DEF Sound
<1>2. r = Outcome(TRUE, Alloc(memory, store.data, after), store)
  <2>1. ~ (index >= count) /\ ~ (count > store.capacity) /\ count # 0
    BY <1>1
  <2>2. QED
    BY <1>1, <2>1 DEF contiguousStorage_Erase
<1>3. r.ok = TRUE /\ r.storage = store /\ r.heap = Alloc(memory, store.data, after)
  BY <1>2 DEF Outcome
<1>4. cells \in [0 .. store.capacity - 1 -> Cells]
  BY <1>1 DEF Sound
<1> HIDE DEF cells
<1>5. Closed(cells, after, store.capacity, count, index)
  BY <1>1, <1>4, ShiftLeftLemma
<1> HIDE DEF after
<1>6. Sound(r.heap, store, {}) /\ r.heap[store.data] = after
  BY <1>1, <1>3, <1>5, RewriteLemma DEF Closed
<1>7. /\ \A i \in 0 .. index - 1 :
            SlotValue(r.heap, store, i) = SlotValue(memory, store, i)
      /\ \A i \in index .. count - 2 :
            SlotValue(r.heap, store, i) = SlotValue(memory, store, i + 1)
  BY <1>5, <1>6 DEF SlotValue, cells, Closed
<1>8. QED
  BY <1>3, <1>6, <1>7 DEF Erases

-----------------------------------------------------------------------------
(* Creation and destruction.                                               *)

\* The block of a new storage, if malloc finds one.
LEMMA NewBlockLemma ==
    ASSUME NEW memory, Sound(memory, EmptyStorage, {}),
           NEW capacity \in 1 .. SizeMax, NEW cells \in [0 .. capacity - 1 -> Cells],
           NEW m \in Malloc(memory, cells), m.data # NULL
    PROVE  /\ Sound(m.heap, [data |-> m.data, capacity |-> capacity], {})
           /\ m.heap[m.data] = cells
<1>1. m.data \in Blocks \ DOMAIN memory /\ m.heap = Alloc(memory, m.data, cells)
  BY MallocLemma
<1>2. DOMAIN memory = {}
  BY DEF Sound, EmptyStorage
<1>3. m.heap[m.data] = cells /\ DOMAIN m.heap = {m.data}
  BY <1>1, <1>2 DEF Alloc
<1>4. m.heap = [b \in DOMAIN m.heap |-> m.heap[b]]
  BY <1>1 DEF Alloc
<1>5. Sound(m.heap, [data |-> m.data, capacity |-> capacity], {})
  BY <1>1, <1>3, <1>4, MemoryAssumption DEF Sound
<1>6. QED
  BY <1>3, <1>5

\* What creation leaves: nothing, or a sound storage whose first count slots
\* are the elements given.
Creates(memory, elements, count, width, r) ==
    \/ r = Outcome(FALSE, memory, EmptyStorage)
    \/ /\ r = Outcome(TRUE, r.heap, r.storage)
       /\ width > 0
       /\ Sound(r.heap, r.storage, {})
       /\ count <= r.storage.capacity
       /\ r.storage.capacity <= SizeMax \div width
       /\ \A i \in 0 .. count - 1 : SlotValue(r.heap, r.storage, i) = elements[i + 1]

LEMMA InitLemma ==
    ASSUME NEW memory, Sound(memory, EmptyStorage, {}), NEW width \in Nat, NEW elements,
           NEW r \in contiguousStorage_Init(memory, EmptyStorage, width)
    PROVE  Creates(memory, elements, 0, width, r)
<1> DEFINE refuses == width = 0 \/ InitialCapacity > SizeMax \div width
           cells == [i \in 0 .. InitialCapacity - 1 |-> Junk]
<1>1. CASE refuses
  BY <1>1 DEF contiguousStorage_Init, Refused, Creates
<1>2. CASE ~ refuses
  <2>1. PICK m \in Malloc(memory, cells) :
           r = IF m.data = NULL
               THEN Outcome(FALSE, memory, EmptyStorage)
               ELSE Outcome(TRUE, m.heap, [data |-> m.data, capacity |-> InitialCapacity])
    BY <1>2 DEF contiguousStorage_Init
  <2>2. CASE m.data = NULL
    BY <2>1, <2>2 DEF Creates
  <2>3. CASE m.data # NULL
    <3>1. cells \in [0 .. InitialCapacity - 1 -> Cells]
      BY DEF Cells
    <3> HIDE DEF cells
    <3>2. Sound(m.heap, [data |-> m.data, capacity |-> InitialCapacity], {})
      BY <2>3, <3>1, NewBlockLemma, InitialCapacityAssumption
    <3>3. r = Outcome(TRUE, m.heap, [data |-> m.data, capacity |-> InitialCapacity])
      BY <2>1, <2>3
    <3>4. r.heap = m.heap /\ r.storage = [data |-> m.data, capacity |-> InitialCapacity]
      BY <3>3 DEF Outcome
    <3>5. InitialCapacity \in Nat /\ InitialCapacity <= SizeMax \div width /\ width > 0
      BY <1>2, InitialCapacityAssumption, MemoryAssumption, QuotientLemma
    <3>6. r.storage.capacity = InitialCapacity
      BY <3>4
    <3>7. QED
      <4>1. \A i \in 0 .. 0 - 1 : SlotValue(r.heap, r.storage, i) = elements[i + 1]
        OBVIOUS
      <4>2. Sound(r.heap, r.storage, {})
        BY <3>2, <3>4
      <4>3. 0 <= r.storage.capacity
        BY <3>5, <3>6
      <4>4. QED
        BY <3>3, <3>4, <3>5, <3>6, <4>1, <4>2, <4>3 DEF Creates
  <2>4. QED
    BY <2>2, <2>3
<1>3. QED
  BY <1>1, <1>2

LEMMA InitFromLemma ==
    ASSUME NEW memory, Sound(memory, EmptyStorage, {}), NEW width \in Nat,
           NEW count \in 0 .. SizeMax,
           NEW elements, elements # NULL => \A i \in 1 .. count : elements[i] \in Elements,
           NEW r \in contiguousStorage_InitFrom(memory, EmptyStorage, elements, count, width)
    PROVE  /\ Creates(memory, elements, count, width, r)
           /\ r.ok => elements # NULL \/ count = 0
<1> DEFINE refuses == \/ width = 0
                      \/ elements = NULL /\ count > 0
                      \/ count > SizeMax \div width
           cells == [i \in 0 .. count - 1 |-> elements[i + 1]]
<1>0. count \in Nat /\ SizeMax \in Nat
  BY MemoryAssumption
<1>1. CASE refuses
  <2>1. r \in Refused(memory, EmptyStorage)
    BY <1>1 DEF contiguousStorage_InitFrom
  <2>2. QED
    BY <2>1 DEF Refused, Creates, Outcome
<1>2. CASE ~ refuses /\ count = 0
  <2>1. r = Outcome(TRUE, memory, EmptyStorage)
    BY <1>2 DEF contiguousStorage_InitFrom
  <2>2. r.heap = memory /\ r.storage = EmptyStorage
    BY <2>1 DEF Outcome
  <2>3. width > 0 /\ 0 <= SizeMax \div width
    BY <1>2, <1>0, QuotientLemma
  <2>4. r.storage.capacity = 0
    BY <2>2 DEF EmptyStorage
  <2>5. Sound(r.heap, r.storage, {})
    BY <2>2
  <2>6. \A i \in 0 .. count - 1 : SlotValue(r.heap, r.storage, i) = elements[i + 1]
    BY <1>2
  <2>7. r = Outcome(TRUE, r.heap, r.storage)
    BY <2>1, <2>2
  <2>8. count <= r.storage.capacity /\ r.storage.capacity <= SizeMax \div width
    BY <1>2, <2>3, <2>4
  <2> HIDE DEF refuses, cells
  <2>9. QED
    BY <1>2, <2>3, <2>5, <2>6, <2>7, <2>8 DEF Creates
<1>3. CASE ~ refuses /\ count # 0
  <2>1. PICK m \in Malloc(memory, cells) :
           r = IF m.data = NULL
               THEN Outcome(FALSE, memory, EmptyStorage)
               ELSE Outcome(TRUE, m.heap, [data |-> m.data, capacity |-> count])
    BY <1>3 DEF contiguousStorage_InitFrom
  <2>2. CASE m.data = NULL
    BY <2>1, <2>2 DEF Creates, Outcome
  <2>3. CASE m.data # NULL
    <3>1. cells \in [0 .. count - 1 -> Cells]
      BY <1>0, <1>3 DEF Cells
    <3>2. \A i \in 0 .. count - 1 : cells[i] = elements[i + 1]
      OBVIOUS
    <3> HIDE DEF cells
    <3>3. count \in 1 .. SizeMax
      BY <1>0, <1>3
    <3>4. /\ Sound(m.heap, [data |-> m.data, capacity |-> count], {})
          /\ m.heap[m.data] = cells
      BY <2>3, <3>1, <3>3, NewBlockLemma
    <3>5. r = Outcome(TRUE, m.heap, [data |-> m.data, capacity |-> count])
      BY <2>1, <2>3
    <3>6. r.heap = m.heap /\ r.storage = [data |-> m.data, capacity |-> count]
      BY <3>5 DEF Outcome
    <3>7. r.storage.capacity = count /\ r.storage.data = m.data
      BY <3>6
    <3>8. \A i \in 0 .. count - 1 : SlotValue(r.heap, r.storage, i) = elements[i + 1]
      BY <3>2, <3>4, <3>6, <3>7 DEF SlotValue
    <3>9. width > 0 /\ count <= SizeMax \div width
      BY <1>0, <1>3, QuotientLemma
    <3>10. r = Outcome(TRUE, r.heap, r.storage) /\ Sound(r.heap, r.storage, {})
      BY <3>4, <3>5, <3>6
    <3>11. count <= r.storage.capacity /\ r.storage.capacity <= SizeMax \div width
      BY <1>0, <3>7, <3>9
    <3>12. elements # NULL
      BY <1>0, <1>3
    <3> HIDE DEF refuses
    <3>13. QED
      BY <3>8, <3>9, <3>10, <3>11, <3>12 DEF Creates
  <2>4. QED
    BY <2>2, <2>3
<1>4. QED
  BY <1>1, <1>2, <1>3

\* contiguousStorage_Destroy leaves nothing allocated.
LEMMA DestroyLemma ==
    ASSUME NEW memory, NEW store, Sound(memory, store, {})
    PROVE  Sound(Free(memory, store.data), EmptyStorage, {})
BY MemoryAssumption DEF Sound, Free, Restrict, EmptyStorage

-----------------------------------------------------------------------------
(* The invariant.                                                          *)

\* The header, the storage and the heap fit together: what an operation may
\* rely on and has to re-establish.
Consistent(header, store, memory) ==
    /\ header \in ADT_Super_t(0 .. SizeMax)
    /\ Sound(memory, store, {})
    /\ header.size <= store.capacity
    /\ header.vtable # NULL => header.elementType.elementSize > 0
    /\ header.elementType.elementSize > 0 =>
          store.capacity <= SizeMax \div header.elementType.elementSize
    /\ header.vtable = NULL => header = ZeroSuper /\ store = EmptyStorage
    /\ \A i \in 0 .. header.size - 1 : SlotValue(memory, store, i) \in Elements

\* Every resource is accounted for.
Accounts == Accounted(elementType, caller, released, Contents)

Inv ==
    /\ Consistent(super, storage, heap)
    /\ caller \subseteq Elements
    /\ released \in [Elements -> Nat]
    /\ Accounts

\* A step that returns false changes nothing.
Atomic == ~ result'.ok => UNCHANGED <<container, caller, released>>

-----------------------------------------------------------------------------
(* The invariant implies the properties.                                   *)

LEMMA CapacityLemma ==
    ASSUME NEW header, NEW store, NEW memory, Consistent(header, store, memory)
    PROVE  /\ header.size \in Nat
           /\ header.elementType \in ElementTypeInfo
           /\ header.elementType.elementSize \in Nat
           /\ store.capacity \in Nat
           /\ store.capacity > 0 => store.data # NULL /\ store.data \in DOMAIN memory
           /\ store.capacity > 0 => header.elementType.elementSize > 0
<1>1. SizeMax \in Nat
  BY MemoryAssumption
<1>2. header.size \in Nat /\ header.elementType \in ElementTypeInfo
  BY <1>1 DEF Consistent, ADT_Super_t
<1>3. header.elementType.elementSize \in Nat
  BY <1>2 DEF ElementTypeInfo
<1>4. store.capacity \in Nat
  BY <1>1 DEF Consistent, Sound
<1>5. store.capacity > 0 => store.data # NULL /\ store.data \in DOMAIN memory
  BY <1>4 DEF Consistent, Sound
<1>6. store.capacity > 0 => header.elementType.elementSize > 0
  BY <1>4 DEF Consistent, EmptyStorage
<1>7. QED
  BY <1>2, <1>3, <1>4, <1>5, <1>6

\* The address of a slot the block has, and what a read through it gives.
LEMMA SlotLemma ==
    ASSUME NEW header, NEW store, NEW memory, Consistent(header, store, memory),
           NEW i \in Nat, i < store.capacity, NEW address,
           address = contiguousStorage_At(store, i, header.elementType.elementSize)
    PROVE  /\ address = Address(store.data, i)
           /\ address # NULL
           /\ store.data # Caller
           /\ Deref(memory, address) = SlotValue(memory, store, i)
<1>1. /\ store.capacity \in Nat
      /\ store.data # NULL /\ store.data \in DOMAIN memory
      /\ header.elementType.elementSize # 0
  BY CapacityLemma
<1>2. address = Address(store.data, i)
  BY <1>1 DEF contiguousStorage_At
<1>3. /\ store.data \in Blocks
      /\ memory[store.data] \in [0 .. store.capacity - 1 -> Cells]
      /\ store.capacity \in 0 .. SizeMax
  BY <1>1 DEF Consistent, Sound
<1>4. i \in 0 .. SizeMax /\ i \in DOMAIN memory[store.data]
  BY <1>1, <1>3, MemoryAssumption
<1>5. Address(store.data, i) # NULL /\ store.data # Caller
  BY <1>3, <1>4, MemoryAssumption DEF Address
<1>6. Address(store.data, i).block = store.data /\ Address(store.data, i).slot = i
  BY DEF Address
<1>7. Deref(memory, Address(store.data, i)) = memory[store.data][i]
  BY <1>1, <1>4, <1>5, <1>6 DEF Deref
<1>8. QED
  BY <1>2, <1>5, <1>7 DEF SlotValue

LEMMA CellLemma ==
    ASSUME Inv, NEW i \in Nat, i < storage.capacity
    PROVE  /\ ElementAt(i) = Address(storage.data, i)
           /\ ElementAt(i) # NULL
           /\ CellAt(i) = SlotValue(heap, storage, i)
BY SlotLemma DEF Inv, ElementAt, CellAt, elementSize, elementType

\* The sequence of the elements in use.
Values(header, store, memory) ==
    [i \in 1 .. header.size |-> SlotValue(memory, store, i - 1)]

LEMMA ValuesLemma ==
    ASSUME NEW header, NEW store, NEW memory, Consistent(header, store, memory), NEW s,
           s = [i \in 1 .. header.size |->
                   Deref(memory, contiguousStorage_At(store, i - 1,
                                                      header.elementType.elementSize))]
    PROVE  /\ s = Values(header, store, memory)
           /\ s \in Seq(Elements)
           /\ Len(s) = header.size
           /\ DOMAIN s = 1 .. header.size
<1>1. header.size \in Nat /\ store.capacity \in Nat /\ header.size <= store.capacity
  BY CapacityLemma DEF Consistent
<1>2. \A i \in 1 .. header.size :
         /\ s[i] = SlotValue(memory, store, i - 1)
         /\ s[i] \in Elements
  <2>1. TAKE i \in 1 .. header.size
  <2>2. i - 1 \in Nat /\ i - 1 < store.capacity /\ i - 1 \in 0 .. header.size - 1
    BY <1>1
  <2>3. s[i] = SlotValue(memory, store, i - 1)
    BY <2>2, SlotLemma
  <2>4. QED
    BY <2>2, <2>3 DEF Consistent
<1>3. DOMAIN s = 1 .. header.size /\ s = [i \in 1 .. header.size |-> s[i]]
  OBVIOUS
<1>4. s = Values(header, store, memory)
  BY <1>2, <1>3 DEF Values
<1>5. PICK n \in Nat : n = header.size
  BY <1>1
<1>6. s \in [1 .. n -> Elements]
  BY <1>2, <1>3, <1>5
<1>7. s \in Seq(Elements) /\ Len(s) = n
  BY <1>6, FunctionSeq
<1>8. QED
  BY <1>3, <1>4, <1>5, <1>7

LEMMA ContentsValues ==
    ASSUME Consistent(super, storage, heap)
    PROVE  /\ Contents = Values(super, storage, heap)
           /\ Contents \in Seq(Elements)
           /\ Len(Contents) = size
           /\ DOMAIN Contents = 1 .. size
BY ValuesLemma DEF Contents, CellAt, ElementAt, size, elementSize, elementType

LEMMA NextValues ==
    ASSUME Consistent(super', storage', heap')
    PROVE  /\ Contents' = Values(super', storage', heap')
           /\ Contents' \in Seq(Elements)
           /\ Len(Contents') = super'.size
BY ValuesLemma DEF Contents, CellAt, ElementAt, size, elementSize, elementType

\* The elements in use are elements.
LEMMA ContentsLemma ==
    ASSUME Inv
    PROVE  /\ \A i \in 0 .. size - 1 : CellAt(i) \in Elements
           /\ ContentsDefined
<1>1. size \in Nat /\ storage.capacity \in Nat /\ size <= storage.capacity
  BY CapacityLemma DEF Inv, Consistent, size
<1>2. \A i \in 0 .. size - 1 : CellAt(i) \in Elements
  <2>1. TAKE i \in 0 .. size - 1
  <2>2. i \in Nat /\ i < storage.capacity
    BY <1>1
  <2>3. CellAt(i) = SlotValue(heap, storage, i)
    BY <2>2, CellLemma
  <2>4. QED
    BY <2>3 DEF Inv, Consistent, size
<1>3. \A i \in 1 .. size : i - 1 \in 0 .. size - 1
  BY <1>1
<1>4. QED
  BY <1>2, <1>3 DEF ContentsDefined, Contents

LEMMA InvImplies == Inv => TypeOK /\ StorageConsistent /\ ContentsDefined /\ OwnedOnce
<1> SUFFICES ASSUME Inv
             PROVE  TypeOK /\ StorageConsistent /\ ContentsDefined /\ OwnedOnce
  OBVIOUS
<1>1. Consistent(super, storage, heap) /\ Sound(heap, storage, {})
  BY DEF Inv, Consistent
<1>2. TypeOK
  BY <1>1 DEF TypeOK, Inv, Consistent, Sound
<1>3. StorageConsistent
  BY <1>1 DEF StorageConsistent, Inconsistent, Consistent, Sound, EmptyStorage, Live,
              size, elementSize, elementType
<1>4. OwnedOnce
  BY DEF OwnedOnce, OneOwner, Inv, Accounts, Accounted, Times
<1>5. QED
  BY <1>2, <1>3, <1>4, ContentsLemma

-----------------------------------------------------------------------------
(* Initially, and when nothing happens.                                    *)

LEMMA InitInv == Init => Inv
<1> SUFFICES ASSUME Init
             PROVE  Inv
  OBVIOUS
<1>1. ZeroSuper \in ADT_Super_t(0 .. SizeMax)
  BY MemoryAssumption DEF ZeroSuper, ZeroType, ADT_Super_t, ElementTypeInfo
<1>2. Sound(EmptyHeap, EmptyStorage, {})
  BY MemoryAssumption DEF Sound, EmptyHeap, EmptyStorage
<1>3. /\ ZeroSuper.size = 0
      /\ ZeroSuper.vtable = NULL
      /\ ZeroSuper.elementType.elementSize = 0
      /\ EmptyStorage.capacity = 0
  BY DEF ZeroSuper, ZeroType, EmptyStorage
<1>4. Consistent(ZeroSuper, EmptyStorage, EmptyHeap)
  BY <1>1, <1>2, <1>3 DEF Consistent
<1>5. /\ super = ZeroSuper /\ storage = EmptyStorage /\ heap = EmptyHeap
      /\ caller = Elements /\ released = [e \in Elements |-> 0]
  BY DEF Init, OwnershipInit
<1>6. elementType.destroy = FALSE
  BY <1>5 DEF elementType, ZeroSuper, ZeroType
<1>7. Accounts
  <2>1. SUFFICES ASSUME NEW e \in Elements
                 PROVE  (IF e \in caller THEN 1 ELSE 0)
                        + (IF elementType.destroy THEN Times(Contents, e) ELSE 0)
                        + released[e] = 1
    BY DEF Accounts, Accounted
  <2>2. e \in caller /\ released[e] = 0
    BY <1>5
  <2>3. QED
    BY <1>6, <2>2
<1>8. QED
  BY <1>4, <1>5, <1>7 DEF Inv

LEMMA UnchangedInv ==
    ASSUME Inv, UNCHANGED <<container, caller, released>>
    PROVE  Inv' /\ Atomic /\ Idle(Contents, Contents')
<1>1. Idle(Contents, Contents') /\ Atomic
  BY DEF container, Idle, Contents, CellAt, ElementAt, size, elementSize, elementType, Live,
         Atomic
<1>2. Accounts'
  BY <1>1, IdleAccounted DEF Inv, Accounts
<1>3. QED
  BY <1>1, <1>2 DEF Inv, Consistent, container

LEMMA FailInv ==
    ASSUME Inv, NEW op, NEW index, NEW arg, Fail(op, index, arg)
    PROVE  Inv' /\ Atomic /\ Declined(op, index, arg, Contents, Contents')
BY UnchangedInv DEF Fail, Declined

-----------------------------------------------------------------------------
(* Ownership.                                                              *)

LEMMA ContentsDestroyed ==
    ASSUME Inv, NEW type
    PROVE  Destroyed(type, Contents) \in [Elements -> Nat]
<1>1. size \in Nat
  BY CapacityLemma DEF Inv, size
<1>2. IsFiniteSet(1 .. size)
  BY <1>1, FS_Interval
<1>3. DOMAIN Contents = 1 .. size
  BY DEF Contents
<1>4. QED
  BY <1>2, <1>3, DestroyedLemma DEF Inv

-----------------------------------------------------------------------------
(* The steps.                                                              *)

\* Each outcome of the creation of a storage is a failure, or holds the elements
\* of an array that the caller may pass.
Furnishes(outcomes, elements, count, taken, type) ==
    \A r \in outcomes :
       /\ Creates(heap, elements, count, type.elementSize, r)
       /\ r.ok => /\ elements \in Seq(Elements)
                  /\ Len(elements) = count
                  /\ OfferedArray(type, elements)
                  /\ taken = {elements[i] : i \in DOMAIN elements}

\* Init and InitFrom.
LEMMA CreateInv ==
    ASSUME Inv, NEW op, NEW vtable \in VTables, NEW count \in 0 .. SizeMax,
           NEW taken, NEW type \in ElementTypes, NEW outcomes, NEW elements,
           Furnishes(outcomes, elements, count, taken, type),
           Create(op, vtable, count, taken, type, outcomes)
    PROVE  /\ Inv' /\ Atomic
           /\ \/ ~ Live /\ Declined(op, count, NULL, Contents, Contents')
              \/ Created(op, type, Contents, Contents') /\ Len(Contents') = count
<1>0. count \in Nat /\ type \in ElementTypeInfo
  BY MemoryAssumption, ElementTypeAssumption
<1>1. ~ Live /\ storage = EmptyStorage /\ elementType = ZeroType
  BY DEF Create, Live, Inv, Consistent, elementType, ZeroSuper
<1>2. PICK r \in outcomes :
         /\ heap' = r.heap
         /\ result' = Called(op, count, NULL, r.ok, NoOutput)
         /\ IF r.ok
            THEN /\ super' = [vtable |-> vtable, size |-> count, elementType |-> type]
                 /\ storage' = r.storage
                 /\ caller' = HandedOver(type, taken)
            ELSE UNCHANGED <<super, storage, caller>>
  BY DEF Create
<1>3. released' = released
  BY DEF Create
<1>4. CASE r = Outcome(FALSE, heap, EmptyStorage)
  <2>1. UNCHANGED <<container, caller, released>>
    BY <1>2, <1>3, <1>4 DEF Outcome, container
  <2>2. result' = Called(op, count, NULL, FALSE, NoOutput)
    BY <1>2, <1>4 DEF Outcome
  <2>3. QED
    BY <1>1, <2>1, <2>2, UnchangedInv DEF Declined
<1>5. CASE /\ r = Outcome(TRUE, r.heap, r.storage)
           /\ type.elementSize > 0
           /\ Sound(r.heap, r.storage, {})
           /\ count <= r.storage.capacity
           /\ r.storage.capacity <= SizeMax \div type.elementSize
           /\ \A i \in 0 .. count - 1 :
                 SlotValue(r.heap, r.storage, i) = elements[i + 1]
  <2>1. r.ok = TRUE
    BY <1>5 DEF Outcome
  <2>2. /\ super' = [vtable |-> vtable, size |-> count, elementType |-> type]
        /\ storage' = r.storage
        /\ caller' = HandedOver(type, taken)
        /\ heap' = r.heap
        /\ result' = Called(op, count, NULL, TRUE, NoOutput)
    BY <1>2, <2>1
  <2>3. /\ super' \in ADT_Super_t(0 .. SizeMax)
        /\ super'.size = count
        /\ super'.elementType = type
        /\ super'.vtable # NULL
    BY <1>0, <2>2, VTablesAssumption DEF ADT_Super_t
  <2>4. \A i \in 0 .. count - 1 : SlotValue(heap', storage', i) \in Elements
    <3>1. \A i \in 0 .. count - 1 : i + 1 \in 1 .. count
      BY <1>0
    <3>2. \A i \in 1 .. count : elements[i] \in Elements
      <4>1. elements \in Seq(Elements) /\ Len(elements) = count
        BY <2>1 DEF Furnishes
      <4>2. QED
        BY <4>1
    <3>3. QED
      BY <1>5, <2>2, <3>1, <3>2
  <2>5. Consistent(super', storage', heap')
    BY <1>5, <2>2, <2>3, <2>4 DEF Consistent
  <2>6. caller' \subseteq Elements
    BY <2>2 DEF Inv, HandedOver
  <2>7. Contents' = elements
    <3>1. /\ elements \in Seq(Elements) /\ Len(elements) = count
          /\ Contents' = Values(super', storage', heap')
          /\ Contents' \in Seq(Elements) /\ Len(Contents') = count
      BY <2>1, <2>3, <2>5, NextValues DEF Furnishes
    <3>2. \A i \in 1 .. count : Contents'[i] = elements[i]
      <4>1. TAKE i \in 1 .. count
      <4>2. i - 1 \in 0 .. count - 1 /\ (i - 1) + 1 = i
        BY <1>0
      <4>3. SlotValue(heap', storage', i - 1) = elements[i]
        BY <1>5, <2>2, <4>2
      <4>4. QED
        BY <2>3, <3>1, <4>3 DEF Values
    <3>3. QED
      BY <3>1, <3>2, SeqEqual
  <2>8. Created(op, type, Contents, Contents') /\ Len(Contents') = count
    <3>1. /\ elements \in Seq(Elements) /\ Len(elements) = count
          /\ OfferedArray(type, elements)
          /\ taken = {elements[i] : i \in DOMAIN elements}
      BY <2>1 DEF Furnishes
    <3>2. Live' = TRUE /\ elementType' = type
      BY <2>3 DEF Live, elementType
    <3>3. QED
      BY <1>1, <1>3, <1>5, <2>2, <2>7, <3>1, <3>2 DEF Created
  <2>9. Accounts'
    BY <2>8, CreatedAccounted DEF Inv, Accounts
  <2>10. QED
    BY <1>3, <2>2, <2>5, <2>6, <2>8, <2>9 DEF Inv, Atomic, Called
<1>6. Creates(heap, elements, count, type.elementSize, r)
  BY DEF Furnishes
<1>7. QED
  BY <1>4, <1>5, <1>6 DEF Creates

\* What the source of an insertion holds when the call is made.
LEMMA SourceLemma ==
    ASSUME Inv, NEW element \in Sources
    PROVE  /\ Meant(element) \in Offered(elementType) \cup {NULL}
           /\ Deref(heap, element) \in Cells
           /\ element # NULL => /\ Meant(element) = Deref(heap, element)
                                /\ Meant(element) \in Elements
           /\ \/ element = NULL
              \/ contiguousStorage_ContainsAddress(storage, element, elementSize)
              \/ Steady(heap, {}, element, Deref(heap, element))
<1>0. CASE element = NULL
  BY <1>0 DEF Meant, MeantIn, Deref, Cells
<1>1. CASE \E e \in Offered(elementType) : element = Variable(e)
  <2>1. PICK e \in Offered(elementType) : element = Variable(e)
    BY <1>1
  <2>2. /\ e \in Elements
        /\ element # NULL /\ element.block = Caller /\ element.slot = e
    BY <2>1, MemoryAssumption DEF Variable, Address, Offered, Inv
  <2>3. \A h : Deref(h, element) = e
    BY <2>2 DEF Deref
  <2>4. QED
    BY <2>2, <2>3 DEF Meant, MeantIn, Cells, Steady
<1>2. CASE element \in Slots /\ ~ elementType.destroy
  <2>0. /\ size \in Nat /\ storage.capacity \in Nat /\ size <= storage.capacity
        /\ elementSize \in Nat
        /\ storage.capacity > 0 => storage.data # NULL /\ elementSize > 0
        /\ elementSize > 0 => storage.capacity <= SizeMax \div elementSize
    BY CapacityLemma DEF Inv, Consistent, size, elementSize, elementType
  <2>1. PICK i \in 0 .. size - 1 : element = ElementAt(i)
    BY <1>2 DEF Slots
  <2>2. i \in Nat /\ i < storage.capacity /\ storage.capacity > 0
    BY <2>0
  <2>3. /\ element = Address(storage.data, i)
        /\ element # NULL
    BY <2>1, <2>2, CellLemma
  <2>4. Deref(heap, element) \in Elements
    BY <2>1, ContentsLemma DEF CellAt
  <2>5. element.block = storage.data /\ element.slot = i
    BY <2>3 DEF Address
  <2>6. contiguousStorage_ContainsAddress(storage, element, elementSize)
    BY <2>0, <2>2, <2>3, <2>5 DEF contiguousStorage_ContainsAddress
  <2>7. ~ elementType.destroy
    BY <1>2
  <2>8. QED
    BY <2>3, <2>4, <2>6, <2>7 DEF Meant, MeantIn, Cells, Offered
<1>3. Offered(elementType) \subseteq Elements
  BY DEF Offered, Inv
<1>4. QED
  BY <1>0, <1>1, <1>2, <1>3 DEF Sources, SourcesAmong

\* An address inside the block is no use for an output, the caller's variable is.
LEMMA OutputLemma ==
    ASSUME Inv, NEW outElement \in Outputs
    PROVE  /\ Usable(outElement) \in {"usable", "unusable"}
           /\ Usable(outElement) = "usable" <=> outElement = CallerVariable
           /\ outElement = CallerVariable <=>
                 /\ outElement # NULL
                 /\ ~ contiguousStorage_ContainsAddress(storage, outElement, elementSize)
<1>0. /\ CallerVariable # NULL
      /\ CallerVariable.block = Caller
      /\ storage.data # Caller
  BY MemoryAssumption DEF CallerVariable, Address, Inv, Consistent, Sound
<1>1. CASE outElement = NULL
  BY <1>0, <1>1 DEF Usable
<1>2. CASE outElement = CallerVariable
  BY <1>0, <1>2 DEF contiguousStorage_ContainsAddress, Usable
<1>3. CASE outElement \in Slots
  <2>0. /\ size \in Nat /\ storage.capacity \in Nat /\ size <= storage.capacity
        /\ elementSize \in Nat
        /\ storage.capacity > 0 => storage.data # NULL /\ elementSize > 0
        /\ elementSize > 0 => storage.capacity <= SizeMax \div elementSize
    BY CapacityLemma DEF Inv, Consistent, size, elementSize, elementType
  <2>1. PICK i \in 0 .. size - 1 : outElement = ElementAt(i)
    BY <1>3 DEF Slots
  <2>2. i \in Nat /\ i < storage.capacity /\ storage.capacity > 0
    BY <2>0
  <2>3. outElement = Address(storage.data, i) /\ outElement # NULL
    BY <2>1, <2>2, CellLemma
  <2>4. outElement.block = storage.data /\ outElement.slot = i
    BY <2>3 DEF Address
  <2>5. contiguousStorage_ContainsAddress(storage, outElement, elementSize)
    BY <2>0, <2>2, <2>3, <2>4 DEF contiguousStorage_ContainsAddress
  <2>6. outElement # CallerVariable
    BY <1>0, <2>4
  <2>7. QED
    BY <2>3, <2>5, <2>6 DEF Usable
<1>4. QED
  BY <1>1, <1>2, <1>3 DEF Outputs, OutputsAmong

LEMMA InsertInv ==
    ASSUME Inv, NEW op, NEW index \in Nat, NEW element \in Sources,
           InsertAtIndex(op, index, element)
    PROVE  /\ Inv' /\ Atomic
           /\ \/ Declined(op, index, Meant(element), Contents, Contents')
              \/ StoredAt(op, index, Meant(element), Contents, Contents')
<1> DEFINE e == Deref(heap, element)
<1>0. /\ Consistent(super, storage, heap)
      /\ Sound(heap, storage, {})
      /\ SizeMax \in Nat
      /\ size \in 0 .. SizeMax
      /\ size <= storage.capacity
      /\ elementSize \in Nat
      /\ storage.capacity \in 0 .. SizeMax
  BY CapacityLemma, MemoryAssumption
  DEF Inv, Consistent, Sound, size, elementSize, elementType, ADT_Super_t
<1>1. PICK r \in contiguousStorage_Insert(heap, storage, size, index, element, elementSize) :
         /\ heap' = r.heap
         /\ storage' = r.storage
         /\ result' = Called(op, index, Meant(element), r.ok, NoOutput)
         /\ IF r.ok
            THEN super' = Grown /\ caller' = HandedOver(elementType, {Meant(element)})
            ELSE UNCHANGED <<super, caller>>
  BY DEF InsertAtIndex
<1>2. released' = released
  BY DEF InsertAtIndex
<1>3. /\ InsertsOrFails(heap, storage, {}, size, index, elementSize, e, r)
      /\ r.ok => index <= size /\ element # NULL /\ elementSize # 0
  BY <1>0, SourceLemma, InsertLemma
<1>4. CASE r = Outcome(FALSE, heap, storage)
  <2>1. UNCHANGED <<container, caller, released>>
    BY <1>1, <1>2, <1>4 DEF Outcome, container
  <2>2. result' = Called(op, index, Meant(element), FALSE, NoOutput)
    BY <1>1, <1>4 DEF Outcome
  <2>3. QED
    BY <2>1, <2>2, UnchangedInv DEF Declined
<1>5. CASE /\ r = Outcome(TRUE, r.heap, r.storage)
           /\ CapacityFits(storage, elementSize, r)
           /\ Inserts(heap, storage, {}, size, index, e, r)
  <2>1. r.ok = TRUE /\ index \in 0 .. size /\ element # NULL /\ elementSize # 0
    BY <1>0, <1>3, <1>5 DEF Outcome
  <2>2. /\ super' = Grown
        /\ storage' = r.storage
        /\ heap' = r.heap
        /\ caller' = HandedOver(elementType, {Meant(element)})
        /\ result' = Called(op, index, Meant(element), TRUE, NoOutput)
    BY <1>1, <2>1
  <2>3. /\ Sound(heap', storage', {})
        /\ storage'.capacity \in 0 .. SizeMax
        /\ size + 1 <= storage'.capacity
    BY <1>5, <2>2 DEF Inserts, Sound
  <2>4. size + 1 \in 0 .. SizeMax
    BY <1>0, <2>3
  <2>5. /\ super' \in ADT_Super_t(0 .. SizeMax)
        /\ super'.size = size + 1
        /\ super'.vtable = super.vtable
        /\ super'.elementType = super.elementType
    BY <1>0, <2>2, <2>4, ResizedLemma DEF Grown, size, Consistent
  <2>6. super.elementType.elementSize > 0 =>
           storage'.capacity <= SizeMax \div super.elementType.elementSize
    BY <1>0, <1>5, <2>2 DEF CapacityFits, Consistent, elementSize, elementType
  <2>7. super'.vtable # NULL
    BY <1>0, <2>1, <2>5 DEF Consistent, ZeroSuper, ZeroType, elementSize, elementType
  <2>8. \A i \in 0 .. super'.size - 1 : SlotValue(heap', storage', i) \in Elements
    <3>1. TAKE i \in 0 .. super'.size - 1
    <3>2. i \in 0 .. size
      BY <1>0, <2>5
    <3>3. \A j \in 0 .. size - 1 : SlotValue(heap, storage, j) \in Elements
      BY <1>0 DEF Consistent, size
    <3>4. CASE i \in 0 .. index - 1
      <4>1. SlotValue(heap', storage', i) = SlotValue(heap, storage, i)
        BY <1>5, <2>2, <3>4 DEF Inserts
      <4>2. i \in 0 .. size - 1
        BY <1>0, <2>1, <3>4
      <4>3. QED
        BY <3>3, <4>1, <4>2
    <3>5. CASE i = index
      <4>1. SlotValue(heap', storage', i) = e
        BY <1>5, <2>2, <3>5 DEF Inserts
      <4>2. QED
        BY <2>1, <4>1, SourceLemma
    <3>6. CASE i \in index + 1 .. size
      <4>1. SlotValue(heap', storage', i) = SlotValue(heap, storage, i - 1)
        BY <1>5, <2>2, <3>6 DEF Inserts
      <4>2. i - 1 \in 0 .. size - 1
        BY <1>0, <2>1, <3>6
      <4>3. QED
        BY <3>3, <4>1, <4>2
    <3>7. QED
      BY <1>0, <2>1, <3>2, <3>4, <3>5, <3>6
  <2>9. Consistent(super', storage', heap')
    BY <1>0, <2>3, <2>5, <2>6, <2>7, <2>8 DEF Consistent
  <2>10. caller' \subseteq Elements
    BY <2>2 DEF Inv, HandedOver
  <2>11. Contents' = Inserted(Contents, index + 1, Meant(element))
    <3>1. /\ Contents = Values(super, storage, heap) /\ Len(Contents) = size
          /\ Contents' = Values(super', storage', heap')
      BY <1>0, <2>9, ContentsValues, NextValues
    <3>2. \A i \in 1 .. size : Contents[i] = SlotValue(heap, storage, i - 1)
      BY <3>1 DEF Values, size
    <3>3. \A i \in 1 .. size + 1 :
             SlotValue(heap', storage', i - 1)
             = IF i < index + 1 THEN Contents[i]
               ELSE IF i = index + 1 THEN Meant(element) ELSE Contents[i - 1]
      <4>1. TAKE i \in 1 .. size + 1
      <4>2. CASE i < index + 1
        <5>1. i - 1 \in 0 .. index - 1 /\ i \in 1 .. size
          BY <1>0, <2>1, <4>2
        <5>2. QED
          BY <1>5, <2>2, <3>2, <4>2, <5>1 DEF Inserts
      <4>3. CASE i = index + 1
        <5>1. i - 1 = index
          BY <1>0, <2>1, <4>3
        <5>2. QED
          BY <1>5, <2>1, <2>2, <4>3, <5>1, SourceLemma DEF Inserts
      <4>4. CASE i > index + 1
        <5>1. i - 1 \in index + 1 .. size /\ i - 1 \in 1 .. size
          BY <1>0, <2>1, <4>4
        <5>2. SlotValue(heap', storage', i - 1) = SlotValue(heap, storage, (i - 1) - 1)
          BY <1>5, <2>2, <5>1 DEF Inserts
        <5>3. ~ (i < index + 1) /\ i # index + 1
          BY <1>0, <2>1, <4>4
        <5>4. QED
          BY <3>2, <5>1, <5>2, <5>3
      <4>5. QED
        BY <1>0, <2>1, <4>2, <4>3, <4>4
    <3>4. QED
      BY <2>5, <3>1, <3>3 DEF Values, Inserted
  <2>12. StoredAt(op, index, Meant(element), Contents, Contents')
    <3>1. Live /\ Live' = Live /\ elementType' = elementType
      BY <2>5, <2>7 DEF Live, elementType
    <3>2. Meant(element) \in Offered(elementType) /\ Len(Contents) = size
      <4>1. Meant(element) # NULL
        BY <2>1, SourceLemma, ElementTypeAssumption
      <4>2. QED
        BY <1>0, <4>1, SourceLemma, ContentsValues
    <3>3. QED
      BY <1>2, <2>1, <2>2, <2>11, <3>1, <3>2 DEF StoredAt
  <2>13. Accounts'
    BY <1>0, <2>12, StoredAccounted, ContentsValues DEF Inv, Accounts
  <2>14. QED
    BY <1>2, <2>2, <2>9, <2>10, <2>12, <2>13 DEF Inv, Atomic, Called
<1>6. QED
  BY <1>3, <1>4, <1>5 DEF InsertsOrFails

\* Erasing an element in use: the erasure succeeds and keeps what is left.
LEMMA ErasedLemma ==
    ASSUME Inv, NEW index \in 0 .. size - 1, NEW r,
           r = contiguousStorage_Erase(heap, storage, size, index, elementSize)
    PROVE  /\ r.ok = TRUE
           /\ Consistent(Shrunk, r.storage, r.heap)
           /\ Shrunk.vtable = super.vtable /\ Shrunk.elementType = super.elementType
           /\ Values(Shrunk, r.storage, r.heap) = Removed(Contents, index + 1)
           /\ CellAt(index) = Contents[index + 1]
<1>0. /\ Consistent(super, storage, heap)
      /\ Sound(heap, storage, {})
      /\ SizeMax \in Nat
      /\ size \in 0 .. SizeMax
      /\ size \in Nat
      /\ size <= storage.capacity
      /\ storage.capacity \in Nat
      /\ storage.capacity > 0 => elementSize > 0
      /\ elementSize \in Nat
  BY CapacityLemma, MemoryAssumption
  DEF Inv, Consistent, Sound, size, elementSize, elementType, ADT_Super_t
<1>1. elementSize \in Nat \ {0}
  BY <1>0
<1>2. Erases(heap, storage, size, index, r)
  BY <1>0, <1>1, EraseLemma
<1>3. size - 1 \in 0 .. SizeMax
  BY <1>0
<1>4. /\ Shrunk \in ADT_Super_t(0 .. SizeMax)
      /\ Shrunk.size = size - 1
      /\ Shrunk.vtable = super.vtable
      /\ Shrunk.elementType = super.elementType
  BY <1>0, <1>3, ResizedLemma DEF Shrunk, size, Consistent
<1>5. super.vtable # NULL
  BY <1>0, <1>1 DEF Consistent, ZeroSuper, ZeroType, elementSize, elementType
<1>6. \A i \in 0 .. Shrunk.size - 1 : SlotValue(r.heap, r.storage, i) \in Elements
  <2>1. TAKE i \in 0 .. Shrunk.size - 1
  <2>2. \A j \in 0 .. size - 1 : SlotValue(heap, storage, j) \in Elements
    BY <1>0 DEF Consistent, size
  <2>3. CASE i < index
    BY <1>0, <1>2, <1>4, <2>2, <2>3 DEF Erases
  <2>4. CASE i >= index
    <3>1. i \in index .. size - 2 /\ i + 1 \in 0 .. size - 1
      BY <1>0, <1>4, <2>4
    <3>2. QED
      BY <1>2, <2>2, <3>1 DEF Erases
  <2>5. QED
    BY <1>0, <1>4, <2>3, <2>4
<1>7. Shrunk.size <= storage.capacity
  BY <1>0, <1>4
<1>8. Consistent(Shrunk, r.storage, r.heap)
  BY <1>0, <1>2, <1>4, <1>5, <1>6, <1>7 DEF Consistent, Erases
<1>9. /\ Len(Contents) = size
      /\ \A i \in 1 .. size : Contents[i] = SlotValue(heap, storage, i - 1)
  BY <1>0, ContentsValues DEF Values, size
<1>10. \A i \in 1 .. size - 1 :
          SlotValue(r.heap, r.storage, i - 1)
          = IF i < index + 1 THEN Contents[i] ELSE Contents[i + 1]
  <2>1. TAKE i \in 1 .. size - 1
  <2>2. CASE i < index + 1
    <3>1. i - 1 \in 0 .. index - 1 /\ i \in 1 .. size
      BY <1>0, <2>2
    <3>2. QED
      BY <1>2, <1>9, <2>2, <3>1 DEF Erases
  <2>3. CASE ~ (i < index + 1)
    <3>1. i - 1 \in index .. size - 2 /\ i + 1 \in 1 .. size
      BY <1>0, <2>3
    <3>2. SlotValue(r.heap, r.storage, i - 1) = SlotValue(heap, storage, (i - 1) + 1)
      BY <1>2, <3>1 DEF Erases
    <3>3. (i - 1) + 1 = (i + 1) - 1
      BY <1>0
    <3>4. QED
      BY <1>9, <2>3, <3>1, <3>2, <3>3
  <2>4. QED
    BY <2>2, <2>3
<1>11. Values(Shrunk, r.storage, r.heap) = Removed(Contents, index + 1)
  BY <1>4, <1>9, <1>10 DEF Values, Removed
<1>12. CellAt(index) = Contents[index + 1]
  BY <1>0 DEF Contents
<1>13. QED
  BY <1>2, <1>4, <1>8, <1>11, <1>12 DEF Erases

LEMMA RemoveInv ==
    ASSUME Inv, NEW op, NEW index \in 0 .. size - 1, RemoveAtIndex(op, index)
    PROVE  Inv' /\ Atomic /\ DeletedFrom(op, index, Contents, Contents')
<1> DEFINE r == contiguousStorage_Erase(heap, storage, size, index, elementSize)
<1>1. /\ r.ok = TRUE
      /\ Consistent(Shrunk, r.storage, r.heap)
      /\ Shrunk.vtable = super.vtable /\ Shrunk.elementType = super.elementType
      /\ Values(Shrunk, r.storage, r.heap) = Removed(Contents, index + 1)
      /\ CellAt(index) = Contents[index + 1]
  BY ErasedLemma
<1>2. /\ super' = IF r.ok THEN Shrunk ELSE super
      /\ storage' = r.storage
      /\ heap' = r.heap
      /\ released' = Destroyed(elementType, <<CellAt(index)>>)
      /\ result' = Called(op, index, NULL, r.ok, NoOutput)
      /\ caller' = caller
  BY DEF RemoveAtIndex
<1> HIDE DEF r
<1>3. Consistent(super', storage', heap')
  BY <1>1, <1>2
<1>4. released' \in [Elements -> Nat]
  BY <1>2, OneDestroyed DEF Inv
<1>5. Contents' = Removed(Contents, index + 1)
  BY <1>1, <1>2, <1>3, NextValues
<1>6. Contents \in Seq(Elements) /\ Len(Contents) = size
  BY ContentsValues DEF Inv
<1>7. DeletedFrom(op, index, Contents, Contents')
  BY <1>1, <1>2, <1>5, <1>6 DEF DeletedFrom, Live, elementType
<1>8. Accounts'
  BY <1>6, <1>7, DeletedAccounted DEF Inv, Accounts
<1>9. QED
  BY <1>1, <1>2, <1>3, <1>4, <1>7, <1>8 DEF Inv, Atomic, Called

LEMMA TakeInv ==
    ASSUME Inv, NEW op, NEW index \in 0 .. size - 1, NEW outElement,
           TakeAtIndex(op, index, outElement)
    PROVE  /\ Inv' /\ Atomic
           /\ TakenFrom(op, index, Usable(outElement), Contents, Contents')
<1> DEFINE r == contiguousStorage_Erase(heap, storage, size, index, elementSize)
<1>1. /\ r.ok = TRUE
      /\ Consistent(Shrunk, r.storage, r.heap)
      /\ Shrunk.vtable = super.vtable /\ Shrunk.elementType = super.elementType
      /\ Values(Shrunk, r.storage, r.heap) = Removed(Contents, index + 1)
      /\ CellAt(index) = Contents[index + 1]
  BY ErasedLemma
<1>2. /\ super' = IF r.ok THEN Shrunk ELSE super
      /\ storage' = r.storage
      /\ heap' = r.heap
      /\ result' = Called(op, index, Usable(outElement), r.ok,
                          IF r.ok THEN CellAt(index) ELSE NoOutput)
      /\ caller' = HandedBack(elementType, CellAt(index))
      /\ released' = released
  BY DEF TakeAtIndex
<1> HIDE DEF r
<1>3. Consistent(super', storage', heap')
  BY <1>1, <1>2
<1>4. caller' \subseteq Elements
  BY <1>2, ContentsLemma DEF Inv, HandedBack
<1>5. Contents' = Removed(Contents, index + 1)
  BY <1>1, <1>2, <1>3, NextValues
<1>6. Contents \in Seq(Elements) /\ Len(Contents) = size
  BY ContentsValues DEF Inv
<1>7. TakenFrom(op, index, Usable(outElement), Contents, Contents')
  BY <1>1, <1>2, <1>5, <1>6 DEF TakenFrom, Live, elementType
<1>8. Accounts'
  BY <1>6, <1>7, TakenAccounted DEF Inv, Accounts
<1>9. QED
  BY <1>1, <1>2, <1>3, <1>4, <1>7, <1>8 DEF Inv, Atomic, Called

\* No element is in use any more.
LEMMA VacatedInv ==
    ASSUME Inv, NEW op, Consistent(super', storage', heap'), super'.size = 0,
           result' = Called(op, 0, NULL, TRUE, NoOutput),
           released' = Destroyed(elementType, Contents),
           \/ op = "Clear" /\ UNCHANGED <<Live, elementType>>
           \/ op = "Destroy" /\ Live' = FALSE /\ elementType' = ZeroType,
           UNCHANGED caller
    PROVE  Inv' /\ Atomic /\ Vacated(op, Contents, Contents')
<1>1. Contents' = <<>>
  <2>1. Contents' \in Seq(Elements) /\ Len(Contents') = 0
    BY NextValues
  <2>2. QED
    BY <2>1, EmptySeq
<1>2. Vacated(op, Contents, Contents')
  BY <1>1 DEF Vacated
<1>3. Accounts'
  BY <1>2, VacatedAccounted, ContentsValues DEF Inv, Accounts
<1>4. QED
  BY <1>2, <1>3, ContentsDestroyed DEF Inv, Atomic, Called

LEMMA EmptyInv ==
    ASSUME Inv, Empty
    PROVE  Inv' /\ Atomic /\ Vacated("Clear", Contents, Contents')
<1>0. SizeMax \in Nat /\ 0 \in 0 .. SizeMax
  BY MemoryAssumption
<1>1. /\ super' = [super EXCEPT !.size = 0]
      /\ UNCHANGED <<storage, heap, caller>>
      /\ released' = Destroyed(elementType, Contents)
      /\ result' = Called("Clear", 0, NULL, TRUE, NoOutput)
  BY DEF Empty, Succeed
<1>2. /\ super' \in ADT_Super_t(0 .. SizeMax)
      /\ super'.size = 0
      /\ super'.vtable = super.vtable
      /\ super'.elementType = super.elementType
  BY <1>0, <1>1, ResizedLemma DEF Inv, Consistent
<1>3. Consistent(super, storage, heap)
  BY DEF Inv
<1>4. super'.vtable = NULL => super' = ZeroSuper
  BY <1>1, <1>2, <1>3 DEF Consistent, ZeroSuper
<1>5. storage.capacity \in Nat
  BY <1>3, CapacityLemma
<1>6. Consistent(super', storage', heap')
  BY <1>1, <1>2, <1>3, <1>4, <1>5 DEF Consistent
<1>7. UNCHANGED <<Live, elementType>>
  BY <1>2 DEF Live, elementType
<1>8. QED
  BY <1>1, <1>2, <1>6, <1>7, VacatedInv

LEMMA TearDownInv ==
    ASSUME Inv, TearDown
    PROVE  Inv' /\ Atomic /\ Vacated("Destroy", Contents, Contents')
<1>1. /\ super' = ZeroSuper
      /\ storage' = EmptyStorage
      /\ heap' = Free(heap, storage.data)
      /\ released' = Destroyed(elementType, Contents)
      /\ caller' = caller
      /\ result' = Called("Destroy", 0, NULL, TRUE, NoOutput)
  BY DEF TearDown, contiguousStorage_Destroy, Outcome, Succeed
<1>2. Sound(heap', storage', {})
  BY <1>1, DestroyLemma DEF Inv, Consistent
<1>3. ZeroSuper \in ADT_Super_t(0 .. SizeMax)
  BY MemoryAssumption DEF ZeroSuper, ZeroType, ADT_Super_t, ElementTypeInfo
<1>4. /\ ZeroSuper.size = 0
      /\ ZeroSuper.vtable = NULL
      /\ ZeroSuper.elementType = ZeroType
      /\ ZeroSuper.elementType.elementSize = 0
      /\ EmptyStorage.capacity = 0
  BY DEF ZeroSuper, ZeroType, EmptyStorage
<1>5. Consistent(super', storage', heap')
  BY <1>1, <1>2, <1>3, <1>4 DEF Consistent
<1>6. Live' = FALSE /\ elementType' = ZeroType
  BY <1>1, <1>4 DEF Live, elementType
<1>7. QED
  BY <1>1, <1>4, <1>5, <1>6, VacatedInv

\* The caller's own step.
LEMMA AcquireInv ==
    ASSUME Inv, NEW e \in Elements, Acquire(e), UNCHANGED container
    PROVE  /\ Inv' /\ Atomic
           /\ UNCHANGED <<Live, elementType, Contents>>
<1>1. UNCHANGED <<super, storage, heap>>
  BY DEF container
<1>2. Consistent(super', storage', heap')
  BY <1>1 DEF Inv
<1>3. UNCHANGED <<Live, elementType, Contents>>
  BY <1>1 DEF Live, elementType, Contents, size, CellAt, ElementAt, elementSize
<1>4. Accounts'
  BY <1>3, AcquireAccounted, ContentsValues DEF Inv, Accounts
<1>5. QED
  BY <1>2, <1>3, <1>4 DEF Inv, Acquire, Atomic, Called

-----------------------------------------------------------------------------
(* Creation, as both containers call it.                                   *)

LEMMA InitStorageInv ==
    ASSUME Inv, NEW op, NEW vtable \in VTables, NEW type \in ElementTypes,
           Create(op, vtable, 0, {}, type,
                  contiguousStorage_Init(heap, EmptyStorage, type.elementSize))
    PROVE  /\ Inv' /\ Atomic
           /\ \/ ~ Live /\ Declined(op, 0, NULL, Contents, Contents')
              \/ Created(op, type, Contents, Contents') /\ Len(Contents') = 0
<1> DEFINE outcomes == contiguousStorage_Init(heap, EmptyStorage, type.elementSize)
<1>1. Sound(heap, EmptyStorage, {})
  BY DEF Create, Live, Inv, Consistent
<1>2. type.elementSize \in Nat
  BY ElementTypeAssumption DEF ElementTypeInfo
<1>3. /\ <<>> \in Seq(Elements) /\ Len(<<>>) = 0
      /\ OfferedArray(type, <<>>)
      /\ {} = {<<>>[i] : i \in DOMAIN <<>>}
  BY DEF OfferedArray
<1>4. Furnishes(outcomes, <<>>, 0, {}, type)
  BY <1>1, <1>2, <1>3, InitLemma DEF Furnishes
<1>5. Create(op, vtable, 0, {}, type, outcomes) /\ 0 \in 0 .. SizeMax
  BY MemoryAssumption
<1> HIDE DEF outcomes
<1>6. QED
  BY <1>4, <1>5, CreateInv

LEMMA InitFromStorageInv ==
    ASSUME Inv, NEW op, NEW vtable \in VTables, NEW type \in ElementTypes,
           NEW count \in 0 .. SizeMax, NEW taken,
           NEW elements,
           \/ elements = NULL /\ count # 0
           \/ /\ elements \in Seq(Elements) /\ Len(elements) = count
              /\ OfferedArray(type, elements)
              /\ taken = {elements[i] : i \in DOMAIN elements},
           Create(op, vtable, count, taken, type,
                  contiguousStorage_InitFrom(heap, EmptyStorage, elements, count,
                                             type.elementSize))
    PROVE  /\ Inv' /\ Atomic
           /\ \/ ~ Live /\ Declined(op, count, NULL, Contents, Contents')
              \/ Created(op, type, Contents, Contents') /\ Len(Contents') = count
<1> DEFINE outcomes == contiguousStorage_InitFrom(heap, EmptyStorage, elements, count,
                                                  type.elementSize)
<1>1. Sound(heap, EmptyStorage, {})
  BY DEF Create, Live, Inv, Consistent
<1>2. type.elementSize \in Nat
  BY ElementTypeAssumption DEF ElementTypeInfo
<1>3. elements # NULL => \A i \in 1 .. count : elements[i] \in Elements
  OBVIOUS
<1>4. \A r \in outcomes :
         /\ Creates(heap, elements, count, type.elementSize, r)
         /\ r.ok => elements # NULL \/ count = 0
  BY <1>1, <1>2, <1>3, InitFromLemma
<1> HIDE DEF outcomes
<1>5. Furnishes(outcomes, elements, count, taken, type)
  BY <1>4 DEF Furnishes
<1>6. Create(op, vtable, count, taken, type, outcomes)
  BY DEF outcomes
<1>7. QED
  BY <1>5, <1>6, CreateInv
=============================================================================
