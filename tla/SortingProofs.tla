--------------------------- MODULE SortingProofs ---------------------------
(***************************************************************************)
(* Whatever the comparator answers, for containers of every size: no       *)
(* algorithm leaves its buffer, none loses or duplicates an element, and   *)
(* the calls of QuickSortRange nest no deeper than a logarithm.            *)
(***************************************************************************)
EXTENDS Sorting, FiniteSetTheorems, TLAPS

-----------------------------------------------------------------------------
(* Reorderings.                                                            *)

\* Every function reorders itself.
LEMMA ReordersItself ==
    ASSUME NEW S, NEW f
    PROVE  Reorders(S, f, f)
<1> DEFINE id == [i \in S |-> i]
<1>1. id \in Bijection(S, S)
  BY DEF Bijection, Injection, Surjection, IsInjective
<1>2. \A i \in S : f[i] = f[id[i]]
  OBVIOUS
<1> QED
  BY <1>1, <1>2 DEF Reorders

\* It still reorders g after two of its values have been exchanged.
LEMMA ReordersSwapped ==
    ASSUME NEW S, NEW T, NEW f \in [S -> T], NEW g, Reorders(S, f, g),
           NEW i \in S, NEW j \in S
    PROVE  Reorders(S, [f EXCEPT ![i] = f[j], ![j] = f[i]], g)
<1>1. PICK p \in Bijection(S, S) : \A k \in S : f[k] = g[p[k]]
  BY DEF Reorders
<1> DEFINE q == [k \in S |-> IF k = j THEN p[i] ELSE IF k = i THEN p[j] ELSE p[k]]
           h == [f EXCEPT ![i] = f[j], ![j] = f[i]]
<1>2. p \in [S -> S] /\ (\A k, l \in S : p[k] = p[l] => k = l)
                     /\ (\A t \in S : \E s \in S : p[s] = t)
  BY <1>1 DEF Bijection, Injection, Surjection, IsInjective
<1>3. q \in [S -> S]
  BY <1>2
<1>4. \A k, l \in S : q[k] = q[l] => k = l
  BY <1>2
<1>5. \A t \in S : \E s \in S : q[s] = t
  <2> SUFFICES ASSUME NEW t \in S
               PROVE  \E s \in S : q[s] = t
    OBVIOUS
  <2>1. PICK s \in S : p[s] = t
    BY <1>2
  <2>2. CASE s = i
    BY <2>1, <2>2
  <2>3. CASE s = j
    <3>1. q[i] = t
      BY <2>1, <2>3
    <3> QED
      BY <3>1
  <2>4. CASE s # i /\ s # j
    BY <2>1, <2>4
  <2> QED
    BY <2>2, <2>3, <2>4
<1>6. q \in Bijection(S, S)
  BY <1>3, <1>4, <1>5 DEF Bijection, Injection, Surjection, IsInjective
<1>7. \A k \in S : h[k] = g[q[k]]
  BY <1>1
<1> QED
  BY <1>6, <1>7 DEF Reorders

-----------------------------------------------------------------------------
(* The frames of QuickSortRange.                                           *)

LEMMA LastFrame ==
    ASSUME NEW R, NEW f \in Seq(R) \ {<<>>}
    PROVE  /\ Len(f) \in Nat \ {0}
           /\ f[Len(f)] \in R
           /\ SubSeq(f, 1, Len(f) - 1) \in Seq(R)
<1>1. Len(f) \in Nat \ {0} /\ f \in [1 .. Len(f) -> R]
  OBVIOUS
<1> QED
  BY <1>1

LEMMA TwoMoreFrames ==
    ASSUME NEW R, NEW s \in Seq(R), NEW a \in R, NEW b \in R
    PROVE  LET f == s \o <<a, b>>
           IN  f \in Seq(R) \ {<<>>} /\ f[Len(f)] = b
<1>1. <<a, b>> \in Seq(R) /\ Len(<<a, b>>) = 2 /\ <<a, b>>[2] = b
  OBVIOUS
<1>2. s \o <<a, b>> \in Seq(R) /\ Len(s \o <<a, b>>) = Len(s) + 2
  BY <1>1
<1>3. (s \o <<a, b>>)[Len(s) + 2] = <<a, b>>[2]
  BY <1>1
<1> QED
  BY <1>1, <1>2, <1>3

-----------------------------------------------------------------------------
(* Types and ranges.                                                       *)

LEMMA MaxSizeNat == MaxSize \in Nat
BY SortingAssumption

LEMMA SwapTyped ==
    ASSUME TypeOK, pc # "idle", pc # "insertion", NEW i \in Positions, NEW j \in Positions, Swap(i, j)
    PROVE  buffer' \in [Positions -> Elements] /\ tmp' \in Elements \cup {Junk}
BY DEF TypeOK, Swap, memory

\* A step inside an algorithm keeps the types of everything but the loop if it
\* keeps those of the buffer and of tmp.
Kept == /\ UNCHANGED <<type, size, contents>>
        /\ pc' # "idle"
        /\ buffer' \in [Positions -> Elements]
        /\ tmp' \in Elements \cup {Junk}

LEMMA DoneTyped ==
    ASSUME TypeOK, Kept, pc # "idle", pc' \in {"sorted", "failed"}
    PROVE  TypeOK'
BY DEF TypeOK, Kept, Positions, Loops

LEMMA BubbleTyped ==
    ASSUME TypeOK, BubbleCompare \/ BubblePass
    PROVE  TypeOK'
<1>1. CASE BubbleCompare
  <2>1. /\ pc = "bubble"
        /\ loop \in [end : 2 .. size, i : 1 .. size, swapped : BOOLEAN]
        /\ loop.i < loop.end
        /\ size \in Nat
    BY <1>1, MaxSizeNat DEF BubbleCompare, TypeOK
  <2>2. loop.i \in Positions /\ loop.i - 1 \in Positions
    BY <2>1 DEF Positions
  <2>3. /\ pc' = "bubble"
        /\ loop' \in [end : 2 .. size, i : 1 .. size, swapped : BOOLEAN]
        /\ loop'.i <= loop'.end
    <3>1. /\ pc' = pc
          /\ \/ loop' = [loop EXCEPT !.i = @ + 1, !.swapped = TRUE]
             \/ loop' = [loop EXCEPT !.i = @ + 1]
      BY <1>1, Zenon DEF BubbleCompare, Continue
    <3>2. loop.end \in 2 .. size /\ loop.i + 1 \in 1 .. size /\ loop.swapped \in BOOLEAN
      BY <2>1
    <3>3. CASE loop' = [loop EXCEPT !.i = @ + 1, !.swapped = TRUE]
      <4>1. loop' = [end |-> loop.end, i |-> loop.i + 1, swapped |-> TRUE]
        BY <2>1, <3>3
      <4> QED
        BY <2>1, <3>1, <3>2, <4>1
    <3>4. CASE loop' = [loop EXCEPT !.i = @ + 1]
      <4>1. loop' = [end |-> loop.end, i |-> loop.i + 1, swapped |-> loop.swapped]
        BY <2>1, <3>4
      <4> QED
        BY <2>1, <3>1, <3>2, <4>1
    <3> QED
      BY <3>1, <3>3, <3>4
  <2>4. buffer' \in [Positions -> Elements] /\ tmp' \in Elements \cup {Junk}
    <3>1. CASE Swap(loop.i - 1, loop.i)
      BY <2>1, <2>2, <3>1, SwapTyped
    <3>2. CASE UNCHANGED memory
      BY <2>1, <3>2 DEF memory, TypeOK
    <3> QED
      BY <1>1, <3>1, <3>2 DEF BubbleCompare
  <2> QED
    BY <1>1, <2>1, <2>3, <2>4 DEF BubbleCompare, Running, container, TypeOK, Positions
<1>2. CASE BubblePass
  <2>1. /\ pc = "bubble"
        /\ loop \in [end : 2 .. size, i : 1 .. size, swapped : BOOLEAN]
        /\ size \in Nat
        /\ UNCHANGED <<type, size, contents, buffer, tmp>>
    BY <1>2, MaxSizeNat DEF BubblePass, TypeOK, Running, container, memory
  <2>2. CASE Continue([end |-> loop.end - 1, i |-> 1, swapped |-> FALSE]) /\ loop.end > 2
    BY <2>1, <2>2 DEF Continue, TypeOK, Positions
  <2>3. CASE Done("sorted")
    BY <2>1, <2>3, DoneTyped DEF Kept, Done, TypeOK
  <2> QED
    BY <1>2, <2>2, <2>3 DEF BubblePass
<1> QED
  BY <1>1, <1>2

LEMMA SelectionTyped ==
    ASSUME TypeOK, SelectionCompare \/ SelectionSwap
    PROVE  TypeOK'
<1>1. /\ pc = "selection"
      /\ loop \in [current : Positions, smallest : Positions, test : 1 .. size]
      /\ loop.current < loop.test
      /\ size \in Nat /\ size >= 2
      /\ UNCHANGED <<type, size, contents>>
  <2>1. pc = "selection" /\ Running
    BY DEF SelectionCompare, SelectionSwap
  <2> QED
    BY <2>1, MaxSizeNat DEF TypeOK, Running, container
<1>2. CASE SelectionCompare
  <2>1. PICK smallest \in {loop.smallest, loop.test} :
           /\ loop' = [loop EXCEPT !.test = @ + 1, !.smallest = smallest]
           /\ pc' = pc
    BY <1>2, Zenon DEF SelectionCompare, Continue
  <2>2. loop' = [current |-> loop.current, smallest |-> smallest, test |-> loop.test + 1]
    BY <1>1, <2>1
  <2>3. loop.test < size /\ UNCHANGED <<buffer, tmp>>
    BY <1>2 DEF SelectionCompare, memory
  <2>4. smallest \in Positions /\ loop.test + 1 \in 1 .. size /\ loop.current < loop.test + 1
    BY <1>1, <2>1, <2>3 DEF Positions
  <2> QED
    BY <1>1, <2>1, <2>2, <2>3, <2>4 DEF TypeOK, Positions
<1>3. CASE SelectionSwap
  <2>1. Swap(loop.current, loop.smallest)
    BY <1>3 DEF SelectionSwap
  <2>2. buffer' \in [Positions -> Elements] /\ tmp' \in Elements \cup {Junk}
    BY <1>1, <2>1, SwapTyped
  <2> DEFINE next == loop.current + 1
  <2>3. CASE /\ next + 1 < size
             /\ Continue([current |-> next, smallest |-> next, test |-> next + 1])
    <3>1. next \in Positions /\ next + 1 \in 1 .. size /\ next < next + 1
      BY <1>1, <2>3 DEF Positions
    <3> QED
      BY <1>1, <2>2, <2>3, <3>1 DEF Continue, TypeOK, Positions
  <2>4. CASE Done("sorted")
    BY <1>1, <2>2, <2>4, DoneTyped DEF Kept, Done
  <2> QED
    BY <1>3, <2>3, <2>4 DEF SelectionSwap
<1> QED
  BY <1>2, <1>3

LEMMA InsertionTyped ==
    ASSUME TypeOK, InsertionShift \/ InsertionPlace
    PROVE  TypeOK'
<1>1. /\ pc = "insertion"
      /\ loop \in [current : 1 .. size - 1, insertionIndex : Positions]
      /\ loop.insertionIndex <= loop.current
      /\ tmp \in Elements
      /\ buffer \in [Positions -> Elements]
      /\ size \in Nat /\ size >= 2
      /\ UNCHANGED <<type, size, contents>>
  <2>1. pc = "insertion" /\ Running
    BY DEF InsertionShift, InsertionPlace
  <2> QED
    BY <2>1, MaxSizeNat DEF TypeOK, Running, container
<1>2. CASE InsertionShift
  <2>1. /\ loop' = [loop EXCEPT !.insertionIndex = @ - 1]
        /\ pc' = pc /\ tmp' = tmp
        /\ loop.insertionIndex > 0
        /\ buffer' = [buffer EXCEPT ![loop.insertionIndex] = buffer[loop.insertionIndex - 1]]
    BY <1>2 DEF InsertionShift, Continue
  <2>2. loop' = [current |-> loop.current, insertionIndex |-> loop.insertionIndex - 1]
    BY <1>1, <2>1
  <2>3. loop.insertionIndex - 1 \in Positions /\ loop.insertionIndex - 1 <= loop.current
    BY <1>1, <2>1 DEF Positions
  <2>4. buffer' \in [Positions -> Elements]
    BY <1>1, <2>1, <2>3
  <2> QED
    BY <1>1, <2>1, <2>2, <2>3, <2>4 DEF TypeOK, Positions
<1>3. CASE InsertionPlace
  <2>1. buffer' = [buffer EXCEPT ![loop.insertionIndex] = tmp]
    BY <1>3 DEF InsertionPlace
  <2>2. buffer' \in [Positions -> Elements]
    BY <1>1, <2>1
  <2> DEFINE next == loop.current + 1
  <2>3. CASE /\ next < size
             /\ tmp' = buffer[next]
             /\ Continue([current |-> next, insertionIndex |-> next])
    <3>1. next \in 1 .. size - 1 /\ next \in Positions /\ next <= next
      BY <1>1, <2>3 DEF Positions
    <3>2. tmp' \in Elements
      BY <1>1, <2>3, <3>1
    <3> QED
      BY <1>1, <2>2, <2>3, <3>1, <3>2 DEF Continue, TypeOK, Positions
  <2>4. CASE Done("sorted") /\ UNCHANGED tmp
    BY <1>1, <2>2, <2>4, DoneTyped DEF Kept, Done
  <2> QED
    BY <1>3, <2>3, <2>4 DEF InsertionPlace
<1> QED
  BY <1>2, <1>3

\* The running frame is a range of the buffer.
LEMMA TopFrame ==
    ASSUME TypeOK, pc \in {"range", "partition"}
    PROVE  /\ loop.frames \in Frames
           /\ Top \in Ranges
           /\ Below \in Seq(Ranges)
           /\ Top.begin \in 0 .. size /\ Top.end \in 0 .. size /\ Top.begin <= Top.end
           /\ size \in Nat
<1>1. loop.frames \in Frames /\ size \in Nat
  BY MaxSizeNat DEF TypeOK
<1>2. Top \in Ranges /\ Below \in Seq(Ranges)
  BY <1>1, LastFrame DEF Frames, Top, Below
<1> QED
  BY <1>1, <1>2 DEF Ranges

LEMMA DescendTyped ==
    ASSUME TypeOK, pc = "partition", NEW pivot, Top.begin <= pivot, pivot < Top.end, pivot \in Nat
    PROVE  Descend(pivot) \in Frames
<1>1. Below \in Seq(Ranges) /\ Top.begin \in 0 .. size /\ Top.end \in 0 .. size /\ size \in Nat
  BY TopFrame
<1>2. Range0(Top.begin, pivot) \in Ranges /\ Range0(pivot + 1, Top.end) \in Ranges
  BY <1>1 DEF Range0, Ranges
<1>3. \A left, right \in Ranges : Below \o <<left, right>> \in Frames
  BY <1>1, TwoMoreFrames DEF Frames
<1> QED
  BY <1>2, <1>3, Zenon DEF Descend

LEMMA QuickRangeTyped ==
    ASSUME TypeOK, QuickReturn \/ PartitionStart
    PROVE  TypeOK'
<1>1. /\ pc = "range"
      /\ loop \in [frames : Frames]
      /\ UNCHANGED <<type, size, contents>>
  <2>1. pc = "range" /\ Running
    BY DEF QuickReturn, PartitionStart
  <2> QED
    BY <2>1 DEF TypeOK, Running, container
<1>2. /\ Below \in Seq(Ranges) /\ size \in Nat
      /\ Top.begin \in 0 .. size /\ Top.end \in 0 .. size
  BY <1>1, TopFrame
<1>3. CASE QuickReturn
  <2>1. UNCHANGED <<buffer, tmp>>
    BY <1>3 DEF QuickReturn, memory
  <2>2. CASE Done("sorted")
    BY <1>1, <2>1, <2>2, DoneTyped DEF Kept, Done, TypeOK
  <2>3. CASE Below # <<>> /\ Continue([loop EXCEPT !.frames = Below])
    <3>1. loop' \in [frames : Frames] /\ pc' = "range"
      BY <1>1, <1>2, <2>3 DEF Continue, Frames
    <3>2. Frames' = Frames /\ Positions' = Positions
      BY <1>1 DEF Frames, Ranges, Positions
    <3> QED
      BY <1>1, <2>1, <3>1, <3>2 DEF TypeOK
  <2> QED
    BY <1>3, <2>2, <2>3 DEF QuickReturn
<1>4. CASE PartitionStart
  <2> DEFINE middle == Top.begin + (Top.end - Top.begin) \div 2
  <2>1. /\ Top.end - Top.begin >= 2
        /\ Swap(middle, Top.end - 1)
        /\ pc' = "partition"
        /\ loop' = [frames |-> loop.frames, current |-> Top.begin, insertionIndex |-> Top.begin]
    BY <1>4 DEF PartitionStart
  <2>2. middle \in Positions /\ Top.end - 1 \in Positions /\ Top.begin \in Positions
    BY <1>2, <2>1 DEF Positions
  <2>3. buffer' \in [Positions -> Elements] /\ tmp' \in Elements \cup {Junk}
    BY <1>1, <2>1, <2>2, SwapTyped
  <2>4. Frames' = Frames /\ Positions' = Positions
    BY <1>1 DEF Frames, Ranges, Positions
  <2>5. Top' = Top
    BY <1>1, <2>1 DEF Top
  <2>6. /\ loop' \in [frames : Frames, current : Positions, insertionIndex : Positions]
        /\ loop'.insertionIndex = Top.begin /\ loop'.current = Top.begin
    BY <1>1, <2>1, <2>2
  <2>7. Top.begin <= Top.begin /\ Top.begin < Top.end
    BY <1>2, <2>1
  <2> QED
    BY <1>1, <2>1, <2>3, <2>4, <2>5, <2>6, <2>7 DEF TypeOK, Loops
<1> QED
  BY <1>3, <1>4

LEMMA PartitionTyped ==
    ASSUME TypeOK, PartitionCompare \/ PartitionEnd
    PROVE  TypeOK'
<1>1. /\ pc = "partition"
      /\ loop \in [frames : Frames, current : Positions, insertionIndex : Positions]
      /\ Top.begin <= loop.insertionIndex
      /\ loop.insertionIndex <= loop.current
      /\ loop.current < Top.end
      /\ UNCHANGED <<type, size, contents>>
  <2>1. pc = "partition" /\ Running
    BY DEF PartitionCompare, PartitionEnd
  <2> QED
    BY <2>1 DEF TypeOK, Running, container
<1>2. size \in Nat /\ Top.begin \in 0 .. size /\ Top.end \in 0 .. size
  BY <1>1, TopFrame
<1>3. Frames' = Frames /\ Positions' = Positions
  BY <1>1 DEF Frames, Ranges, Positions
<1>4. /\ loop.current \in Positions /\ loop.insertionIndex \in Positions
      /\ Top.end - 1 \in Positions
  BY <1>1, <1>2 DEF Positions
<1>5. CASE PartitionCompare
  <2>1. PICK insertionIndex \in {loop.insertionIndex, loop.insertionIndex + 1} :
           /\ pc' = pc
           /\ loop' = [frames |-> loop.frames, current |-> loop.current + 1,
                       insertionIndex |-> insertionIndex]
    <3>1. /\ pc' = pc
          /\ \/ loop' = [loop EXCEPT !.current = @ + 1, !.insertionIndex = @ + 1]
             \/ loop' = [loop EXCEPT !.current = @ + 1]
      BY <1>5, Zenon DEF PartitionCompare, Continue
    <3>2. CASE loop' = [loop EXCEPT !.current = @ + 1, !.insertionIndex = @ + 1]
      <4>1. loop' = [frames |-> loop.frames, current |-> loop.current + 1,
                     insertionIndex |-> loop.insertionIndex + 1]
        BY <1>1, <3>2
      <4> QED
        BY <3>1, <4>1
    <3>3. CASE loop' = [loop EXCEPT !.current = @ + 1]
      <4>1. loop' = [frames |-> loop.frames, current |-> loop.current + 1,
                     insertionIndex |-> loop.insertionIndex]
        BY <1>1, <3>3
      <4> QED
        BY <3>1, <4>1
    <3> QED
      BY <3>1, <3>2, <3>3
  <2>2. loop.current < Top.end - 1
    BY <1>5 DEF PartitionCompare
  <2>3. buffer' \in [Positions -> Elements] /\ tmp' \in Elements \cup {Junk}
    <3>1. CASE Swap(loop.current, loop.insertionIndex)
      BY <1>1, <1>4, <3>1, SwapTyped
    <3>2. CASE UNCHANGED memory
      BY <1>1, <3>2 DEF memory, TypeOK
    <3> QED
      BY <1>5, <3>1, <3>2 DEF PartitionCompare
  <2>4. Top' = Top
    BY <1>1, <2>1 DEF Top
  <2>5. /\ loop.current + 1 \in Positions /\ insertionIndex \in Positions
        /\ Top.begin <= insertionIndex
        /\ insertionIndex <= loop.current + 1
        /\ loop.current + 1 < Top.end
    BY <1>1, <1>2, <2>1, <2>2 DEF Positions
  <2>6. /\ loop' \in [frames : Frames, current : Positions, insertionIndex : Positions]
        /\ loop'.insertionIndex = insertionIndex /\ loop'.current = loop.current + 1
    BY <1>1, <2>1, <2>5
  <2> QED
    BY <1>1, <1>3, <2>1, <2>3, <2>4, <2>5, <2>6 DEF TypeOK
<1>6. CASE PartitionEnd
  <2>1. /\ Swap(loop.insertionIndex, Top.end - 1)
        /\ pc' = "range"
        /\ loop' = [frames |-> Descend(loop.insertionIndex)]
    BY <1>6 DEF PartitionEnd
  <2>2. buffer' \in [Positions -> Elements] /\ tmp' \in Elements \cup {Junk}
    BY <1>1, <1>4, <2>1, SwapTyped
  <2>3. loop.insertionIndex < Top.end /\ loop.insertionIndex \in Nat
    BY <1>1, <1>2, <1>4 DEF Positions
  <2>4. Descend(loop.insertionIndex) \in Frames
    BY <1>1, <2>3, DescendTyped
  <2> QED
    BY <1>1, <1>3, <2>1, <2>2, <2>4 DEF TypeOK, Loops
<1> QED
  BY <1>5, <1>6

LEMMA BogoTyped ==
    ASSUME TypeOK, BogoCheck \/ BogoSorted \/ BogoSwap \/ BogoShuffled
    PROVE  TypeOK'
<1>1. /\ pc \in {"check", "shuffle"}
      /\ UNCHANGED <<type, size, contents>>
      /\ size \in Nat /\ size >= 2
      /\ BogoMaxShuffles \in Nat
  <2>1. pc \in {"check", "shuffle"} /\ Running
    BY DEF BogoCheck, BogoSorted, BogoSwap, BogoShuffled
  <2> QED
    BY <2>1, MaxSizeNat, SortingAssumption DEF TypeOK, Running, container
<1>2. Positions' = Positions
  BY <1>1 DEF Positions
<1>3. CASE BogoCheck
  <2>1. /\ loop \in [attempt : 0 .. BogoMaxShuffles, i : 1 .. size]
        /\ pc = "check" /\ loop.i < size
        /\ UNCHANGED <<buffer, tmp>>
    BY <1>3 DEF BogoCheck, memory, TypeOK
  <2>2. \/ Continue([loop EXCEPT !.i = @ + 1])
        \/ Done("failed")
        \/ /\ loop.attempt # BogoMaxShuffles
           /\ pc' = "shuffle" /\ loop' = [attempt |-> loop.attempt, remaining |-> size]
    BY <1>3, Zenon DEF BogoCheck
  <2>3. CASE Continue([loop EXCEPT !.i = @ + 1])
    <3>1. loop' = [attempt |-> loop.attempt, i |-> loop.i + 1] /\ pc' = pc
      BY <2>1, <2>3 DEF Continue
    <3>2. loop.attempt \in 0 .. BogoMaxShuffles /\ loop.i + 1 \in 1 .. size
      BY <1>1, <2>1
    <3>3. loop' \in [attempt : 0 .. BogoMaxShuffles, i : 1 .. size]
      BY <3>1, <3>2
    <3> QED
      BY <1>1, <1>2, <2>1, <3>1, <3>3 DEF TypeOK
  <2>4. CASE Done("failed")
    BY <1>1, <2>1, <2>4, DoneTyped DEF Kept, Done, TypeOK
  <2>5. CASE /\ loop.attempt # BogoMaxShuffles
             /\ pc' = "shuffle" /\ loop' = [attempt |-> loop.attempt, remaining |-> size]
    <3>1. loop' \in [attempt : 0 .. BogoMaxShuffles - 1, remaining : 1 .. size]
      BY <1>1, <2>1, <2>5
    <3> QED
      BY <1>1, <1>2, <2>1, <2>5, <3>1 DEF TypeOK, Loops
  <2> QED
    BY <2>2, <2>3, <2>4, <2>5
<1>4. CASE BogoSorted
  BY <1>1, <1>4, DoneTyped DEF BogoSorted, Kept, Done, TypeOK, memory
<1>5. CASE BogoSwap
  <2>1. /\ loop \in [attempt : 0 .. BogoMaxShuffles - 1, remaining : 1 .. size]
        /\ pc = "shuffle" /\ loop.remaining > 1
        /\ loop' = [loop EXCEPT !.remaining = @ - 1] /\ pc' = pc
    BY <1>5 DEF BogoSwap, Continue, TypeOK
  <2>2. PICK randomIndex \in 0 .. loop.remaining - 1 : Swap(loop.remaining - 1, randomIndex)
    BY <1>5 DEF BogoSwap
  <2>3. loop.remaining - 1 \in Positions /\ randomIndex \in Positions
    BY <1>1, <2>1, <2>2 DEF Positions
  <2>4. buffer' \in [Positions -> Elements] /\ tmp' \in Elements \cup {Junk}
    BY <2>1, <2>2, <2>3, SwapTyped
  <2>5. loop' \in [attempt : 0 .. BogoMaxShuffles - 1, remaining : 1 .. size]
    <3>1. loop' = [attempt |-> loop.attempt, remaining |-> loop.remaining - 1]
      BY <2>1
    <3> QED
      BY <1>1, <2>1, <3>1
  <2> QED
    BY <1>1, <1>2, <2>1, <2>4, <2>5 DEF TypeOK
<1>6. CASE BogoShuffled
  <2>1. /\ loop \in [attempt : 0 .. BogoMaxShuffles - 1, remaining : 1 .. size]
        /\ pc = "shuffle"
        /\ pc' = "check" /\ loop' = [attempt |-> loop.attempt + 1, i |-> 1]
        /\ UNCHANGED <<buffer, tmp>>
    BY <1>6 DEF BogoShuffled, memory, TypeOK
  <2>2. loop' \in [attempt : 0 .. BogoMaxShuffles, i : 1 .. size]
    BY <1>1, <2>1
  <2> QED
    BY <1>1, <1>2, <2>1, <2>2 DEF TypeOK, Loops
<1> QED
  BY <1>3, <1>4, <1>5, <1>6

\* A call returns at once, or starts one of the algorithms.
LEMMA CallLemma ==
    ASSUME TypeOK, Call
    PROVE  \/ UNCHANGED <<container, memory, pc, loop, call>>
           \/ /\ pc = "idle" /\ size >= 2
              /\ \E algorithm \in Algorithms :
                    /\ pc' = FirstLoop[algorithm]
                    /\ loop' = FirstOf(algorithm)
                    /\ buffer' = contents
                    /\ tmp' = IF algorithm = "INSERTION" THEN contents[1] ELSE Junk
              /\ UNCHANGED container
<1>0. PICK algorithm \in Algorithms \cup {"UNKNOWN"} : \E compare : adt_SortBy(algorithm, compare)
  BY DEF Call, adt_Sort
<1>1. PICK compare : adt_SortBy(algorithm, compare)
  BY <1>0
<1> DEFINE c == [algorithm |-> algorithm, compare |-> compare]
<1>2. \/ \E ok : Return(c, ok)
      \/ pc = "idle" /\ ~ size < 2 /\ algorithm \in Algorithms /\ Allocate(c)
  BY <1>1, Zenon DEF adt_SortBy
<1>3. CASE \E ok : Return(c, ok)
  BY <1>3 DEF Return
<1>4. CASE pc = "idle" /\ ~ size < 2 /\ algorithm \in Algorithms /\ Allocate(c)
  <2>1. c.algorithm = algorithm /\ size \in Nat
    BY MaxSizeNat DEF TypeOK
  <2>2. size >= 2
    BY <1>4, <2>1
  <2>3. CASE Return(c, FALSE)
    BY <2>3 DEF Return
  <2>4. CASE ~ Return(c, FALSE)
    <3>1. /\ buffer' = contents
          /\ tmp' = IF c.algorithm = "INSERTION" THEN contents[1] ELSE Junk
          /\ pc' = FirstLoop[c.algorithm]
          /\ loop' = FirstOf(c.algorithm)
          /\ UNCHANGED container
      BY <1>4, <2>4 DEF Allocate
    <3> HIDE DEF c
    <3> QED
      BY <1>4, <2>1, <2>2, <3>1
  <2> QED
    BY <2>3, <2>4
<1> QED
  BY <1>2, <1>3, <1>4

LEMMA CallTyped ==
    ASSUME TypeOK, Call
    PROVE  TypeOK'
<1>1. CASE UNCHANGED <<container, memory, pc, loop, call>>
  BY <1>1 DEF TypeOK, container, memory, Positions, Top, Frames, Ranges
<1>2. CASE /\ pc = "idle" /\ size >= 2
           /\ \E algorithm \in Algorithms :
                 /\ pc' = FirstLoop[algorithm]
                 /\ loop' = FirstOf(algorithm)
                 /\ buffer' = contents
                 /\ tmp' = IF algorithm = "INSERTION" THEN contents[1] ELSE Junk
           /\ UNCHANGED container
  <2>1. PICK algorithm \in Algorithms :
           /\ pc' = FirstLoop[algorithm]
           /\ loop' = FirstOf(algorithm)
           /\ buffer' = contents
           /\ tmp' = IF algorithm = "INSERTION" THEN contents[1] ELSE Junk
    BY <1>2
  <2>2. /\ size \in Nat /\ size >= 2
        /\ UNCHANGED <<type, size, contents>>
        /\ Positions' = Positions /\ Frames' = Frames
        /\ 0 \in Positions /\ 1 \in Positions
        /\ contents \in [Positions -> Elements] /\ contents[1] \in Elements
    BY <1>2, MaxSizeNat DEF TypeOK, container, Positions, Frames, Ranges
  <2>3. CASE algorithm = "BUBBLE"
    <3>1. pc' = "bubble" /\ loop' = [end |-> size, i |-> 1, swapped |-> FALSE]
      BY <2>1, <2>3 DEF FirstLoop, FirstOf
    <3>2. /\ loop' \in [end : 2 .. size, i : 1 .. size, swapped : BOOLEAN]
          /\ loop'.i <= loop'.end
      BY <2>2, <3>1
    <3>3. buffer' \in [Positions -> Elements] /\ tmp' \in Elements \cup {Junk}
      BY <2>1, <2>2, <2>3
    <3> QED
      BY <2>2, <3>1, <3>2, <3>3 DEF TypeOK, Loops, Positions
  <2>4. CASE algorithm = "SELECTION"
    <3>1. pc' = "selection" /\ loop' = [current |-> 0, smallest |-> 0, test |-> 1]
      BY <2>1, <2>4 DEF FirstLoop, FirstOf
    <3> QED
      BY <2>1, <2>2, <2>4, <3>1 DEF TypeOK, Loops
  <2>5. CASE algorithm = "INSERTION"
    <3>1. pc' = "insertion" /\ loop' = [current |-> 1, insertionIndex |-> 1]
      BY <2>1, <2>5 DEF FirstLoop, FirstOf
    <3> QED
      BY <2>1, <2>2, <2>5, <3>1 DEF TypeOK, Loops
  <2>6. CASE algorithm = "QUICK"
    <3>1. pc' = "range" /\ loop' = [frames |-> <<Range0(0, size)>>]
      BY <2>1, <2>6 DEF FirstLoop, FirstOf
    <3>2. Range0(0, size) \in Ranges
      BY <2>2 DEF Range0, Ranges
    <3>3. <<Range0(0, size)>> \in Frames
      BY <3>2 DEF Frames
    <3> QED
      BY <2>1, <2>2, <2>6, <3>1, <3>3 DEF TypeOK, Loops
  <2>7. CASE algorithm = "BOGO"
    <3>1. pc' = "check" /\ loop' = [attempt |-> 0, i |-> 1]
      BY <2>1, <2>7 DEF FirstLoop, FirstOf
    <3> QED
      BY <2>1, <2>2, <2>7, <3>1, SortingAssumption DEF TypeOK, Loops
  <2> QED
    BY <2>3, <2>4, <2>5, <2>6, <2>7 DEF Algorithms
<1> QED
  BY <1>1, <1>2, CallLemma

LEMMA FinishTyped ==
    ASSUME TypeOK, Finish
    PROVE  TypeOK'
BY DEF TypeOK, Finish, Positions, Loops

\* Init => TypeOK and TypeOK /\ [Next]_vars => TypeOK', step by step of Next.
LEMMA TypeInit == Init => TypeOK
BY DEF Init, TypeOK, Loops, Positions

LEMMA TypeStep == TypeOK /\ [Next]_vars => TypeOK'
<1> SUFFICES ASSUME TypeOK, [Next]_vars
             PROVE  TypeOK'
  OBVIOUS
<1>1. CASE Call
  BY <1>1, CallTyped
<1>2. CASE BubbleCompare \/ BubblePass
  BY <1>2, BubbleTyped
<1>3. CASE SelectionCompare \/ SelectionSwap
  BY <1>3, SelectionTyped
<1>4. CASE InsertionShift \/ InsertionPlace
  BY <1>4, InsertionTyped
<1>5. CASE QuickReturn \/ PartitionStart
  BY <1>5, QuickRangeTyped
<1>6. CASE PartitionCompare \/ PartitionEnd
  BY <1>6, PartitionTyped
<1>7. CASE BogoCheck \/ BogoSorted \/ BogoSwap \/ BogoShuffled
  BY <1>7, BogoTyped
<1>8. CASE Finish
  BY <1>8, FinishTyped
<1>9. CASE UNCHANGED vars
  BY <1>9 DEF vars, TypeOK, container, memory, Positions, Top, Frames, Ranges
<1> QED
  BY <1>1, <1>2, <1>3, <1>4, <1>5, <1>6, <1>7, <1>8, <1>9, Zenon DEF Next, Step

\* Every access of every algorithm stays in the buffer, and no difference of two
\* indices wraps (sorting.c:44-264), for every size and every comparator.
THEOREM TypeSafety == Spec => []TypeOK
BY TypeInit, TypeStep, PTL DEF Spec

-----------------------------------------------------------------------------
(* No element is lost or duplicated.  Conserved needs TypeOK: an exchange is  *)
(* one only if both indices lie in the buffer.                                *)

Inv == TypeOK /\ Conserved

\* A step that only exchanges two elements, or none, outside insertion sort.
LEMMA SwapConserved ==
    ASSUME TypeOK, Conserved, pc # "idle", pc # "insertion", pc' # "insertion",
           UNCHANGED container,
           NEW i \in Positions, NEW j \in Positions,
           Swap(i, j) \/ UNCHANGED memory
    PROVE  Conserved'
<1>1. /\ Held = buffer /\ Held' = buffer'
      /\ Positions' = Positions /\ contents' = contents
      /\ buffer \in [Positions -> Elements]
      /\ Reorders(Positions, buffer, contents)
  BY DEF Held, Positions, container, TypeOK, Conserved
<1>2. \/ buffer' = buffer
      \/ buffer' = [buffer EXCEPT ![i] = buffer[j], ![j] = buffer[i]]
  BY DEF Swap, memory
<1>3. Reorders(Positions, buffer', contents)
  BY <1>1, <1>2, ReordersSwapped
<1> QED
  BY <1>1, <1>3 DEF Conserved

LEMMA SameConserved ==
    ASSUME TypeOK, Conserved, pc # "idle", pc # "insertion", pc' # "insertion",
           UNCHANGED container, UNCHANGED memory
    PROVE  Conserved'
<1>1. 0 \in Positions
  BY MaxSizeNat DEF TypeOK, Positions
<1> QED
  BY <1>1, SwapConserved

LEMMA BubbleConserved ==
    ASSUME TypeOK, Conserved, BubbleCompare \/ BubblePass
    PROVE  Conserved'
<1>1. /\ pc = "bubble" /\ pc' # "insertion" /\ UNCHANGED container
      /\ loop.i \in 1 .. size /\ size \in Nat
  BY MaxSizeNat DEF BubbleCompare, BubblePass, Running, Continue, Done, TypeOK
<1>2. CASE BubbleCompare
  <2>1. loop.end \in 2 .. size /\ loop.i < loop.end
    BY <1>1, <1>2 DEF BubbleCompare, TypeOK
  <2>2. loop.i \in Positions /\ loop.i - 1 \in Positions
    BY <1>1, <2>1 DEF Positions
  <2>3. Swap(loop.i - 1, loop.i) \/ UNCHANGED memory
    BY <1>2 DEF BubbleCompare
  <2> QED
    BY <1>1, <2>2, <2>3, SwapConserved
<1>3. CASE BubblePass
  BY <1>1, <1>3, SameConserved DEF BubblePass
<1> QED
  BY <1>2, <1>3

LEMMA SelectionConserved ==
    ASSUME TypeOK, Conserved, SelectionCompare \/ SelectionSwap
    PROVE  Conserved'
<1>1. /\ pc = "selection" /\ pc' # "insertion" /\ UNCHANGED container
      /\ loop.current \in Positions /\ loop.smallest \in Positions
  BY DEF SelectionCompare, SelectionSwap, Running, Continue, Done, TypeOK
<1>2. Swap(loop.current, loop.smallest) \/ UNCHANGED memory
  BY DEF SelectionCompare, SelectionSwap
<1> QED
  BY <1>1, <1>2, SwapConserved

\* A shift exchanges two elements of those held; placing tmp, and loading the
\* next element, changes none.
LEMMA InsertionConserved ==
    ASSUME TypeOK, Conserved, InsertionShift \/ InsertionPlace
    PROVE  Conserved'
<1> DEFINE k == loop.insertionIndex
<1>1. /\ pc = "insertion"
      /\ loop \in [current : 1 .. size - 1, insertionIndex : Positions]
      /\ k \in Positions /\ loop.current \in 1 .. size - 1 /\ k <= loop.current
      /\ tmp \in Elements
      /\ buffer \in [Positions -> Elements]
      /\ size \in Nat
      /\ UNCHANGED container
  <2>1. pc = "insertion" /\ Running
    BY DEF InsertionShift, InsertionPlace
  <2> QED
    BY <2>1, MaxSizeNat DEF TypeOK, Running
<1>2. Positions' = Positions /\ contents' = contents
  BY <1>1 DEF Positions, container
<1>3. /\ Held = [buffer EXCEPT ![k] = tmp]
      /\ Held \in [Positions -> Elements]
      /\ Reorders(Positions, Held, contents)
  BY <1>1 DEF Held, Conserved
<1>4. CASE InsertionShift
  <2>1. /\ k > 0 /\ pc' = pc /\ tmp' = tmp
        /\ loop' = [loop EXCEPT !.insertionIndex = @ - 1]
        /\ buffer' = [buffer EXCEPT ![k] = buffer[k - 1]]
    BY <1>4 DEF InsertionShift, Continue
  <2>2. k - 1 \in Positions /\ k - 1 # k
    BY <1>1, <2>1 DEF Positions
  <2>3. loop'.insertionIndex = k - 1
    BY <1>1, <2>1
  <2>4. Held' = [buffer' EXCEPT ![k - 1] = tmp]
    BY <1>1, <2>1, <2>3 DEF Held
  <2>5. Held' = [Held EXCEPT ![k - 1] = Held[k], ![k] = Held[k - 1]]
    BY <1>1, <1>3, <2>1, <2>2, <2>4
  <2>6. Reorders(Positions, Held', contents)
    <3> HIDE DEF k
    <3>1. k - 1 \in Positions /\ k \in Positions
      BY <1>1, <2>2
    <3>2. Reorders(Positions, [Held EXCEPT ![k - 1] = Held[k], ![k] = Held[k - 1]], contents)
      BY <1>3, <3>1, ReordersSwapped
    <3> QED
      BY <2>5, <3>2
  <2> QED
    BY <1>2, <2>6 DEF Conserved
<1>5. CASE InsertionPlace
  <2> DEFINE next == loop.current + 1
  <2>1. buffer' = Held
    BY <1>3, <1>5 DEF InsertionPlace
  <2>2. CASE next < size /\ tmp' = buffer[next]
             /\ Continue([current |-> next, insertionIndex |-> next])
    <3>1. next \in Positions /\ next # k
      BY <1>1, <2>2 DEF Positions
    <3>2. Held[next] = buffer[next]
      BY <1>1, <1>3, <3>1
    <3>3. Held' = [buffer' EXCEPT ![next] = tmp']
      BY <1>1, <2>2 DEF Held, Continue
    <3>4. Held' = Held
      BY <1>3, <2>1, <2>2, <3>1, <3>2, <3>3
    <3> QED
      BY <1>2, <1>3, <3>4 DEF Conserved
  <2>3. CASE Done("sorted")
    <3>1. Held' = buffer'
      BY <2>3 DEF Held, Done
    <3> QED
      BY <1>2, <1>3, <2>1, <3>1 DEF Conserved
  <2> QED
    BY <1>5, <2>2, <2>3 DEF InsertionPlace
<1> QED
  BY <1>4, <1>5

LEMMA QuickConserved ==
    ASSUME TypeOK, Conserved, QuickReturn \/ PartitionStart \/ PartitionCompare \/ PartitionEnd
    PROVE  Conserved'
<1>1. /\ pc \in {"range", "partition"} /\ pc' # "insertion" /\ UNCHANGED container
  BY DEF QuickReturn, PartitionStart, PartitionCompare, PartitionEnd, Running, Continue, Done
<1>2. Top.begin \in 0 .. size /\ Top.end \in 0 .. size /\ size \in Nat
  BY <1>1, TopFrame
<1>3. CASE QuickReturn
  BY <1>1, <1>3, SameConserved DEF QuickReturn
<1>4. CASE PartitionStart
  <2>1. Top.end - Top.begin >= 2
    BY <1>4 DEF PartitionStart
  <2>2. Top.begin + (Top.end - Top.begin) \div 2 \in Positions /\ Top.end - 1 \in Positions
    BY <1>2, <2>1 DEF Positions
  <2>3. Swap(Top.begin + (Top.end - Top.begin) \div 2, Top.end - 1)
    BY <1>4 DEF PartitionStart
  <2> QED
    BY <1>1, <2>2, <2>3, SwapConserved
<1>5. CASE PartitionCompare \/ PartitionEnd
  <2>1. /\ loop.current \in Positions /\ loop.insertionIndex \in Positions
        /\ loop.current < Top.end
    BY <1>5 DEF PartitionCompare, PartitionEnd, TypeOK
  <2>2. Top.end - 1 \in Positions
    BY <1>2, <2>1 DEF Positions
  <2>3. \/ Swap(loop.current, loop.insertionIndex)
        \/ Swap(loop.insertionIndex, Top.end - 1)
        \/ UNCHANGED memory
    BY <1>5 DEF PartitionCompare, PartitionEnd
  <2> QED
    BY <1>1, <2>1, <2>2, <2>3, SwapConserved
<1> QED
  BY <1>3, <1>4, <1>5

LEMMA BogoConserved ==
    ASSUME TypeOK, Conserved, BogoCheck \/ BogoSorted \/ BogoSwap \/ BogoShuffled
    PROVE  Conserved'
<1>1. pc \in {"check", "shuffle"} /\ pc' # "insertion" /\ UNCHANGED container
  <2>1. pc \in {"check", "shuffle"} /\ Running
    BY DEF BogoCheck, BogoSorted, BogoSwap, BogoShuffled
  <2>2. pc' \in {"check", "shuffle", "sorted", "failed"}
    BY Zenon DEF BogoCheck, BogoSorted, BogoSwap, BogoShuffled, Continue, Done
  <2> QED
    BY <2>1, <2>2 DEF Running
<1>2. CASE BogoCheck \/ BogoSorted \/ BogoShuffled
  BY <1>1, <1>2, SameConserved DEF BogoCheck, BogoSorted, BogoShuffled
<1>3. CASE BogoSwap
  <2>1. loop.remaining \in 1 .. size /\ loop.remaining > 1 /\ size \in Nat
    BY <1>3, MaxSizeNat DEF BogoSwap, TypeOK
  <2>2. PICK randomIndex \in 0 .. loop.remaining - 1 : Swap(loop.remaining - 1, randomIndex)
    BY <1>3 DEF BogoSwap
  <2>3. loop.remaining - 1 \in Positions /\ randomIndex \in Positions
    BY <2>1, <2>2 DEF Positions
  <2> QED
    BY <1>1, <2>2, <2>3, SwapConserved
<1> QED
  BY <1>2, <1>3

LEMMA CallConserved ==
    ASSUME TypeOK, Conserved, Call
    PROVE  Conserved'
<1>1. CASE UNCHANGED <<container, memory, pc, loop, call>>
  BY <1>1 DEF Conserved, Held, Positions, container, memory
<1>2. CASE /\ pc = "idle" /\ size >= 2
           /\ \E algorithm \in Algorithms :
                 /\ pc' = FirstLoop[algorithm]
                 /\ loop' = FirstOf(algorithm)
                 /\ buffer' = contents
                 /\ tmp' = IF algorithm = "INSERTION" THEN contents[1] ELSE Junk
           /\ UNCHANGED container
  <2>1. PICK algorithm \in Algorithms :
           /\ pc' = FirstLoop[algorithm]
           /\ loop' = FirstOf(algorithm)
           /\ buffer' = contents
           /\ tmp' = IF algorithm = "INSERTION" THEN contents[1] ELSE Junk
    BY <1>2
  <2>2. Positions' = Positions /\ contents' = contents /\ contents \in [Positions -> Elements]
    BY <1>2 DEF Positions, container, TypeOK
  <2>3. Held' = contents
    <3>1. CASE algorithm = "INSERTION"
      <4>1. pc' = "insertion" /\ loop'.insertionIndex = 1 /\ tmp' = contents[1]
        BY <2>1, <3>1 DEF FirstLoop, FirstOf
      <4> QED
        BY <2>1, <2>2, <4>1 DEF Held
    <3>2. CASE algorithm # "INSERTION"
      <4>1. pc' # "insertion"
        BY <2>1, <3>2 DEF FirstLoop, Algorithms
      <4> QED
        BY <2>1, <4>1 DEF Held
    <3> QED
      BY <3>1, <3>2
  <2> QED
    BY <2>2, <2>3, ReordersItself DEF Conserved
<1> QED
  BY <1>1, <1>2, CallLemma

LEMMA InvInit == Init => Inv
BY TypeInit DEF Inv, Conserved, Init

LEMMA InvStep == Inv /\ [Next]_vars => Inv'
<1> SUFFICES ASSUME Inv, [Next]_vars
             PROVE  Conserved'
  BY TypeStep DEF Inv
<1> USE DEF Inv
<1>1. CASE Call
  BY <1>1, CallConserved
<1>2. CASE BubbleCompare \/ BubblePass
  BY <1>2, BubbleConserved
<1>3. CASE SelectionCompare \/ SelectionSwap
  BY <1>3, SelectionConserved
<1>4. CASE InsertionShift \/ InsertionPlace
  BY <1>4, InsertionConserved
<1>5. CASE QuickReturn \/ PartitionStart \/ PartitionCompare \/ PartitionEnd
  BY <1>5, QuickConserved
<1>6. CASE BogoCheck \/ BogoSorted \/ BogoSwap \/ BogoShuffled
  BY <1>6, BogoConserved
<1>7. CASE Finish
  BY <1>7 DEF Finish, Conserved
<1>8. CASE UNCHANGED vars
  BY <1>8 DEF vars, Conserved, Held, Positions, container, memory
<1> QED
  BY <1>1, <1>2, <1>3, <1>4, <1>5, <1>6, <1>7, <1>8, Zenon DEF Next, Step

\* No sort loses or duplicates an element of its container, not even while it
\* runs, and whatever the comparator answers (docs/sorting.md).
THEOREM ContentsKept == Spec => []Conserved
<1>1. Spec => []Inv
  BY InvInit, InvStep, PTL DEF Spec
<1>2. Inv => Conserved
  BY DEF Inv
<1> QED
  BY <1>1, <1>2, PTL

-----------------------------------------------------------------------------
(* How deep the calls of QuickSortRange nest.                              *)

\* A power of two counts the subsets of an interval.
LEMMA PowersCount ==
    ASSUME NEW n \in Nat
    PROVE  /\ IsFiniteSet(SUBSET (1 .. n))
           /\ Cardinality(SUBSET (1 .. n)) = 2 ^ n
           /\ 2 ^ n \in Nat
<1>1. IsFiniteSet(1 .. n) /\ Cardinality(1 .. n) = n
  BY FS_Interval
<1>2. IsFiniteSet(SUBSET (1 .. n)) /\ Cardinality(SUBSET (1 .. n)) = 2 ^ n
  BY <1>1, FS_SUBSET
<1> QED
  BY <1>2, FS_CardinalityType

\* The subsets with the new greatest element are as many as those without.
LEMMA PowersDouble ==
    ASSUME NEW n \in Nat
    PROVE  2 ^ (n + 1) = 2 * 2 ^ n
<1> DEFINE P == SUBSET (1 .. n)
           Q == (SUBSET (1 .. n + 1)) \ P
           add == [X \in P |-> X \cup {n + 1}]
<1>1. SUBSET (1 .. n + 1) = P \cup Q /\ P \cap Q = {}
  <2>1. 1 .. n \subseteq 1 .. n + 1
    OBVIOUS
  <2>2. P \subseteq SUBSET (1 .. n + 1)
    BY <2>1, Zenon
  <2> HIDE DEF P
  <2> QED
    BY <2>2, Zenon
<1>2. add \in [P -> Q]
  <2> SUFFICES ASSUME NEW X \in P
               PROVE  X \cup {n + 1} \in Q
    OBVIOUS
  <2>1. X \cup {n + 1} \in SUBSET (1 .. n + 1)
    OBVIOUS
  <2>2. n + 1 \in X \cup {n + 1} /\ n + 1 \notin 1 .. n
    OBVIOUS
  <2>3. X \cup {n + 1} \notin P
    BY <2>2, Zenon
  <2> QED
    BY <2>1, <2>3, Zenon
<1>3. \A X, Y \in P : add[X] = add[Y] => X = Y
  <2> SUFFICES ASSUME NEW X \in P, NEW Y \in P, X \cup {n + 1} = Y \cup {n + 1}
               PROVE  X = Y
    OBVIOUS
  <2>1. n + 1 \notin X /\ n + 1 \notin Y
    <3>1. n + 1 \notin 1 .. n
      OBVIOUS
    <3> QED
      BY <3>1
  <2> QED
    BY <2>1
<1>4. \A Z \in Q : \E X \in P : add[X] = Z
  <2> SUFFICES ASSUME NEW Z \in Q
               PROVE  \E X \in P : X \cup {n + 1} = Z
    OBVIOUS
  <2>1. n + 1 \in Z
    <3>1. PICK z \in Z : z \notin 1 .. n
      BY Zenon
    <3>2. z \in 1 .. n + 1
      BY <3>1
    <3>3. z = n + 1
      BY <3>1, <3>2
    <3> QED
      BY <3>1, <3>3
  <2>2. Z \ {n + 1} \in P
    <3>1. \A z \in Z \ {n + 1} : z \in 1 .. n
      OBVIOUS
    <3> QED
      BY <3>1
  <2>3. (Z \ {n + 1}) \cup {n + 1} = Z
    BY <2>1
  <2> QED
    BY <2>2, <2>3
<1>5. ExistsBijection(P, Q)
  <2>1. add \in Bijection(P, Q)
    BY <1>2, <1>3, <1>4 DEF Bijection, Injection, Surjection, IsInjective
  <2> QED
    BY <2>1 DEF ExistsBijection
<1>6. IsFiniteSet(P) /\ Cardinality(P) = 2 ^ n /\ 2 ^ n \in Nat
  BY PowersCount
<1>7. IsFiniteSet(Q) /\ Cardinality(Q) = 2 ^ n
  BY <1>5, <1>6, FS_Bijection
<1>8. Cardinality(P \cup Q) = 2 ^ n + 2 ^ n - Cardinality({})
  BY <1>1, <1>6, <1>7, FS_Union
<1>9. Cardinality(SUBSET (1 .. n + 1)) = 2 ^ (n + 1)
  <2>1. n + 1 \in Nat
    OBVIOUS
  <2> QED
    BY <2>1, PowersCount
<1>10. Cardinality({}) = 0
  BY FS_EmptySet
<1>11. 2 ^ (n + 1) = 2 ^ n + 2 ^ n - 0
  BY <1>1, <1>8, <1>9, <1>10, Zenon
<1> QED
  BY <1>6, <1>11

\* The number of elements of a range.
Width(range) == range.end - range.begin

\* A frame is at most half as wide as the one below it was when that called it:
\* with the pivot, which belongs to neither side, each call halves what is left.
Halved ==
    pc \in {"range", "partition"} =>
        \A k \in 1 .. Len(loop.frames) : (Width(loop.frames[k]) + 1) * 2 ^ (k - 1) <= size + 1

LEMMA HalvedShallow == TypeOK /\ Halved => ShallowStack
<1> SUFFICES ASSUME TypeOK, Halved, pc \in {"range", "partition"}
             PROVE  2 ^ (Len(loop.frames) - 1) <= size + 1
  BY DEF ShallowStack
<1> DEFINE n == Len(loop.frames)
<1>1. n \in Nat \ {0} /\ loop.frames[n] \in Ranges
  BY TopFrame, LastFrame DEF Frames
<1>2. Width(loop.frames[n]) \in Nat /\ size \in Nat
  BY <1>1, TopFrame DEF Ranges, Width
<1>3. (Width(loop.frames[n]) + 1) * 2 ^ (n - 1) <= size + 1
  BY <1>1 DEF Halved
<1>4. 2 ^ (n - 1) \in Nat
  <2>1. n - 1 \in Nat
    BY <1>1
  <2> QED
    BY <2>1, PowersCount
<1>5. \A w, p, s \in Nat : (w + 1) * p <= s + 1 => p <= s + 1
  OBVIOUS
<1> QED
  BY <1>2, <1>3, <1>4, <1>5

\* The smaller side of a partition is called; the pivot is in neither.
LEMMA DescendHalves ==
    ASSUME TypeOK, pc = "partition", NEW pivot \in Nat, Top.begin <= pivot, pivot < Top.end
    PROVE  \E larger, smaller \in Ranges :
              /\ Descend(pivot) = Below \o <<larger, smaller>>
              /\ Width(larger) + 1 <= Width(Top)
              /\ 2 * (Width(smaller) + 1) <= Width(Top) + 1
<1> DEFINE left == Range0(Top.begin, pivot)
           right == Range0(pivot + 1, Top.end)
<1>1. Top.begin \in 0 .. size /\ Top.end \in 0 .. size /\ size \in Nat
  BY TopFrame
<1>2. /\ left \in Ranges /\ right \in Ranges
      /\ Width(left) \in Nat /\ Width(right) \in Nat
      /\ Width(left) + Width(right) + 1 = Width(Top)
  BY <1>1 DEF Range0, Ranges, Width
<1>3. \/ Descend(pivot) = Below \o <<right, left>> /\ Width(left) < Width(right)
      \/ Descend(pivot) = Below \o <<left, right>> /\ ~ (Width(left) < Width(right))
  BY Zenon DEF Descend, Width
<1>4. Width(Top) \in Nat
  BY <1>2
<1> HIDE DEF left, right
<1>5. CASE Descend(pivot) = Below \o <<right, left>> /\ Width(left) < Width(right)
  <2>1. Width(right) + 1 <= Width(Top) /\ 2 * (Width(left) + 1) <= Width(Top) + 1
    BY <1>2, <1>4, <1>5
  <2> QED
    BY <1>2, <1>5, <2>1, Zenon
<1>6. CASE Descend(pivot) = Below \o <<left, right>> /\ ~ (Width(left) < Width(right))
  <2>1. Width(left) + 1 <= Width(Top) /\ 2 * (Width(right) + 1) <= Width(Top) + 1
    BY <1>2, <1>4, <1>6
  <2> QED
    BY <1>2, <1>6, <2>1, Zenon
<1> QED
  BY <1>3, <1>5, <1>6, Zenon

\* What is below the last frame stays where it was when that is replaced by two.
Shorter(f) == SubSeq(f, 1, Len(f) - 1)

LEMMA BelowFrames ==
    ASSUME NEW R, NEW f \in Seq(R) \ {<<>>}, NEW a \in R, NEW b \in R
    PROVE  /\ Len(Shorter(f)) = Len(f) - 1
           /\ \A k \in 1 .. Len(f) - 1 : Shorter(f)[k] = f[k]
           /\ Len(Shorter(f) \o <<a, b>>) = Len(f) + 1
           /\ \A k \in 1 .. Len(f) - 1 : (Shorter(f) \o <<a, b>>)[k] = f[k]
           /\ (Shorter(f) \o <<a, b>>)[Len(f)] = a
           /\ (Shorter(f) \o <<a, b>>)[Len(f) + 1] = b
<1> DEFINE below == Shorter(f)
           g     == below \o <<a, b>>
<1>1. Len(f) \in Nat \ {0}
  OBVIOUS
<1>2. below \in Seq(R) /\ Len(below) = Len(f) - 1 /\ \A k \in 1 .. Len(f) - 1 : below[k] = f[k]
  <2>1. Len(f) - 1 \in Nat /\ Len(f) - 1 <= Len(f)
    BY <1>1
  <2>2. f \in Seq(R)
    OBVIOUS
  <2>3. below \in Seq(R)
    BY <2>1, <2>2, LastFrame DEF Shorter
  <2>4. below = [k \in 1 .. Len(f) - 1 |-> f[k]]
    BY <2>1, <2>2 DEF Shorter
  <2> HIDE DEF below
  <2>5. Len(below) = Len(f) - 1
    BY <2>1, <2>3, <2>4
  <2> QED
    BY <2>3, <2>4, <2>5
<1>3. <<a, b>> \in Seq(R) /\ Len(<<a, b>>) = 2 /\ <<a, b>>[1] = a /\ <<a, b>>[2] = b
  OBVIOUS
<1> HIDE DEF below
<1>4. /\ Len(g) = Len(f) + 1
      /\ \A k \in 1 .. Len(f) - 1 : g[k] = below[k]
      /\ g[Len(f)] = a
      /\ g[Len(f) + 1] = b
  BY <1>1, <1>2, <1>3
<1> QED
  BY <1>2, <1>4 DEF below

LEMMA QuickHalved ==
    ASSUME TypeOK, Halved, QuickReturn \/ PartitionStart \/ PartitionCompare \/ PartitionEnd
    PROVE  Halved'
<1> DEFINE n == Len(loop.frames)
<1>1. pc \in {"range", "partition"} /\ size' = size
  BY DEF QuickReturn, PartitionStart, PartitionCompare, PartitionEnd, Running, container
<1>2. /\ loop.frames \in Seq(Ranges) \ {<<>>} /\ n \in Nat \ {0}
      /\ Top \in Ranges /\ Below \in Seq(Ranges) /\ size \in Nat
  BY <1>1, TopFrame, LastFrame DEF Frames
<1>3. \A k \in 1 .. n : (Width(loop.frames[k]) + 1) * 2 ^ (k - 1) <= size + 1
  BY <1>1 DEF Halved
<1>4. CASE QuickReturn
  <2>1. CASE Done("sorted")
    BY <2>1 DEF Done, Halved
  <2>2. CASE Continue([loop EXCEPT !.frames = Below])
    <3>1. pc = "range" /\ loop \in [frames : Frames]
      BY <1>4 DEF QuickReturn, TypeOK
    <3>2. loop'.frames = Below
      BY <2>2, <3>1 DEF Continue
    <3>3. Len(Below) = n - 1 /\ \A k \in 1 .. n - 1 : Below[k] = loop.frames[k]
      BY <1>2, BelowFrames DEF Below, Shorter
    <3>4. \A k \in 1 .. Len(loop'.frames) : k \in 1 .. n /\ loop'.frames[k] = loop.frames[k]
      BY <1>2, <3>2, <3>3
    <3> QED
      BY <1>1, <1>3, <3>4 DEF Halved
  <2> QED
    BY <1>4, <2>1, <2>2 DEF QuickReturn
<1>5. CASE PartitionStart \/ PartitionCompare
  <2>1. loop'.frames = loop.frames
    <3>1. CASE PartitionStart
      BY <3>1 DEF PartitionStart
    <3>2. CASE PartitionCompare
      <4>1. loop \in [frames : Frames, current : Positions, insertionIndex : Positions]
        BY <3>2 DEF PartitionCompare, TypeOK
      <4>2. \/ loop' = [loop EXCEPT !.current = @ + 1, !.insertionIndex = @ + 1]
            \/ loop' = [loop EXCEPT !.current = @ + 1]
        BY <3>2, Zenon DEF PartitionCompare, Continue
      <4> QED
        BY <4>1, <4>2
    <3> QED
      BY <1>5, <3>1, <3>2
  <2> QED
    BY <1>1, <1>3, <2>1 DEF Halved
<1>6. CASE PartitionEnd
  <2>1. /\ pc = "partition" /\ loop.insertionIndex \in Nat
        /\ Top.begin <= loop.insertionIndex /\ loop.insertionIndex < Top.end
    <3>1. /\ pc = "partition" /\ loop.insertionIndex \in Positions /\ loop.current \in Positions
          /\ Top.begin <= loop.insertionIndex
          /\ loop.insertionIndex <= loop.current
          /\ loop.current < Top.end
      BY <1>6 DEF PartitionEnd, TypeOK
    <3>2. Top.end \in Nat
      BY <1>2 DEF Ranges
    <3> QED
      BY <1>2, <3>1, <3>2 DEF Positions
  <2>2. PICK larger, smaller \in Ranges :
           /\ Descend(loop.insertionIndex) = Below \o <<larger, smaller>>
           /\ Width(larger) + 1 <= Width(Top)
           /\ 2 * (Width(smaller) + 1) <= Width(Top) + 1
    BY <2>1, DescendHalves
  <2>3. loop'.frames = Below \o <<larger, smaller>>
    BY <1>6, <2>2 DEF PartitionEnd
  <2>4. /\ Len(loop'.frames) = n + 1
        /\ \A k \in 1 .. n - 1 : loop'.frames[k] = loop.frames[k]
        /\ loop'.frames[n] = larger
        /\ loop'.frames[n + 1] = smaller
    <3>1. Below = Shorter(loop.frames)
      BY DEF Below, Shorter
    <3> DEFINE f == loop.frames
               g == Shorter(f) \o <<larger, smaller>>
    <3>2. /\ Len(g) = Len(f) + 1
          /\ \A k \in 1 .. Len(f) - 1 : g[k] = f[k]
          /\ g[Len(f)] = larger
          /\ g[Len(f) + 1] = smaller
      <4>1. f \in Seq(Ranges) \ {<<>>}
        BY <1>2
      <4> HIDE DEF f
      <4> QED
        BY <4>1, BelowFrames
    <3>3. loop'.frames = g
      BY <2>3, <3>1
    <3> HIDE DEF g
    <3> QED
      BY <3>2, <3>3
  <2>5. Width(larger) \in Nat /\ Width(smaller) \in Nat /\ Width(Top) \in Nat /\ size + 1 \in Nat
    <3>1. \A range \in Ranges : Width(range) \in Nat
      BY <1>2 DEF Width, Ranges
    <3>2. size + 1 \in Nat
      BY <1>2
    <3> QED
      BY <1>2, <3>1, <3>2, Zenon
  <2>6. 2 ^ (n - 1) \in Nat /\ 2 ^ n = 2 * 2 ^ (n - 1)
    <3>1. n - 1 \in Nat /\ (n - 1) + 1 = n
      BY <1>2
    <3> QED
      BY <3>1, PowersCount, PowersDouble
  <2>7. (Width(Top) + 1) * 2 ^ (n - 1) <= size + 1
    BY <1>2, <1>3 DEF Top
  <2>8. \A w, v, p, s \in Nat : v + 1 <= w /\ (w + 1) * p <= s => (v + 1) * p <= s
    OBVIOUS
  <2>9. \A w, v, p, s \in Nat : 2 * (v + 1) <= w + 1 /\ (w + 1) * p <= s => (v + 1) * (2 * p) <= s
    OBVIOUS
  <2>10. (Width(larger) + 1) * 2 ^ (n - 1) <= size + 1
    BY <2>2, <2>5, <2>6, <2>7, <2>8, Zenon
  <2>11. (Width(smaller) + 1) * 2 ^ n <= size + 1
    BY <2>2, <2>5, <2>6, <2>7, <2>9, Zenon
  <2>12. \A k \in 1 .. n + 1 : (Width(loop'.frames[k]) + 1) * 2 ^ (k - 1) <= size + 1
    <3> SUFFICES ASSUME NEW k \in 1 .. n + 1
                 PROVE  (Width(loop'.frames[k]) + 1) * 2 ^ (k - 1) <= size + 1
      OBVIOUS
    <3>1. CASE k \in 1 .. n - 1
      <4>1. k \in 1 .. n
        BY <1>2, <3>1
      <4>2. loop'.frames[k] = loop.frames[k]
        BY <2>4, <3>1, Zenon
      <4> QED
        BY <1>3, <4>1, <4>2, Zenon
    <3>2. CASE k = n
      BY <2>4, <2>10, <3>2
    <3>3. CASE k = n + 1
      <4>1. k - 1 = n
        BY <1>2, <3>3
      <4> QED
        BY <2>4, <2>11, <3>3, <4>1
    <3> QED
      BY <1>2, <3>1, <3>2, <3>3
  <2> QED
    BY <1>1, <2>4, <2>12 DEF Halved
<1> QED
  BY <1>4, <1>5, <1>6

LEMMA CallHalved ==
    ASSUME TypeOK, Halved, Call
    PROVE  Halved'
<1>1. CASE UNCHANGED <<container, memory, pc, loop, call>>
  BY <1>1 DEF Halved, container
<1>2. CASE /\ pc = "idle" /\ size >= 2
           /\ \E algorithm \in Algorithms :
                 /\ pc' = FirstLoop[algorithm]
                 /\ loop' = FirstOf(algorithm)
                 /\ buffer' = contents
                 /\ tmp' = IF algorithm = "INSERTION" THEN contents[1] ELSE Junk
           /\ UNCHANGED container
  <2>1. PICK algorithm \in Algorithms :
           pc' = FirstLoop[algorithm] /\ loop' = FirstOf(algorithm)
    BY <1>2
  <2>2. size' = size /\ size \in Nat
    BY <1>2, MaxSizeNat DEF container, TypeOK
  <2>3. CASE algorithm = "QUICK"
    <3>1. loop'.frames = <<Range0(0, size)>>
      BY <2>1, <2>3 DEF FirstOf
    <3>2. Len(loop'.frames) = 1 /\ Width(loop'.frames[1]) = size
      BY <2>2, <3>1 DEF Width, Range0
    <3>3. 2 ^ 0 = 1
      OBVIOUS
    <3>4. \A k \in 1 .. Len(loop'.frames) : k = 1
      BY <3>2
    <3>5. (Width(loop'.frames[1]) + 1) * 2 ^ (1 - 1) <= size + 1
      BY <2>2, <3>2, <3>3
    <3> QED
      BY <2>2, <3>4, <3>5 DEF Halved
  <2>4. CASE algorithm # "QUICK"
    <3>1. pc' \notin {"range", "partition"}
      BY <2>1, <2>4 DEF FirstLoop, Algorithms
    <3> QED
      BY <3>1 DEF Halved
  <2> QED
    BY <2>3, <2>4
<1> QED
  BY <1>1, <1>2, CallLemma

LEMMA HalvedStep == TypeOK /\ Halved /\ [Next]_vars => Halved'
<1> SUFFICES ASSUME TypeOK, Halved, [Next]_vars
             PROVE  Halved'
  OBVIOUS
<1>1. CASE Call
  BY <1>1, CallHalved
<1>2. CASE QuickReturn \/ PartitionStart \/ PartitionCompare \/ PartitionEnd
  BY <1>2, QuickHalved
<1>3. CASE \/ BubbleCompare \/ BubblePass \/ SelectionCompare \/ SelectionSwap
           \/ InsertionShift \/ InsertionPlace
           \/ BogoCheck \/ BogoSorted \/ BogoSwap \/ BogoShuffled \/ Finish
  <2>1. pc' \notin {"range", "partition"}
    BY <1>3 DEF BubbleCompare, BubblePass, SelectionCompare, SelectionSwap, InsertionShift,
                InsertionPlace, BogoCheck, BogoSorted, BogoSwap, BogoShuffled, Finish,
                Continue, Done
  <2> QED
    BY <2>1 DEF Halved
<1>4. CASE UNCHANGED vars
  BY <1>4 DEF vars, Halved, container
<1> QED
  BY <1>1, <1>2, <1>3, <1>4, Zenon DEF Next, Step

\* QuickSortRange calls itself for the smaller side only: its calls nest at most
\* log2(size + 1) + 1 deep, whichever pivots the comparator's answers make.
THEOREM DepthSafety == Spec => []ShallowStack
<1>1. Init => Halved
  BY DEF Init, Halved
<1>2. Spec => [](TypeOK /\ Halved)
  BY <1>1, TypeInit, TypeStep, HalvedStep, PTL DEF Spec
<1> QED
  BY <1>2, HalvedShallow, PTL
=============================================================================
