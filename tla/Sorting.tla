------------------------------ MODULE Sorting ------------------------------
(***************************************************************************)
(* src/shared/sorting.c: adt_SortBy copies the elements of a container to  *)
(* a buffer, sorts the buffer by one of five algorithms, and copies it     *)
(* back.                                                                   *)
(*                                                                         *)
(* The comparator is a callback of the caller: between two of its calls    *)
(* the buffer is in the state the algorithm left it in, so each call of it *)
(* is a step of its own, with the moves that follow it.  A comparator need *)
(* not be an order: it answers whatever Answers allows.                    *)
(***************************************************************************)
EXTENDS ElementType, Sequences, Functions

CONSTANTS
    Junk,               \* the contents of memory malloc has returned
    SizeMax,            \* SIZE_MAX
    MaxSize,            \* the largest container that is sorted
    Answers(_, _),      \* the signs of what the comparator may return
    BogoMaxElements,    \* BOGO_MAX_ELEMENTS
    BogoMaxShuffles     \* BOGO_MAX_SHUFFLES

Signs == {-1, 0, 1}

ASSUME SortingAssumption ==
    /\ SizeMax \in Nat /\ MaxSize \in 0 .. SizeMax
    /\ BogoMaxElements \in Nat /\ BogoMaxShuffles \in Nat
    /\ \A x, y \in Elements : Answers(x, y) \in (SUBSET Signs) \ {{}}

VARIABLES
    type,       \* the element type of the container
    size,       \* its size, and
    contents,   \* its elements in the order its visitors show them
    pc,         \* which loop is running, or "idle" between two calls
    loop,       \* the variables of that loop
    buffer,     \* the temporary buffer, and
    tmp,        \* the room for one element, NULL when they are not allocated
    call,       \* the arguments of the call
    result      \* the last call and the bool it returned

container == <<type, size, contents>>
memory == <<buffer, tmp>>
vars == <<container, memory, pc, loop, call, result>>

Algorithms == {"BUBBLE", "SELECTION", "INSERTION", "QUICK", "BOGO"}
NoCall == [algorithm |-> NULL, compare |-> FALSE]
Returned(c, ok) == [algorithm |-> c.algorithm, compare |-> c.compare, ok |-> ok]

Positions == 0 .. size - 1

Init ==
    /\ type \in ElementTypes
    /\ size \in 0 .. MaxSize
    /\ contents \in [Positions -> Elements]
    /\ pc = "idle" /\ loop = <<>>
    /\ buffer = NULL /\ tmp = NULL
    /\ call = NoCall
    /\ result = Returned(NoCall, TRUE)

-----------------------------------------------------------------------------
(* adt_SortBy, up to the call of the algorithm.                            *)

Return(c, ok) ==
    /\ result' = Returned(c, ok)
    /\ UNCHANGED <<container, memory, pc, loop, call>>

Range0(begin, end) == [begin |-> begin, end |-> end]

FirstLoop == [BUBBLE |-> "bubble", SELECTION |-> "selection",
              INSERTION |-> "insertion", QUICK |-> "range", BOGO |-> "check"]

FirstOf(algorithm) ==
    CASE algorithm = "BUBBLE"    -> [end |-> size, i |-> 1, swapped |-> FALSE]
      [] algorithm = "SELECTION" -> [current |-> 0, smallest |-> 0, test |-> 1]
      [] algorithm = "INSERTION" -> [current |-> 1, insertionIndex |-> 1]
      [] algorithm = "QUICK"     -> [frames |-> <<Range0(0, size)>>]
      [] algorithm = "BOGO"      -> [attempt |-> 0, i |-> 1]

\* Both allocations are tried; when one fails, both are freed.
Allocate(c) ==
    \/ /\ buffer' = contents
       /\ tmp' = IF c.algorithm = "INSERTION" THEN contents[1] ELSE Junk
       /\ pc' = FirstLoop[c.algorithm]
       /\ loop' = FirstOf(c.algorithm)
       /\ call' = c
       /\ UNCHANGED <<container, result>>
    \/ Return(c, FALSE)

adt_SortBy(algorithm, compare) ==
    LET c == [algorithm |-> algorithm, compare |-> compare]
    IN  /\ pc = "idle"
        /\ IF type.elementSize = 0 \/ ~ compare \/ algorithm \notin Algorithms
           THEN Return(c, FALSE)
           ELSE IF size < 2
           THEN Return(c, TRUE)
           ELSE IF size > SizeMax \div type.elementSize
           THEN Return(c, FALSE)
           ELSE Allocate(c)

adt_Sort(algorithm) == adt_SortBy(algorithm, type.compare)

\* The algorithm returns: the buffer is copied back if it is sorted, then freed.
Finish ==
    /\ pc \in {"sorted", "failed"}
    /\ contents' = IF pc = "sorted" THEN buffer ELSE contents
    /\ result' = Returned(call, pc = "sorted")
    /\ pc' = "idle" /\ loop' = <<>>
    /\ buffer' = NULL /\ tmp' = NULL
    /\ call' = NoCall
    /\ UNCHANGED <<type, size>>

-----------------------------------------------------------------------------
(* What the algorithms have in common.                                     *)

Swap(i, j) ==
    IF i = j
    THEN UNCHANGED memory
    ELSE /\ tmp' = buffer[i]
         /\ buffer' = [buffer EXCEPT ![i] = buffer[j], ![j] = buffer[i]]

\* A step inside an algorithm leaves the container and the call alone.
Running == UNCHANGED <<container, call, result>>
Continue(l) == loop' = l /\ UNCHANGED pc
Done(how) == pc' = how /\ loop' = <<>>

-----------------------------------------------------------------------------
(* BubbleSortBuffer                                                        *)

\* A slip: two elements that compare equal are swapped.
BubbleCompare_SwapsTies ==
    /\ pc = "bubble" /\ loop.i < loop.end
    /\ \E answer \in Answers(buffer[loop.i - 1], buffer[loop.i]) :
          IF answer >= 0
          THEN /\ Swap(loop.i - 1, loop.i)
               /\ Continue([loop EXCEPT !.i = @ + 1, !.swapped = TRUE])
          ELSE Continue([loop EXCEPT !.i = @ + 1]) /\ UNCHANGED memory
    /\ Running

BubbleCompare ==
    /\ pc = "bubble" /\ loop.i < loop.end
    /\ \E answer \in Answers(buffer[loop.i - 1], buffer[loop.i]) :
          IF answer > 0
          THEN /\ Swap(loop.i - 1, loop.i)
               /\ Continue([loop EXCEPT !.i = @ + 1, !.swapped = TRUE])
          ELSE Continue([loop EXCEPT !.i = @ + 1]) /\ UNCHANGED memory
    /\ Running

BubblePass ==
    /\ pc = "bubble" /\ loop.i >= loop.end
    /\ IF loop.swapped /\ loop.end > 2
       THEN Continue([end |-> loop.end - 1, i |-> 1, swapped |-> FALSE])
       ELSE Done("sorted")
    /\ UNCHANGED memory
    /\ Running

-----------------------------------------------------------------------------
(* SelectionSortBuffer                                                     *)

SelectionCompare ==
    /\ pc = "selection" /\ loop.test < size
    /\ \E answer \in Answers(buffer[loop.test], buffer[loop.smallest]) :
          Continue([loop EXCEPT !.test = @ + 1,
                                !.smallest = IF answer < 0 THEN loop.test ELSE @])
    /\ UNCHANGED memory
    /\ Running

SelectionSwap ==
    /\ pc = "selection" /\ loop.test >= size
    /\ Swap(loop.current, loop.smallest)
    /\ LET next == loop.current + 1
       IN  IF next + 1 < size
           THEN Continue([current |-> next, smallest |-> next, test |-> next + 1])
           ELSE Done("sorted")
    /\ Running

-----------------------------------------------------------------------------
(* InsertionSortBuffer                                                     *)

InsertionShift ==
    /\ pc = "insertion" /\ loop.insertionIndex > 0
    /\ \E answer \in Answers(buffer[loop.insertionIndex - 1], tmp) : answer > 0
    /\ buffer' = [buffer EXCEPT ![loop.insertionIndex] = buffer[loop.insertionIndex - 1]]
    /\ Continue([loop EXCEPT !.insertionIndex = @ - 1])
    /\ UNCHANGED tmp
    /\ Running

\* A slip: tmp is loaded with the next element before it is placed.
InsertionPlace_LoadsFirst ==
    /\ pc = "insertion"
    /\ loop.insertionIndex > 0 =>
          \E answer \in Answers(buffer[loop.insertionIndex - 1], tmp) : answer <= 0
    /\ LET next == loop.current + 1
       IN  IF next < size
           THEN /\ tmp' = buffer[next]
                /\ buffer' = [buffer EXCEPT ![loop.insertionIndex] = tmp']
                /\ Continue([current |-> next, insertionIndex |-> next])
           ELSE /\ buffer' = [buffer EXCEPT ![loop.insertionIndex] = tmp]
                /\ Done("sorted") /\ UNCHANGED tmp
    /\ Running

InsertionPlace ==
    /\ pc = "insertion"
    /\ loop.insertionIndex > 0 =>
          \E answer \in Answers(buffer[loop.insertionIndex - 1], tmp) : answer <= 0
    /\ buffer' = [buffer EXCEPT ![loop.insertionIndex] = tmp]
    /\ LET next == loop.current + 1
       IN  IF next < size
           THEN /\ tmp' = buffer[next]
                /\ Continue([current |-> next, insertionIndex |-> next])
           ELSE Done("sorted") /\ UNCHANGED tmp
    /\ Running

-----------------------------------------------------------------------------
(* QuickSortBuffer: the calls of QuickSortRange that have not returned are  *)
(* the frames, the running one last.                                        *)

Top == loop.frames[Len(loop.frames)]
Below == SubSeq(loop.frames, 1, Len(loop.frames) - 1)

QuickReturn ==
    /\ pc = "range" /\ Top.end - Top.begin < 2
    /\ IF Below = <<>>
       THEN Done("sorted")
       ELSE Continue([loop EXCEPT !.frames = Below])
    /\ UNCHANGED memory
    /\ Running

\* PartitionBuffer, up to its loop.
PartitionStart ==
    /\ pc = "range" /\ Top.end - Top.begin >= 2
    /\ Swap(Top.begin + (Top.end - Top.begin) \div 2, Top.end - 1)
    /\ pc' = "partition"
    /\ loop' = [frames |-> loop.frames, current |-> Top.begin, insertionIndex |-> Top.begin]
    /\ Running

PartitionCompare ==
    /\ pc = "partition" /\ loop.current < Top.end - 1
    /\ \E answer \in Answers(buffer[loop.current], buffer[Top.end - 1]) :
          IF answer < 0
          THEN /\ Swap(loop.current, loop.insertionIndex)
               /\ Continue([loop EXCEPT !.current = @ + 1, !.insertionIndex = @ + 1])
          ELSE Continue([loop EXCEPT !.current = @ + 1]) /\ UNCHANGED memory
    /\ Running

\* Two slips: the sides are swapped; the pivot stays in the right one.
Descend_LargerFirst(pivot) ==
    LET left  == Range0(Top.begin, pivot)
        right == Range0(pivot + 1, Top.end)
    IN  IF left.end - left.begin < right.end - right.begin
        THEN Below \o <<left, right>>
        ELSE Below \o <<right, left>>

Descend_KeepsPivot(pivot) ==
    LET left  == Range0(Top.begin, pivot)
        right == Range0(pivot, Top.end)
    IN  IF left.end - left.begin < right.end - right.begin
        THEN Below \o <<right, left>>
        ELSE Below \o <<left, right>>

\* The smaller side is sorted by a call of its own, the larger by the loop.
Descend(pivot) ==
    LET left  == Range0(Top.begin, pivot)
        right == Range0(pivot + 1, Top.end)
    IN  IF left.end - left.begin < right.end - right.begin
        THEN Below \o <<right, left>>
        ELSE Below \o <<left, right>>

PartitionEnd ==
    /\ pc = "partition" /\ loop.current >= Top.end - 1
    /\ Swap(loop.insertionIndex, Top.end - 1)
    /\ pc' = "range"
    /\ loop' = [frames |-> Descend(loop.insertionIndex)]
    /\ Running

-----------------------------------------------------------------------------
(* BogoSortBuffer: what the pseudo-random numbers are is left open.        *)

\* A slip: one shuffle more than the limit.
BogoCheck_OneMore ==
    /\ pc = "check" /\ loop.i < size
    /\ \E answer \in Answers(buffer[loop.i - 1], buffer[loop.i]) :
          IF answer <= 0
          THEN Continue([loop EXCEPT !.i = @ + 1])
          ELSE IF size > BogoMaxElements \/ loop.attempt > BogoMaxShuffles
          THEN Done("failed")
          ELSE pc' = "shuffle" /\ loop' = [attempt |-> loop.attempt, remaining |-> size]
    /\ UNCHANGED memory
    /\ Running

BogoCheck ==
    /\ pc = "check" /\ loop.i < size
    /\ \E answer \in Answers(buffer[loop.i - 1], buffer[loop.i]) :
          IF answer <= 0
          THEN Continue([loop EXCEPT !.i = @ + 1])
          ELSE IF size > BogoMaxElements \/ loop.attempt = BogoMaxShuffles
          THEN Done("failed")
          ELSE pc' = "shuffle" /\ loop' = [attempt |-> loop.attempt, remaining |-> size]
    /\ UNCHANGED memory
    /\ Running

BogoSorted ==
    /\ pc = "check" /\ loop.i >= size
    /\ Done("sorted")
    /\ UNCHANGED memory
    /\ Running

BogoSwap ==
    /\ pc = "shuffle" /\ loop.remaining > 1
    /\ \E randomIndex \in 0 .. loop.remaining - 1 : Swap(loop.remaining - 1, randomIndex)
    /\ Continue([loop EXCEPT !.remaining = @ - 1])
    /\ Running

BogoShuffled ==
    /\ pc = "shuffle" /\ loop.remaining <= 1
    /\ pc' = "check" /\ loop' = [attempt |-> loop.attempt + 1, i |-> 1]
    /\ UNCHANGED memory
    /\ Running

-----------------------------------------------------------------------------
Call ==
    \E algorithm \in Algorithms \cup {"UNKNOWN"} :
        \/ adt_Sort(algorithm)
        \/ \E compare \in BOOLEAN : adt_SortBy(algorithm, compare)

Step ==
    \/ BubbleCompare \/ BubblePass
    \/ SelectionCompare \/ SelectionSwap
    \/ InsertionShift \/ InsertionPlace
    \/ QuickReturn \/ PartitionStart \/ PartitionCompare \/ PartitionEnd
    \/ BogoCheck \/ BogoSorted \/ BogoSwap \/ BogoShuffled
    \/ Finish

Next == Call \/ Step

\* A call runs on once it was made; nobody has to make one.
Spec == Init /\ [][Next]_vars /\ WF_vars(Step)

-----------------------------------------------------------------------------
(* Properties                                                              *)

Ranges == {r \in [begin : 0 .. size, end : 0 .. size] : r.begin <= r.end}
Frames == Seq(Ranges) \ {<<>>}

Loops == {"idle", "bubble", "selection", "insertion", "range", "partition",
          "check", "shuffle", "sorted", "failed"}

\* Every loop variable stays in the range its loop gives it: no access leaves the
\* buffer, no unsigned difference of two of them wraps, whatever the comparator
\* answers.  No buffer is left allocated between two calls.
TypeOK ==
    /\ type \in ElementTypes
    /\ size \in 0 .. MaxSize
    /\ contents \in [Positions -> Elements]
    /\ pc \in Loops
    /\ IF pc = "idle"
       THEN buffer = NULL /\ tmp = NULL
       ELSE size >= 2 /\ buffer \in [Positions -> Elements] /\ tmp \in Elements \cup {Junk}
    /\ pc = "bubble" =>
          /\ loop \in [end : 2 .. size, i : 1 .. size, swapped : BOOLEAN]
          /\ loop.i <= loop.end
    /\ pc = "selection" =>
          /\ loop \in [current : Positions, smallest : Positions, test : 1 .. size]
          /\ loop.current < loop.test
    /\ pc = "insertion" =>
          /\ loop \in [current : 1 .. size - 1, insertionIndex : Positions]
          /\ loop.insertionIndex <= loop.current
          /\ tmp \in Elements
    /\ pc = "range" => loop \in [frames : Frames]
    /\ pc = "partition" =>
          /\ loop \in [frames : Frames, current : Positions, insertionIndex : Positions]
          /\ Top.begin <= loop.insertionIndex
          /\ loop.insertionIndex <= loop.current
          /\ loop.current < Top.end
    /\ pc = "check" => loop \in [attempt : 0 .. BogoMaxShuffles, i : 1 .. size]
    /\ pc = "shuffle" =>
          loop \in [attempt : 0 .. BogoMaxShuffles - 1, remaining : 1 .. size]

\* The elements a sort holds: insertion sort keeps one of them in tmp.
Held == IF pc = "insertion" THEN [buffer EXCEPT ![loop.insertionIndex] = tmp] ELSE buffer

\* f has the elements of g, each as often, at the positions of S.
Reorders(S, f, g) == \E p \in Bijection(S, S) : \A i \in S : f[i] = g[p[i]]

\* docs/sorting.md: sorting rearranges the records, and what they own with them.
\* Whenever the comparator is called, and whatever it answers, the buffer and
\* tmp hold every element of the container exactly once.
Conserved == pc # "idle" => Reorders(Positions, Held, contents)

\* QuickSortRange calls itself for the smaller side only (sorting.c:170-179), so
\* that its calls nest no deeper than log2(size + 1) + 1, whatever the pivots.
ShallowStack == pc \in {"range", "partition"} => 2 ^ (Len(loop.frames) - 1) <= size + 1

\* Every sort returns, even with a comparator that contradicts itself.
Terminates == pc # "idle" ~> pc = "idle"

\* adt_SortBy does in one step what SortADT says, between its call and its
\* return the container is what it was (docs/sorting.md, "Failure Behavior").
Sort == INSTANCE SortADT
ImplementsSort == Sort!Spec
=============================================================================
