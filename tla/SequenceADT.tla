---------------------------- MODULE SequenceADT -----------------------------
(***************************************************************************)
(* The part of the promise that the four containers of libadt share: they  *)
(* hold a sequence of elements they own, are initialised empty or from an  *)
(* array, and can be cleared and destroyed.  Memory appears only as the    *)
(* right of a call that allocates to fail, leaving everything as it was.   *)
(***************************************************************************)
EXTENDS Ownership, SequencesExt

CONSTANT MaxIndex   \* bounds the counts and indices a caller asks for

VARIABLES live, elementType, contents

sequence == <<live, elementType, contents>>
vars == <<ownership, sequence>>

Indices == 0 .. MaxIndex

\* The call that a step makes; it succeeds, or does not do what it was asked to.
Call(op, index, arg) == result'.op = op /\ result'.index = index /\ result'.arg = arg

Succeeds(op, index, arg, out) ==
    /\ Call(op, index, arg)
    /\ result' = Called(op, index, arg, TRUE, out)

Fails(op, index, arg) ==
    /\ Call(op, index, arg)
    /\ result' = Called(op, index, arg, FALSE, NoOutput)
    /\ UNCHANGED <<caller, released, sequence>>

-----------------------------------------------------------------------------
Init ==
    /\ OwnershipInit
    /\ live = FALSE
    /\ elementType = ZeroType
    /\ contents = <<>>

\* Init and InitFrom, on a container that is not live: the new sequence holds
\* the elements of the array that was passed, or nothing happened.
Initialize(type) ==
    /\ ~ live
    /\ type.elementSize > 0
    /\ contents' \in Seq(Elements)
    /\ OfferedArray(type, contents')
    /\ \/ Succeeds("Init", 0, NULL, NoOutput) /\ contents' = <<>>
       \/ Succeeds("InitFrom", Len(contents'), NULL, NoOutput)
    /\ live' = TRUE
    /\ elementType' = type
    /\ caller' = HandedOver(type, ToSet(contents'))
    /\ UNCHANGED released

CannotInitialize ==
    /\ ~ live
    /\ Fails("Init", 0, NULL) \/ \E n \in Indices : Fails("InitFrom", n, NULL)

\* Storing an element is the only call on a live container that may fail for
\* a reason of its own.  An element that is stored is handed over.
Store(op, index, e) ==
    \/ /\ Succeeds(op, index, e, NoOutput)
       /\ live
       /\ e # NULL
       /\ index <= Len(contents)
       /\ contents' = InsertAt(contents, index + 1, e)
       /\ caller' = HandedOver(elementType, {e})
       /\ UNCHANGED <<released, live, elementType>>
    \/ Fails(op, index, e)

\* Reading, taking and deleting the element at a position of the sequence, if
\* there is one: a copy that owns nothing, a transfer to the caller, a release.
At(op, position, arg) ==
    /\ Call(op, position - 1, arg)
    /\ position \in DOMAIN contents

Read(op, position, out) ==
    /\ At(op, position, out)
    /\ Succeeds(op, position - 1, out, contents[position])
    /\ UNCHANGED <<caller, released, sequence>>

Transfer(op, position, out) ==
    /\ At(op, position, out)
    /\ Succeeds(op, position - 1, out, contents[position])
    /\ contents' = RemoveAt(contents, position)
    /\ caller' = HandedBack(elementType, contents[position])
    /\ UNCHANGED <<released, live, elementType>>

Delete(op, position) ==
    /\ At(op, position, NULL)
    /\ Succeeds(op, position - 1, NULL, NoOutput)
    /\ contents' = RemoveAt(contents, position)
    /\ released' = Destroyed(elementType, <<contents[position]>>)
    /\ UNCHANGED <<caller, live, elementType>>

Clear ==
    /\ Succeeds("Clear", 0, NULL, NoOutput)
    /\ contents' = <<>>
    /\ released' = Destroyed(elementType, contents)
    /\ UNCHANGED <<caller, live, elementType>>

Destroy ==
    /\ Succeeds("Destroy", 0, NULL, NoOutput)
    /\ contents' = <<>>
    /\ released' = Destroyed(elementType, contents)
    /\ live' = FALSE
    /\ elementType' = ZeroType
    /\ UNCHANGED caller

\* What a caller may pass to be stored.
Storable == Offered(elementType) \cup ToSet(contents) \cup {NULL}

Common ==
    \/ \E type \in ElementTypes : Initialize(type)
    \/ CannotInitialize
    \/ Clear
    \/ Destroy
    \/ \E e \in Elements : Acquire(e) /\ UNCHANGED sequence
=============================================================================
