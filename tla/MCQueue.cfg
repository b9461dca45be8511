\* Three elements, with and without a destroy callback; memory for four.
SPECIFICATION Spec
CONSTANTS
    n1 = n1
    n2 = n2
    n3 = n3
    n4 = n4
    b1 = b1
    b2 = b2
    b3 = b3
    b4 = b4
    x = x
    y = y
    z = z
    NULL = NULL
    Junk = Junk
    Caller = Caller
    Fresh <- MCFirst
    Nodes <- MCNodes
    Blocks <- MCBlocks
    Elements <- MCElements
    Key <- MCKey
    ElementTypes <- MCTypes
    SizeMax = 3
    MaxInitial = 3
VIEW MCView
SYMMETRY MCSymmetry
INVARIANT WellLinked
INVARIANT NothingLeaks
INVARIANT OwnedOnce
PROPERTY ImplementsQueue
