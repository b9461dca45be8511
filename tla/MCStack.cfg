\* Three elements, with and without a destroy callback.
SPECIFICATION StackSpec
CONSTANTS
    b1 = b1
    b2 = b2
    b3 = b3
    x = x
    y = y
    z = z
    NULL = NULL
    Junk = Junk
    Caller = Caller
    Fresh <- MCAny
    Blocks <- MCBlocks
    Elements <- MCElements
    Key <- MCKey
    ElementTypes <- MCTypes
    SizeMax = 5
    InitialCapacity = 2
    MaxInitial = 3
VIEW MCView
SYMMETRY MCSymmetry
INVARIANT StorageConsistent
INVARIANT OwnedOnce
PROPERTY ImplementsStack
