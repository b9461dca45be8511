\* Elements that own a resource: the caller offers each one while it owns it.
SPECIFICATION ArraySpec
CONSTANTS
    b1 = b1
    b2 = b2
    b3 = b3
    x = x
    y = y
    z = z
    NULL = NULL
    Junk = Junk
    Caller = Caller
    Fresh <- MCAny
    Blocks <- MCBlocks
    Elements <- MCThree
    Key <- MCKey
    ElementTypes <- MCOwningTypes
    SizeMax = 7
    InitialCapacity = 2
    MaxInitial = 3
VIEW MCView
SYMMETRY MCSymmetry
INVARIANT OwnedOnce
PROPERTY ImplementsList
