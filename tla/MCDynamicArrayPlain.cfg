\* Elements that own nothing: every source may alias the array.
SPECIFICATION ArraySpec
CONSTANTS
    b1 = b1
    b2 = b2
    b3 = b3
    x = x
    y = y
    z = z
    NULL = NULL
    Junk = Junk
    Caller = Caller
    Fresh <- MCAny
    Blocks <- MCBlocks
    Elements <- MCTwo
    Key <- MCKey
    ElementTypes <- MCPlainTypes
    SizeMax = 7
    InitialCapacity = 2
    MaxInitial = 7
VIEW MCView
SYMMETRY MCSymmetry
INVARIANT TypeOK
INVARIANT StorageConsistent
INVARIANT ContentsDefined
PROPERTY FailureChangesNothing
PROPERTY ImplementsList
