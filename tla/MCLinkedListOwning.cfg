\* Elements that own a resource, and an allocator that may choose any address:
\* memory for three elements.
SPECIFICATION Spec
CONSTANTS
    n1 = n1
    n2 = n2
    n3 = n3
    n4 = n4
    n5 = n5
    b1 = b1
    b2 = b2
    b3 = b3
    b4 = b4
    b5 = b5
    x = x
    y = y
    z = z
    NULL = NULL
    Junk = Junk
    Caller = Caller
    Nodes <- MCThreeNodes
    Fresh <- MCAny
    Blocks <- MCThreeBlocks
    Elements <- MCThree
    Key <- MCKey
    ElementTypes <- MCOwningTypes
    SizeMax = 4
    MaxInitial = 3
VIEW MCView
INVARIANT NothingLeaks
INVARIANT OwnedOnce
PROPERTY FailureChangesNothing
PROPERTY ElementsStay
