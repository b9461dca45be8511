\* Visitors call every type-based operation, with arguments of every type.
SPECIFICATION TraversalSpec
CONSTANTS
    b1 = b1
    b2 = b2
    b3 = b3
    c = c
    i = i
    s = s
    NULL = NULL
    Junk = Junk
    Caller = Caller
    Fresh <- MCFirst
    Blocks <- MCBlocks
    Elements <- MCElements
    Key <- MCKey
    TypeOf <- MCTypeOf
    SizeOf <- MCSizeOf
    ElementTypes <- MCTypes
    SizeMax = 7
    InitialCapacity = 2
    MaxInitial = 2
VIEW MCView
PROPERTY ImplementsForEach
PROPERTY VisitEnds
PROPERTY ImplementsTyped
