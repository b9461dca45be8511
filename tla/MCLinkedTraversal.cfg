\* Visitors call every type-based operation, with arguments of every type.
SPECIFICATION TraversalSpec
CONSTANTS
    n1 = n1
    n2 = n2
    n3 = n3
    b1 = b1
    b2 = b2
    b3 = b3
    c = c
    i = i
    j = j
    NULL = NULL
    Junk = Junk
    Caller = Caller
    Nodes <- MCNodes
    Fresh <- MCFirst
    Blocks <- MCBlocks
    Elements <- MCElements
    Key <- MCKey
    TypeOf <- MCTypeOf
    SizeOf <- MCSizeOf
    ElementTypes <- MCTypes
    SizeMax = 3
    MaxInitial = 2
VIEW MCView
PROPERTY SurvivorsShownOnce
PROPERTY ImplementsForEach
PROPERTY VisitEnds
PROPERTY ImplementsTyped
