\* Elements that own nothing: every source may alias the list.  SIZE_MAX of
\* them is reached while there is memory for one more.
SPECIFICATION Spec
CONSTANTS
    n1 = n1
    n2 = n2
    n3 = n3
    n4 = n4
    n5 = n5
    b1 = b1
    b2 = b2
    b3 = b3
    b4 = b4
    b5 = b5
    x = x
    y = y
    z = z
    NULL = NULL
    Junk = Junk
    Caller = Caller
    Nodes <- MCNodes
    Fresh <- MCFirst
    Blocks <- MCBlocks
    Elements <- MCTwo
    Key <- MCKey
    ElementTypes <- MCPlainTypes
    SizeMax = 4
    MaxInitial = 4
VIEW MCView
INVARIANT TypeOK
INVARIANT WellLinked
PROPERTY ImplementsList
