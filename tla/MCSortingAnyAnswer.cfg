\* A comparator that answers as it likes, and contradicts itself.
SPECIFICATION Spec
CONSTANTS
    a = a
    b = b
    x = x
    y = y
    NULL = NULL
    Junk = Junk
    Key <- MCKey
    Elements <- MCThree
    ElementTypes <- MCOneType
    Answers <- MCAnything
    SizeMax = 8
    MaxSize = 4
    BogoMaxElements = 3
    BogoMaxShuffles = 2
INVARIANT TypeOK
INVARIANT Conserved
INVARIANT ShallowStack
PROPERTY Terminates
