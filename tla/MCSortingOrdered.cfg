\* A comparator that is an order, under which two elements are equal.
SPECIFICATION Spec
CONSTANTS
    a = a
    b = b
    x = x
    y = y
    NULL = NULL
    Junk = Junk
    Key <- MCKey
    Elements <- MCFour
    ElementTypes <- MCTypes
    Answers <- MCByKey
    SizeMax = 8
    MaxSize = 5
    BogoMaxElements = 3
    BogoMaxShuffles = 2
VIEW MCView
PROPERTY ImplementsSort
