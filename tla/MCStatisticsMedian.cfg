\* The median of an even number of elements, as it is documented.
SPECIFICATION Spec
CONSTANTS
    NULL = NULL
    Junk = Junk
    Elements <- MCElements
    ElementTypes <- MCStructTypes
    Key <- MCKey
    Answers <- MCAnswers
    Projection <- MCProjection
    SizeMax = 9
    DoubleSize = 2
    MaxSize = 2
    Precision = 3
    MaxExponent = 1
    LongPrecision = 6
    LongFraction = 2
    CharBits = 3
    CharIsSigned = TRUE
VIEW MCView
PROPERTY MedianOfEqualMiddles
