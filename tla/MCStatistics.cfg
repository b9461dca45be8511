\* Structs and every primitive type; the doubles of five elements pass SIZE_MAX.
SPECIFICATION Spec
CONSTANTS
    NULL = NULL
    Junk = Junk
    Elements <- MCElements
    ElementTypes <- MCTypes
    Key <- MCKey
    Answers <- MCAnswers
    Projection <- MCProjection
    SizeMax = 9
    DoubleSize = 2
    MaxSize = 5
    Precision = 3
    MaxExponent = 1
    LongPrecision = 6
    LongFraction = 2
    CharBits = 3
    CharIsSigned = TRUE
VIEW MCView
INVARIANT TypeOK
INVARIANT ScanCounts
PROPERTY MeanBetweenExtremes
PROPERTY ExtremaAgreeWithNumbers
PROPERTY ImplementsStatistics
