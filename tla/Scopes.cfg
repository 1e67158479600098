SPECIFICATION ClosureSpec
CONSTANTS
    Alphabet <- MCAlphabet
    Uppercase = {}
    MaxIriBytes = 1
    IntegerByte <- MCIntegerByte
    CodeUnits <- MCCodeUnits
    Jobs <- MCScopedJobs
    BatchSizes = {2}
    MaxGivenUp = 1
INVARIANT IdentifiersClosureWide
CHECK_DEADLOCK FALSE
