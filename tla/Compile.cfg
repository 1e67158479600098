SPECIFICATION ClosureSpec
CONSTANTS
    Alphabet <- MCAlphabet
    Uppercase = {}
    MaxIriBytes = 1
    IntegerByte <- MCIntegerByte
    CodeUnits <- MCCodeUnits
    Jobs <- MCJobs
    BatchSizes = {2, 5}
    MaxGivenUp = 1
INVARIANTS OutputExact StatisticsExact RefusalExact
CHECK_DEADLOCK FALSE
