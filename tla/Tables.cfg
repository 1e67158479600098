SPECIFICATION TableSpec
CONSTANTS
    Alphabet <- MCAlphabet
    Uppercase = {}
    MaxIriBytes = 1
    Table <- MCTable
INVARIANTS CyclesExact GenericPartition NodesExact WorkBounded
CHECK_DEADLOCK FALSE
