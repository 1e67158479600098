SPECIFICATION MergeSpec
CONSTANTS
    Alphabet <- MCAlphabet
    Uppercase = {}
    MaxIriBytes = 1
    IntegerByte <- MCIntegerByte
    Union <- MCUnion
    ElementBytes <- MCBytes
INVARIANTS CursorsSpell WorkspaceExact VerdictExact ResultExact BytesDecideStructure
CHECK_DEADLOCK FALSE
