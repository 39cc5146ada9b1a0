SPECIFICATION Spec
CONSTANTS
    BYTE = 8
    RADIX = 10
    Opcodes <- Fields
    Readable <- MCReadable
CHECK_DEADLOCK FALSE
INVARIANTS
    EarlierIsNarrower
    FieldsSet
    StepsByTransfer
    WordsFollow
