SPECIFICATION Spec
CONSTANTS
    Alphabets <- AllAlphabets
    MaxTokens = 8
    In6Size = 8
INVARIANTS
    QuadParsed
    V6Parsed
    AddressIsNoName
CHECK_DEADLOCK FALSE
