SPECIFICATION Spec
CONSTANTS
    Names <- SomeNames
    Servers = {1, 2}
    Answers <- AddressFirst
    PacketSize = 80
    MaxLabel = 3
    IdBase = 256
    MaxRequests = 3
INVARIANTS
    AnswerSound
    AnswerFound
    QuerySent
CHECK_DEADLOCK FALSE
