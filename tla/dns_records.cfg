SPECIFICATION Spec
CONSTANTS
    Names <- SomeNames
    Servers = {1}
    Answers <- Mixed
    PacketSize = 80
    MaxLabel = 3
    IdBase = 256
    MaxRequests = 1
INVARIANT AnswerFound
CHECK_DEADLOCK FALSE
