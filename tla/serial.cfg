SPECIFICATION FairLinkSpec
CONSTANTS
    Bytes <- Byte
    Devices = {8, 9}
    Commands <- Known
    Responses <- Answers
    Leftovers = {255}
    Threads = FALSE
    Requests <- SomeRequests
    Noise = {3, 153}
    MaxFaults = 1
    MaxNaks = 1
INVARIANTS
    IndexInBounds
    PacketSummed
    HandedOverIntact
    AcceptedIntact
PROPERTIES
    RefusedIsRetried
    RequestCompletes
    ImplementsExchange
