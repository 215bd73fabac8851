SPECIFICATION Spec
CONSTANTS
    MaxConnections = 1
    Magic <- TheMagic
    TokenSize = 3
    MaxNumber = 3
    PacketSize = 7
    Answers <- SomeAnswers
    CallNumbers <- SomeNumbers
    Packets <- SomePackets
    PeerBytes <- SomePeerBytes
    MaxProcedures = 2
    MaxPackets = 2
    PartialSends = TRUE
INVARIANT AnswerUnderstood
INVARIANT PeerBytesKept
INVARIANT SentWhole
PROPERTY ProcedureSettles
PROPERTY ImplementsRelay
CHECK_DEADLOCK FALSE
