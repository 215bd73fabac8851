SPECIFICATION Spec
CONSTANTS
    MaxConnections = 1
    MaxData = 0
    PppDnsChoices = {{}}
    FetchRetries = 1
    ConsoleCommands <- CallCommands
    OutsideCommands = {}
    RelaySettings = {"ipv6"}
    DnsSettings = {"ipv4"}
    FetchOpenMayFail = FALSE
    UserMayWithhold = FALSE
    FreshStates = {"DISCONNECTED"}
    UserMayReinit = FALSE
    UserMayInterleave = FALSE
INVARIANTS
    TypeOK
    SharedBuffer
    RelayConsistent
    FetchOutsideSession
    PeerNumberInCall
    SocketContract
    SlotDiscipline
PROPERTIES
    NumberFollowsSettings
