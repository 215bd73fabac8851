SPECIFICATION Spec
CONSTANTS
    MaxConnections = 1
    MaxData = 0
    PppDnsChoices = {{}}
    FetchRetries = 1
    ConsoleCommands = {"END"}
    OutsideCommands = {"END", "WAIT_CALL"}
    RelaySettings = {"none"}
    DnsSettings = {"none"}
    FetchOpenMayFail = FALSE
    UserMayWithhold = FALSE
    FreshStates = {"DISCONNECTED"}
    UserMayReinit = FALSE
    UserMayInterleave = FALSE
INVARIANTS
    SocketContract
