SPECIFICATION Spec
CONSTANTS
    MaxConnections = 2
    MaxData = 1
    PppDnsChoices = {{}, {1}, {2}, {1, 2}}
    FetchRetries = 1
    ConsoleCommands <- InternetCommands
    OutsideCommands = {}
    RelaySettings = {"none"}
    DnsSettings = {"none", "ipv6"}
    FetchOpenMayFail = FALSE
    UserMayWithhold = FALSE
    FreshStates = {"DISCONNECTED"}
    UserMayReinit = FALSE
    UserMayInterleave = FALSE
INVARIANTS
    SocketContract
PROPERTIES
    DnsSticky
