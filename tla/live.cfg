SPECIFICATION FairSpec
CONSTANTS
    MaxConnections = 1
    MaxData = 1
    PppDnsChoices = {{}}
    FetchRetries = 1
    ConsoleCommands = {"TEL", "WAIT_CALL", "DATA", "CHANGE_CLOCK"}
    OutsideCommands = {}
    RelaySettings = {"none"}
    DnsSettings = {"none"}
    FetchOpenMayFail = FALSE
    UserMayWithhold = FALSE
    FreshStates = {"DISCONNECTED"}
    UserMayReinit = FALSE
    UserMayInterleave = FALSE
PROPERTIES
    CommandAnswered
    SilentSessionDropped
    ModeSwitchCompletes
