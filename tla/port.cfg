SPECIFICATION Spec
CONSTANTS
    MaxConnections = 1
    MaxData = 0
    PppDnsChoices = {{}}
    FetchRetries = 1
    ConsoleCommands = {"START", "END", "WAIT_CALL", "CHANGE_CLOCK", "EEPROM_WRITE",
                       "REINIT"}
    OutsideCommands = {"CHANGE_CLOCK"}
    RelaySettings = {"none"}
    DnsSettings = {"none"}
    FetchOpenMayFail = FALSE
    UserMayWithhold = TRUE
    FreshStates = {"DISCONNECTED"}
    UserMayReinit = TRUE
    UserMayInterleave = TRUE
INVARIANTS
    ParsedPacketWaits
    PortModeAgrees
PROPERTIES
    ImplementsExchange
