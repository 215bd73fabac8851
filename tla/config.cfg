SPECIFICATION Spec
CONSTANTS
    Devices = {9}
    Addresses <- TwoAddresses
    Ports = {0, 5000}
    Tokens = {70}
    Saves = {"one", "two"}
    Writes <- SomeWrites
    MaxFailures = 1
    OneAtATime = TRUE
    MaxLosses = 1
INVARIANT CleanIsStored
INVARIANT TornIsRefused
INVARIANT GameWritesKept
PROPERTY GameDataKept
