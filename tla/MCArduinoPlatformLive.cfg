CONSTANTS
    d1 = d1
    d2 = d2
    d3 = d3
    NoDevice = NoDevice
    Devices <- MCDevices
    Capabilities <- MCCapabilities
    ControllerType <- MCControllerType
    ControllerSubtype <- MCControllerSubtype
    Cmds <- MCCmds
    MaxDevices = 1
    MaxPendingRequests = 1
    MaxPublications = 2

SPECIFICATION FairSpec

PROPERTY LockedSectionsComplete
