CONSTANTS
    d1 = d1
    d2 = d2
    d3 = d3
    NoDevice = NoDevice
    Devices <- MCDevices
    Capabilities <- MCCapabilities
    ControllerType <- MCControllerType
    ControllerSubtype <- MCControllerSubtype
    Cmds <- MCCmds
    MaxDevices = 2
    MaxPendingRequests = 1
    MaxPublications = 3

SYMMETRY MCSymmetry

SPECIFICATION Spec

INVARIANT TypeOK
INVARIANT SlotTableConsistent
INVARIANT ReadyFindsFreeSlot
INVARIANT SlotAddressesDistinct
PROPERTY SlotReassignedOnlyWhenFree
PROPERTY NoRedelivery
INVARIANT UndeliveredFrameIsFlagged
