SPECIFICATION MCSpec
CONSTANTS
    Devices = {a, b}
    Newcomers <- Settling
    MaxCeremonies = 1
    MaxCuts = 2
    MaxFaults = 1
SYMMETRY Symmetry
CHECK_DEADLOCK FALSE
INVARIANT RemovedDeviceCanReturn
