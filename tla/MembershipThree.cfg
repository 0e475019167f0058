SPECIFICATION MCSpec
CONSTANTS
    Devices = {a, b, c}
    Newcomers <- EveryoneRead
    MaxCeremonies = 1
    MaxCuts = 1
    MaxFaults = 0
SYMMETRY Symmetry
CHECK_DEADLOCK FALSE
INVARIANTS SettledRostersAgree PublishedRemovalsAreKnown
PROPERTY NoReturnWithoutCeremony
