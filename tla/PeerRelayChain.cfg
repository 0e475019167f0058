SPECIFICATION ChainSpec
CONSTANTS
    Devices = {a, b, c}
    Items = {x, y}
    MaxStamp = 2
    RequestCap = 2
    Faults = {}
    MaxWrites = 0
    MaxFailures = 0
    MaxOpen = 2
    Meetings <- Chain
    a = a
    b = b
    c = c
INVARIANT NoStrandedVersion
SYMMETRY SymmetricItems
