SPECIFICATION MCSpec
CONSTANTS
    Devices = {a, b}
    Items = {x, y}
    MaxStamp = 2
    RequestCap = 1
    Faults = {"lost", "withhold", "restart", "damage", "unsaved", "refuse", "raise"}
    MaxWrites = 1
    MaxFailures = 2
    MaxOpen = 1
    Meetings <- AllMeet
    a = a
    b = b
    c = c
SYMMETRY Symmetric
INVARIANTS TypeOK NoStrandedVersion MarkIsDelivered
