SPECIFICATION FairSpec
CONSTANTS
    Devices = {a, b}
    Items = {x, y}
    MaxStamp = 2
    RequestCap = 1
    Faults = {"lost", "withhold", "refuse", "raise"}
    MaxWrites = 1
    MaxFailures = 1
    MaxOpen = 1
    Meetings <- AllMeet
    a = a
    b = b
    c = c
PROPERTY VersionsSpread
