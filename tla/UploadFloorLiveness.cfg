SPECIFICATION MCFairSpec
CONSTANTS
    N = 3
    MaxMs = 1
    Limit = 2
    MaxTracked = 1
    Size <- MCSize
    MaxBytes = 3
    Faults = {"corrupt", "signout"}
    MaxDisturbances = 1
PROPERTY ReadableRowsReachCloud
