SPECIFICATION MCFairSpec
CONSTANTS
    Devices = {a, b}
    Items = {1, 2}
    MaxStamp = 3
    MaxDrift = 2
    Skew = 1
    UploadBatch = 1
    PageLimit = 1
    MaxPages = 2
    MaxDisturbances = 2
    MaxExceptions = 1
    First = a
INVARIANTS TypeOK NoRowPassedBy StaleRowIsRepublished
PROPERTIES ReadableRowsArrive WatermarkMovesForward
