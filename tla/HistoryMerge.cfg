SPECIFICATION MCSpec
CONSTANTS
    Ids = {1, 2, 3}
    LocalIds = {3}
    Hashes = {1, 2}
    MaxStamp = 3
    BucketMs = 10
    Here = 1
    Mergers = {"peer", "cloud"}
    Pages <- MCPages
    HistoryLimit = 2
    Quota = 1
    RetentionMs = 1
    Faults = {"pin fails", "redo fails"}
    MaxPages = 2
    MaxEvents = 3
INVARIANTS TypeOK StoredIsReported
PROPERTIES ImplementsLastWriterWins PinsMoveForward
CHECK_DEADLOCK FALSE
