SPECIFICATION MCSpec
CONSTANTS
    Ids = {1, 2, 3}
    LocalIds = {3}
    Hashes = {1, 2}
    MaxStamp = 3
    BucketMs = 10
    Here = 1
    Mergers = {"peer", "cloud"}
    Pages <- MCPages
    HistoryLimit = 2
    Quota = 1
    RetentionMs = 1
    Faults = {}
    MaxPages = 2
    MaxEvents = 3
PROPERTY DecisionAndWriteSeeSameHistory
CHECK_DEADLOCK FALSE
