SPECIFICATION MCFairSpec
CONSTANTS
    Contents = {1, 2}
    MaxCount = 2
    MaxStamp = 2
    Backends = {"windows", "macos"}
    MaxActs = 2
    MaxFailures = 1
INVARIANTS TypeOK PrivateStaysPrivate OwnWritesAreNotCaptured AcceptedIsAnsweredFor
PROPERTIES ReceivedIsNewer CopiesAreCaptured
CHECK_DEADLOCK FALSE
