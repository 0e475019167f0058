SPECIFICATION MCSpec
CONSTANTS
    N = 3
    MaxMs = 1
    Limit = 2
    MaxTracked = 1
    Size <- MCSize
    MaxBytes = 2
    Faults = {"fail", "crash", "corrupt", "signout", "override"}
    MaxDisturbances = 2
INVARIANTS TypeOK NoStrandedRow OfferAnswersForItsRows CountIsExact
