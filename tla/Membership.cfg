SPECIFICATION MCSpec
CONSTANTS
    Devices = {a, b}
    Newcomers <- Settling
    MaxCeremonies = 2
    MaxCuts = 2
    MaxFaults = 2
SYMMETRY Symmetry
VIEW WithoutDeclined
CHECK_DEADLOCK FALSE
INVARIANTS TypeOK CertificatesMirror AdmissionsAreOwn UndisturbedDeviceCanReturn
