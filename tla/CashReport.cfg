SPECIFICATION Spec
CONSTANTS
    Session = {s1, s2}
    Day = {1, 2}
    Amount = {0, 1, 2}
    MaxOperations = 2
    PageSize = 2
    NoSession = NoSession
    NoTarget = NoTarget
INVARIANT ReportAgreesWithBook
CHECK_DEADLOCK FALSE
