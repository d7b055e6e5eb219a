SPECIFICATION Spec
CONSTANTS
    Session = {s1, s2}
    Day = {1, 2}
    Amount = {0, 1}
    MaxOperations = 3
    PageSize = 2
    NoSession = NoSession
    NoTarget = NoTarget
SYMMETRY Symmetry

INVARIANTS TypeOK NeverInDebt PageAgreesWithBook
PROPERTIES CorrectionHitsTarget IsCashLedger
CHECK_DEADLOCK FALSE
