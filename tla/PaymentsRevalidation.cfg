SPECIFICATION Spec
CONSTANTS
    Txn = {t1, t2}
    NoTxn = NoTxn
    Payment = {p1}
    Document = {1}
    Amount = {1, 2}
    Total = {1, 2}
    Ask <- MCAskOne
SYMMETRY Symmetry
CHECK_DEADLOCK FALSE

PROPERTY RevalidationSeesChanges
