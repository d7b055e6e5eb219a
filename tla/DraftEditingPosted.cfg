SPECIFICATION Spec
CONSTANTS
    Txn = {t1, t2}
    NoTxn = NoTxn
    MaxLine = 2
    Quantity = {1, 2}
    Price = {0, 1, 2}
    Rate = {1, 2}
    Request <- MCRequest
SYMMETRY Symmetry

PROPERTY PostedReadOnly
CHECK_DEADLOCK FALSE
