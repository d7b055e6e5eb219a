SPECIFICATION Spec
CONSTANTS
    Txn = {t1, t2}
    NoTxn = NoTxn
    Payment = {p1, p2}
    Document = {1, 2}
    Amount = {1, 2}
    Total = {1, 2}
    Ask <- MCAskTwo
SYMMETRY Symmetry
CONSTRAINT Limited
\* Payments and documents are used up.
CHECK_DEADLOCK FALSE

INVARIANTS TypeOK WithinAmount CashFollows NeverOverpaid
PROPERTIES PostedIsKept DocumentsRespectPayments
