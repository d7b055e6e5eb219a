SPECIFICATION Spec
CONSTANTS
    Txn = {t1}
    NoTxn = NoTxn
    Document = {d1, d2}
    NoDocument = NoDocument
    Product = {1}
    Warehouse = {1}
    Payload <- MCRecountPayload
    OpeningStock <- MCEmpty
    MaxVersion = 1
PROPERTY CancelRefusedOnlyWhenShort
