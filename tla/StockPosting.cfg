SPECIFICATION Spec
CONSTANTS
    Txn = {t1, t2}
    NoTxn = NoTxn
    Document = {d1, d2}
    NoDocument = NoDocument
    Product = {1, 2}
    Warehouse = {1, 2}
    Payload <- MCPayload
    OpeningStock <- MCOpening
    MaxVersion = 2
SYMMETRY Symmetry

INVARIANTS TypeOK Conservation NonNegative ReadsCurrent StockExplained
PROPERTY ImplementsLedger
