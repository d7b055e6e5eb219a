SPECIFICATION AllSpec
CONSTANTS
    Session = {s1, s2}
    boss = boss
    clerk = clerk
    User = {boss, clerk}
    Admin = boss
    Warehouse = {1}
    Payload <- MCPayload
    Unset = Unset
    MaxAttempts = 2
    LockTime = 1
    MaxTime = 2
    MaxRequests = 2
    None = None
    ImportFile <- MCImportFile
    NaN <- MCNaN
    MaxRows = 3
    MaxImports = 2
    MaxQuantity = 2
    Group = {g1, g2}
    Name = {"a", "b", "c"}
    Product = {p1}
    Store = {w1}
    Partner = {c1}
    Referrer = {r1}
    MaxChanges = 3
    Day = {1, 2}
    Amount = {1, 2}
    MaxPapers = 2
    NoDocument = 0
    OldDocument = {1, 2}
    OldPayment = {1, 2}
    OldDatabase <- MCOldDatabase
    OldFile <- MCOldFile
    MaxRecords = 4
    ScanLimit = 6
    Limit = 2
    p1 = p1
    w1 = w1
    c1 = c1
    r1 = r1
SYMMETRY Symmetry
INVARIANTS LockIsEarned SerialEdits PartTypes OpeningExplained ReportsAgree UpgradeIsComplete EveryRowOnce
PROPERTIES ImportsAreWhole SerialDirectory
\* Accounts are locked, requests and imports used up, a database is upgraded.
CHECK_DEADLOCK FALSE
