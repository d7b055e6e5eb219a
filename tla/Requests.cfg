SPECIFICATION AllSpec
CONSTANTS
    Session = {t1, t2}
    NoSession = NoSession
    Document = {d1, d2}
    d1 = d1
    NoDocument = NoDocument
    Type = {"IN", "OUT"}
    MaxTyped = 2
    MaxRequests = 2
    worker = worker
    chief = chief
    NoUser = NoUser
PROPERTIES GeneratedIsNew RequestsEnd StockAndTasksEnd
\* All documents are cancelled, all tasks ended, no request is left.
CHECK_DEADLOCK FALSE
