SPECIFICATION Spec
CONSTANTS
    worker = worker
    chief = chief
    Txn = {t1, t2}
    NoTxn = NoTxn
    Document = {d1}
    User = {worker, chief}
    NoUser = NoUser
    Reviewer = {chief}
    Warehouse = {1, 2}
    Access <- MCAccess
    Route <- MCAllRoutes
    MaxVersion = 2
SYMMETRY Symmetry

INVARIANTS TypeOK CurrentTasks TransferOrder Accountable
PROPERTIES FinalTasksStay OneWorker
