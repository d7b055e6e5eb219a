------------------------------ MODULE MCRequests ------------------------------
(* The requests that wait for locks, with the fairness of lock queues and     *)
(* running workers: those that number documents, as DocumentNumbers has them; *)
(* postings of documents that share stock; and work on the tasks of a         *)
(* transfer that is corrected meanwhile.  The three share no variable, so     *)
(* each behaviour follows one.                                                *)
EXTENDS DocumentNumbers, Sequences, TLC

CONSTANTS d1, worker, chief, NoUser

VARIABLES part,
          status, version, content, posting, balance, ledger, stockLock, keyLock, op, target,
          candidate, keys, loaded, undo, cursor, quantities, planned, movements,
          tStatus, tVersion, task, docLock, taskLock, tSession

stockVars == <<status, version, content, posting, balance, ledger, stockLock, keyLock, op,
               target, candidate, keys, loaded, undo, cursor, quantities, planned, movements>>
taskVars == <<tStatus, tVersion, task, docLock, taskLock, tSession>>

OneLine(type, from, to, q) ==
  [type |-> type, warehouse |-> from, destination |-> to,
   lines |-> <<[product |-> 1, quantity |-> q]>>]
\* Goods in, goods out, a recount, and transfers both ways.
Payload == {OneLine("incoming", 1, 1, 2), OneLine("outgoing", 2, 2, 1),
            OneLine("adjustment", 1, 1, 0), OneLine("transfer", 1, 2, 1),
            [type |-> "transfer", warehouse |-> 2, destination |-> 1,
             lines |-> <<[product |-> 2, quantity |-> 1], [product |-> 1, quantity |-> 1]>>]}
OpeningStock == [k \in {1, 2} \X {1, 2} |-> IF k[1] = k[2] THEN 1 ELSE 0]

Transfer == {[type |-> "transfer", warehouse |-> 1, destination |-> 2]}

Stock == INSTANCE StockPosting WITH
  Txn <- Session, NoTxn <- NoSession, Product <- {1, 2}, Warehouse <- {1, 2}, MaxVersion <- 1,
  rowLock <- stockLock

Tasks == INSTANCE WarehouseTasks WITH
  Txn <- Session, NoTxn <- NoSession, Document <- {d1}, User <- {worker, chief},
  Reviewer <- {chief}, Warehouse <- {1, 2}, Access <- (worker :> {2}) @@ (chief :> {}),
  Route <- Transfer, MaxVersion <- 1,
  status <- tStatus, version <- tVersion, session <- tSession

\* What the documents of one part are makes no difference to the others; which of
\* the documents is numbered already, and with which type, makes none to the numbers.
AllInit == /\ part \in {"stock", "tasks", "numbers"}
           /\ Stock!Init /\ Tasks!Init /\ Init
           /\ part # "stock" => \A d \in Document : content[d] = OneLine("incoming", 1, 1, 2)
           /\ \A d \in Document : document[d] # Absent =>
                part = "numbers" /\ d = d1 /\ document[d].type = "IN"

allVars == <<part, stockVars, taskVars, vars>>

OfStock(A) == part = "stock" /\ A /\ UNCHANGED <<part, taskVars, vars>>
OfTasks(A) == part = "tasks" /\ A /\ UNCHANGED <<part, stockVars, vars>>
OfNumbers(A) == part = "numbers" /\ A /\ UNCHANGED <<part, stockVars, taskVars>>

AllNext == OfStock(Stock!Next) \/ OfTasks(Tasks!Next) \/ OfNumbers(Next)

\* The fairness of the three modules. Of their actions those of one part only are
\* ever enabled, so that one condition stands for a condition in each part.
AllFairness ==
  \A t \in Session :
    /\ SF_allVars(\/ OfStock(Stock!LockDocument(t) \/ Stock!Refuse(t))
                  \/ OfTasks(Tasks!LockDocument(t) \/ Tasks!LockTask(t) \/ Tasks!Refuse(t)))
    /\ SF_allVars(OfStock(Stock!LockStockKey(t)) \/ OfTasks(Tasks!LockRow(t)))
    /\ WF_allVars(\/ OfStock(\/ Stock!LoadBalance(t) \/ Stock!UndoMovement(t)
                             \/ Stock!PlanLine(t) \/ Stock!Commit(t) \/ Stock!Fail(t))
                  \/ OfTasks(\/ Tasks!FindTasks(t) \/ Tasks!Withdraw(t) \/ Tasks!Work(t)
                             \/ \E r \in Transfer : Tasks!Publish(t, r))
                  \/ OfNumbers(Step(t)))
    /\ WF_allVars(OfTasks(Tasks!DeadlockDetected(t)))

AllSpec == AllInit /\ [][AllNext]_allVars /\ AllFairness

\* Every posting, correction and cancellation ends: sorted advisory locks leave no
\* circle of waiting.  Every request on tasks ends, though confirmations and
\* corrections lock the two tasks of a transfer in opposite orders.
StockAndTasksEnd == Stock!RequestsEnd /\ Tasks!RequestsEnd
=============================================================================
