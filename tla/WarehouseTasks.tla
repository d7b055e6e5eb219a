---------------------------- MODULE WarehouseTasks ----------------------------
(***************************************************************************)
(* The warehouse tasks of posted documents (services/logistics_service.py) *)
(* and the document transactions that publish and withdraw them            *)
(* (post_document, repost_document, cancel_document).                      *)
(*                                                                         *)
(* Every posting version of a document has its own tasks: a task to send,  *)
(* a task to receive, or, for a transfer, both, the second one blocked     *)
(* until the first is completed.  Workers start and confirm tasks;         *)
(* reviewers return those with discrepancies.  Correcting or cancelling    *)
(* the document cancels whatever is still active.  The document side locks *)
(* the document row and then its task rows; the task side locks task rows  *)
(* only, so the two meet in the task rows, in either order.                *)
(***************************************************************************)
EXTENDS Integers

CONSTANTS Txn,         \* request handlers
          NoTxn,       \* the owner of a free lock
          Document,    \* rows of documents
          User,        \* rows of users
          NoUser,      \* assigned_to_id IS NULL
          Reviewer,    \* users with the permission logistics.review
          Warehouse,   \* rows of warehouses
          Access,      \* user.warehouse_ids
          Route,       \* headers of documents: type and warehouses
          MaxVersion   \* bound on posting_version

Version == 1 .. MaxVersion
Task    == Document \X Version \X {"dispatch", "receive"}

Active == {"blocked", "pending", "in_transit", "in_progress", "needs_review"}
Final  == {"completed", "cancelled"}

DocumentOperation == {"post", "repost", "cancel"}
\* confirm_task with the quantities expected, and with others, are two operations.
TaskOperation     == {"start", "confirm", "report", "return"}

RouteType == [type : {"incoming", "outgoing", "adjustment", "transfer"},
              warehouse : Warehouse, destination : Warehouse]

\* A row of warehouse_tasks.  With the side, "transfer" tells the task_type; the
\* lines are "discrepancy" when one of them is.
TaskRow == [status : Active \cup Final, warehouse : Warehouse, transfer : BOOLEAN,
            assignee : User \cup {NoUser},
            lines : {"pending", "confirmed", "discrepancy"}]
NoTask  == [status |-> "none"]

\* What a handler keeps while it serves a request: where it stands, what the
\* request is about, and the task rows its SELECT ... FOR UPDATE has yet to lock.
Place           == {"lock", "find", "rows"}
DocumentSession == [pc : Place, op : DocumentOperation, document : Document,
                    wanted : SUBSET Task]
TaskSession     == [pc : Place, op : TaskOperation, task : Task, user : User,
                    wanted : SUBSET Task]
Closed          == [pc |-> "idle"]

ASSUME Nobody == NoTxn \notin Txn /\ NoUser \notin User
ASSUME Permissions == Reviewer \subseteq User /\ Access \in [User -> SUBSET Warehouse]
ASSUME Routes == Route \subseteq RouteType
ASSUME VersionBound == MaxVersion \in Nat

VARIABLES
    status,    \* documents.status
    version,   \* documents.posting_version
    task,      \* warehouse_tasks, by document, version and side
    docLock,   \* the transaction that holds a document row FOR UPDATE
    taskLock,  \* the transaction that holds a task row FOR UPDATE
    session    \* the request a handler serves, Closed when it is idle

rows  == <<status, version, task>>
locks == <<docLock, taskLock>>
vars  == <<rows, locks, session>>

TypeOK ==
    /\ status \in [Document -> {"draft", "posted", "cancelled"}]
    /\ version \in [Document -> 0 .. MaxVersion]
    /\ task \in [Task -> TaskRow \cup {NoTask}]
    /\ docLock \in [Document -> Txn \cup {NoTxn}]
    /\ taskLock \in [Task -> Txn \cup {NoTxn}]
    /\ session \in [Txn -> DocumentSession \cup TaskSession \cup {Closed}]

Init ==
    /\ status = [d \in Document |-> "draft"]
    /\ version = [d \in Document |-> 0]
    /\ task = [w \in Task |-> NoTask]
    /\ docLock = [d \in Document |-> NoTxn]
    /\ taskLock = [w \in Task |-> NoTxn]
    /\ session = [t \in Txn |-> Closed]
-----------------------------------------------------------------------------
(* Helpers *)

At(t, place)    == session[t].pc = place
OnDocument(t)   == ~At(t, "idle") /\ session[t].op \in DocumentOperation
OnTask(t)       == ~At(t, "idle") /\ session[t].op \in TaskOperation
ReceiveSide(w)  == <<w[1], w[2], "receive">>
VersionTasks(d) == {w \in Task : w[1] = d /\ w[2] = version[d]}

\* _task_specs: which sides a document of this type has.
Sides(r) == CASE r.type = "incoming"   -> {"receive"}
              [] r.type = "outgoing"   -> {"dispatch"}
              [] r.type = "transfer"   -> {"dispatch", "receive"}
              [] r.type = "adjustment" -> {}

\* create_tasks_for_document: the row generated for one side.
Generated(r, side) ==
    LET second == r.type = "transfer" /\ side = "receive" IN
    [status |-> IF second THEN "blocked" ELSE "pending",
     warehouse |-> IF second THEN r.destination ELSE r.warehouse,
     transfer |-> r.type = "transfer", assignee |-> NoUser, lines |-> "pending"]

\* The status guards of the document operations.  Bound of the model: no document
\* goes past MaxVersion versions.
DocumentEligible(operation, d) ==
    /\ status[d] = IF operation = "post" THEN "draft" ELSE "posted"
    /\ operation = "cancel" \/ version[d] < MaxVersion

\* _ensure_task_access: reviewers see the tasks of every warehouse.
MaySee(u, w) == u \in Reviewer \/ task[w].warehouse \in Access[u]

\* The guards of start_task, confirm_task and return_task.
TaskEligible(operation, u, w) ==
    /\ MaySee(u, w)
    /\ CASE operation = "start" -> task[w].status \in {"pending", "in_transit"}
         [] operation \in {"confirm", "report"} ->
              task[w].status = "in_progress" /\ (task[w].assignee = u \/ u \in Reviewer)
         [] operation = "return" -> task[w].status = "needs_review" /\ u \in Reviewer

\* Mutant of Unblocks: reporting a discrepancy sends the goods on all the same.
UnblocksEarly(t) ==
    session[t].op \in {"confirm", "report"} /\ session[t].task[3] = "dispatch"
      /\ task[session[t].task].transfer

\* Completing the sending side of a transfer lets the receiving side begin.
Unblocks(t) ==
    session[t].op = "confirm" /\ session[t].task[3] = "dispatch" /\ task[session[t].task].transfer

\* COMMIT and ROLLBACK both drop every lock and the session.
Release(t) ==
    /\ docLock' = [d \in Document |-> IF docLock[d] = t THEN NoTxn ELSE docLock[d]]
    /\ taskLock' = [w \in Task |-> IF taskLock[w] = t THEN NoTxn ELSE taskLock[w]]
    /\ session' = [session EXCEPT ![t] = Closed]
-----------------------------------------------------------------------------
(* The transactions, statement by statement *)

\* A request arrives and waits for the row it is about.
RequestDocument(t, operation, d) ==
    /\ At(t, "idle")
    /\ session' = [session EXCEPT ![t] = [pc |-> "lock", op |-> operation,
                                         document |-> d, wanted |-> {}]]
    /\ UNCHANGED <<rows, locks>>

RequestTask(t, operation, w, u) ==
    /\ At(t, "idle")
    /\ task[w] # NoTask
    /\ session' = [session EXCEPT ![t] = [pc |-> "lock", op |-> operation, task |-> w,
                                         user |-> u, wanted |-> {}]]
    /\ UNCHANGED <<rows, locks>>

\* _load_document(for_update=True) returns a document the operation is for.  The
\* new posting has no task rows to lock.
LockDocument(t) ==
    LET d == session[t].document IN
    /\ OnDocument(t) /\ At(t, "lock")
    /\ docLock[d] = NoTxn
    /\ DocumentEligible(session[t].op, d)
    /\ docLock' = [docLock EXCEPT ![d] = t]
    /\ session' = [session EXCEPT ![t].pc = IF session[t].op = "post" THEN "rows" ELSE "find"]
    /\ UNCHANGED <<rows, taskLock>>

\* Mutant of LockTask: the task is read without FOR UPDATE.
LockTaskNot(t) ==
    /\ OnTask(t) /\ At(t, "lock")
    /\ TaskEligible(session[t].op, session[t].user, session[t].task)
    /\ session' = [session EXCEPT ![t].pc = IF Unblocks(t) THEN "find" ELSE "rows"]
    /\ UNCHANGED <<rows, locks>>

\* _lock_task returns a task the operation is for.
LockTask(t) ==
    LET w == session[t].task IN
    /\ OnTask(t) /\ At(t, "lock")
    /\ taskLock[w] = NoTxn
    /\ TaskEligible(session[t].op, session[t].user, w)
    /\ taskLock' = [taskLock EXCEPT ![w] = t]
    /\ session' = [session EXCEPT ![t].pc = IF Unblocks(t) THEN "find" ELSE "rows"]
    /\ UNCHANGED <<rows, docLock>>

\* The row is locked and its status, or the user, does not allow it: 409 or 404.
Refuse(t) ==
    /\ At(t, "lock")
    /\ \/ OnDocument(t) /\ docLock[session[t].document] = NoTxn
         /\ ~DocumentEligible(session[t].op, session[t].document)
       \/ OnTask(t) /\ taskLock[session[t].task] = NoTxn
         /\ ~TaskEligible(session[t].op, session[t].user, session[t].task)
    /\ Release(t)
    /\ UNCHANGED rows

\* The snapshot of the second SELECT ... FOR UPDATE: the active tasks of the old
\* version (cancel_active_tasks_for_document_version), or the blocked receiving
\* task (_activate_transfer_receive).
FindTasks(t) ==
    /\ At(t, "find")
    /\ session' = [session EXCEPT ![t].pc = "rows", ![t].wanted =
                     IF OnDocument(t)
                     THEN {w \in VersionTasks(session[t].document) : task[w].status \in Active}
                     ELSE {w \in {ReceiveSide(session[t].task)} : task[w].status = "blocked"}]
    /\ UNCHANGED <<rows, locks>>

\* That SELECT locks one more row; it has no ORDER BY.
LockRow(t) ==
    /\ At(t, "rows")
    /\ \E w \in session[t].wanted :
         /\ taskLock[w] = NoTxn
         /\ taskLock' = [taskLock EXCEPT ![w] = t]
         /\ session' = [session EXCEPT ![t].wanted = @ \ {w}]
    /\ UNCHANGED <<rows, docLock>>

Complete(t) == At(t, "rows") /\ session[t].wanted = {}

\* Mutants of Withdrawn: blocked tasks are forgotten; the status of a row is not
\* looked at again once it is locked.
WithdrawnButBlocked(t, w) ==
    /\ session[t].op \in {"repost", "cancel"}
    /\ w \in VersionTasks(session[t].document)
    /\ taskLock[w] = t
    /\ task[w].status \in Active \ {"blocked"}
WithdrawnUnchecked(t, w) ==
    session[t].op \in {"repost", "cancel"} /\ taskLock[w] = t

\* A row found whose status has changed by the time it is locked is dropped from
\* the result, so the loops see the rows that still qualify.
Withdrawn(t, w) ==
    /\ session[t].op \in {"repost", "cancel"}
    /\ w \in VersionTasks(session[t].document)
    /\ taskLock[w] = t
    /\ task[w].status \in Active

\* The tasks end of post_document and repost_document, with the header r.
Publish(t, r) ==
    LET d == session[t].document IN
    /\ OnDocument(t) /\ Complete(t) /\ session[t].op # "cancel"
    /\ status' = [status EXCEPT ![d] = "posted"]
    /\ version' = [version EXCEPT ![d] = @ + 1]
    /\ task' = [w \in Task |->
                  IF w[1] = d /\ w[2] = version[d] + 1 /\ w[3] \in Sides(r) /\ task[w] = NoTask
                  THEN Generated(r, w[3])
                  ELSE IF Withdrawn(t, w) THEN [task[w] EXCEPT !.status = "cancelled"]
                  ELSE task[w]]
    /\ Release(t)

\* The tasks end of cancel_document.
Withdraw(t) ==
    LET d == session[t].document IN
    /\ OnDocument(t) /\ Complete(t) /\ session[t].op = "cancel"
    /\ status' = [status EXCEPT ![d] = "cancelled"]
    /\ task' = [w \in Task |-> IF Withdrawn(t, w) THEN [task[w] EXCEPT !.status = "cancelled"]
                               ELSE task[w]]
    /\ Release(t)
    /\ UNCHANGED version

\* Mutants of Outcome: the task gets the status of its line; a returned task stays
\* with its worker.
OutcomeOfLine(operation, u, row) ==
    CASE operation = "start"   -> [row EXCEPT !.status = "in_progress", !.assignee = u]
      [] operation = "confirm" -> [row EXCEPT !.status = "confirmed"]
      [] operation \in {"report", "return"} -> [row EXCEPT !.status = "pending"]
OutcomeKeepsWorker(operation, u, row) ==
    CASE operation = "start"   -> [row EXCEPT !.status = "in_progress", !.assignee = u]
      [] operation = "confirm" -> [row EXCEPT !.status = "completed", !.lines = "confirmed"]
      [] operation = "report"  -> [row EXCEPT !.status = "needs_review", !.lines = "discrepancy"]
      [] operation = "return"  -> [row EXCEPT !.status = "pending", !.lines = "pending"]

\* What each operation makes of its task.
Outcome(operation, u, row) ==
    CASE operation = "start"   -> [row EXCEPT !.status = "in_progress", !.assignee = u]
      [] operation = "confirm" -> [row EXCEPT !.status = "completed", !.lines = "confirmed"]
      [] operation = "report"  -> [row EXCEPT !.status = "needs_review", !.lines = "discrepancy"]
      [] operation = "return"  -> [row EXCEPT !.status = "pending", !.assignee = NoUser,
                                              !.lines = "pending"]

\* start_task, confirm_task and return_task write their task, and the receiving
\* task that becomes due, and commit.
Work(t) ==
    LET w == session[t].task IN
    /\ OnTask(t) /\ Complete(t)
    /\ task' = [x \in Task |->
                  IF x = w THEN Outcome(session[t].op, session[t].user, task[w])
                  ELSE IF Unblocks(t) /\ x = ReceiveSide(w) /\ taskLock[x] = t
                          /\ task[x].status = "blocked"
                  THEN [task[x] EXCEPT !.status = "in_transit"]
                  ELSE task[x]]
    /\ Release(t)
    /\ UNCHANGED <<status, version>>

\* The transactions one transaction waits for, and a circle of waiting ones.
WaitsFor(t, other) ==
    \/ At(t, "rows") /\ \E w \in session[t].wanted : taskLock[w] = other
    \/ OnTask(t) /\ At(t, "lock") /\ taskLock[session[t].task] = other
    \/ OnDocument(t) /\ At(t, "lock") /\ docLock[session[t].document] = other

InCycle(t) ==
    \E circle \in SUBSET Txn :
        /\ t \in circle
        /\ \A one \in circle : /\ \E other \in circle \ {one} : WaitsFor(one, other)
                               /\ \E other \in circle \ {one} : WaitsFor(other, one)

\* PostgreSQL's deadlock detector fails one statement of the circle; the request
\* ends with 500.
DeadlockDetected(t) ==
    /\ InCycle(t)
    /\ Release(t)
    /\ UNCHANGED rows

\* Anything else that rolls back after the row is locked: a rule of stock or of
\* payments refuses the document, the payload of confirm_task does not name every
\* line once, the worker or its connection dies.
Abandon(t) ==
    /\ At(t, "find") \/ At(t, "rows")
    /\ Release(t)
    /\ UNCHANGED rows

Next ==
    \E t \in Txn :
        \/ \E operation \in DocumentOperation, d \in Document : RequestDocument(t, operation, d)
        \/ \E operation \in TaskOperation, w \in Task, u \in User : RequestTask(t, operation, w, u)
        \/ LockDocument(t)
        \/ LockTask(t)
        \/ Refuse(t)
        \/ FindTasks(t)
        \/ LockRow(t)
        \/ \E r \in Route : Publish(t, r)
        \/ Withdraw(t)
        \/ Work(t)
        \/ DeadlockDetected(t)
        \/ Abandon(t)

Spec == Init /\ [][Next]_vars

\* As for StockPosting: lock queues are served in order, so whoever keeps waiting
\* is served; a statement that can run runs; the detector looks from time to time.
Fairness ==
    \A t \in Txn :
        /\ SF_vars(LockDocument(t) \/ LockTask(t) \/ Refuse(t))
        /\ SF_vars(LockRow(t))
        /\ WF_vars(FindTasks(t) \/ Withdraw(t) \/ Work(t) \/ \E r \in Route : Publish(t, r))
        /\ WF_vars(DeadlockDetected(t))

FairSpec == Spec /\ Fairness
-----------------------------------------------------------------------------
(* Correctness *)

\* Warehouses only ever work on what the document says now: a task that is still to
\* be done belongs to the current version of a posted document, whatever workers
\* were doing while it was corrected or cancelled.
CurrentTasks ==
    \A w \in Task :
        task[w].status \in Active => status[w[1]] = "posted" /\ version[w[1]] = w[2]

\* Goods are received after they were sent: the receiving side of a transfer is
\* released only by the completion of the sending side, and always by it, so that
\* no receiving task waits for a task that has already ended.
TransferOrder ==
    \A w \in Task :
        LET send    == task[<<w[1], w[2], "dispatch">>]
            receive == task[ReceiveSide(w)]
        IN receive # NoTask /\ receive.transfer =>
              /\ receive.status = "blocked" => send.status \in Active
              /\ receive.status \in (Active \cup {"completed"}) \ {"blocked"}
                   => send.status = "completed"

\* Somebody entitled to the warehouse answers for every task in progress or done,
\* nobody for one that waits, and the lines say what became of the task.
Accountable ==
    \A w \in Task :
        LET row == task[w] IN
        /\ row.status \in {"in_progress", "needs_review", "completed"}
             => row.assignee # NoUser /\ MaySee(row.assignee, w)
        /\ row.status \in {"blocked", "pending", "in_transit"} => row.assignee = NoUser
        /\ row.status \in Active
             => (row.lines = "discrepancy") = (row.status = "needs_review")
        /\ row.status = "completed" => row.lines = "confirmed"

\* A task that was completed or cancelled is never written again, not even by a
\* request that had found it active before it waited for the row.
FinalTasksStay ==
    [][\A w \in Task : task[w].status \in Final => task'[w] = task[w]]_vars

\* Of two workers who start one task only one gets it: a task changes hands only
\* by being returned for a new start.
OneWorker ==
    [][\A w \in Task :
         task[w].status \in Active /\ task[w].assignee # NoUser
           => \/ task'[w].assignee = task[w].assignee
              \/ task[w].status = "needs_review" /\ task'[w].status = "pending"]_vars

\* Every request is answered, also when a confirmation and a correction lock the
\* two tasks of a transfer in opposite orders.
RequestsEnd == \A t \in Txn : ~At(t, "idle") ~> At(t, "idle")
=============================================================================
