------------------------- MODULE WarehouseTasksProofs -------------------------
(* The tasks of a document for any handlers, documents, users, warehouses,    *)
(* headers and versions: what is still to be done belongs to the current      *)
(* version, goods are received after they were sent, a task that has ended    *)
(* stays, and it changes hands only by being returned.  The reason is in what *)
(* each handler holds: a correction has locked, or has yet to lock, every     *)
(* active task of the version it replaces, and nobody else can publish one;   *)
(* a confirmation that is about to free the receiving side has locked it, or  *)
(* has yet to, unless it has ended.                                           *)
EXTENDS WarehouseTasks, TLAPS

SendSide(w) == <<w[1], w[2], "dispatch">>
There(w)    == task[w] # NoTask

\* The tasks of versions still to come are not there, and the two sides of a
\* transfer were generated together.
Paired ==
    /\ \A w \in Task : w[2] > version[w[1]] => ~There(w)
    /\ \A d \in Document, v \in Version :
         (There(<<d, v, "dispatch">>) /\ task[<<d, v, "dispatch">>].transfer)
           <=> (There(<<d, v, "receive">>) /\ task[<<d, v, "receive">>].transfer)

\* A handler past its first row holds it, and the row is still what it was for.
HoldsDocument(t) ==
    OnDocument(t) /\ ~At(t, "lock") =>
        /\ docLock[session[t].document] = t
        /\ DocumentEligible(session[t].op, session[t].document)
HoldsTask(t) ==
    OnTask(t) /\ ~At(t, "lock") =>
        /\ taskLock[session[t].task] = t
        /\ TaskEligible(session[t].op, session[t].user, session[t].task)

\* A handler locking the rows it found has, or has yet to lock, every row it is
\* there to change.
Reaches(t, w) == w \in session[t].wanted \/ taskLock[w] = t
CoversTasks(t) ==
    OnDocument(t) /\ At(t, "rows") /\ session[t].op # "post" =>
        \A w \in VersionTasks(session[t].document) :
            task[w].status \in Active => Reaches(t, w)
CoversReceive(t) ==
    OnTask(t) /\ At(t, "rows") /\ Unblocks(t) =>
        LET x == ReceiveSide(session[t].task) IN task[x].status = "blocked" => Reaches(t, x)

\* The inductive invariant.
TaskInv ==
    /\ TypeOK /\ CurrentTasks /\ TransferOrder /\ Accountable /\ Paired
    /\ \A t \in Txn : HoldsDocument(t) /\ HoldsTask(t) /\ CoversTasks(t) /\ CoversReceive(t)

\* What a step of t leaves to everybody else: their requests, their locks, the
\* documents and tasks it has not locked; and an ended task stays ended.
Respects(t) ==
    /\ \A u \in Txn \ {t} : session'[u] = session[u]
    /\ \A d \in Document : docLock[d] # t =>
         /\ status'[d] = status[d] /\ version'[d] = version[d]
         /\ docLock[d] \in Txn => docLock'[d] = docLock[d]
    /\ \A w \in Task :
         /\ taskLock[w] \in Txn \ {t} => taskLock'[w] = taskLock[w]
         /\ There(w) /\ taskLock[w] # t => task'[w] = task[w]
         /\ ~There(w) /\ docLock[w[1]] # t => task'[w] = task[w]
         /\ There(w) /\ task[w].status \notin Active => task'[w].status \notin Active
         /\ There(w) /\ task[w].status # "blocked" => task'[w].status # "blocked"
-----------------------------------------------------------------------------
\* A session is of one kind or of the other.
LEMMA Kinds ==
  ASSUME TypeOK, NEW t \in Txn
  PROVE  /\ OnDocument(t) => session[t] \in DocumentSession /\ ~OnTask(t)
         /\ OnTask(t) => session[t] \in TaskSession
         /\ At(t, "idle") \/ OnDocument(t) \/ OnTask(t)
<1>1. session[t] \in DocumentSession \cup TaskSession \cup {Closed}
  BY DEF TypeOK
<1>2. CASE session[t] \in DocumentSession
  BY <1>2 DEF DocumentSession, OnDocument, OnTask, At, Place, DocumentOperation, TaskOperation
<1>3. CASE session[t] \in TaskSession
  BY <1>3 DEF TaskSession, OnDocument, OnTask, At, Place, DocumentOperation, TaskOperation
<1>4. CASE session[t] = Closed
  BY <1>4 DEF Closed, OnDocument, OnTask, At
<1>5. QED
  BY <1>1, <1>2, <1>3, <1>4

\* A row is a task or is not there.
LEMMA Rows ==
  ASSUME TypeOK, NEW w \in Task
  PROVE  /\ There(w) => task[w] \in TaskRow
         /\ ~There(w) => task[w].status = "none"
         /\ There(w) <=> task[w].status # "none"
         /\ w[1] \in Document /\ w[2] \in Version /\ w[3] \in {"dispatch", "receive"}
         /\ w = <<w[1], w[2], w[3]>> /\ SendSide(w) \in Task /\ ReceiveSide(w) \in Task
<1>1. task[w] \in TaskRow \cup {NoTask}
  BY DEF TypeOK
<1>2. There(w) <=> task[w].status # "none"
  BY <1>1 DEF There, TaskRow, NoTask, Active, Final
<1>3. /\ w[1] \in Document /\ w[2] \in Version /\ w[3] \in {"dispatch", "receive"}
      /\ w = <<w[1], w[2], w[3]>>
  BY DEF Task
<1>4. SendSide(w) \in Task /\ ReceiveSide(w) \in Task
  BY <1>3 DEF Task, SendSide, ReceiveSide
<1>5. QED
  BY <1>1, <1>2, <1>3, <1>4 DEF There, NoTask

\* What is true of the other handlers stays true of them.
LEMMA OthersKept ==
  ASSUME TaskInv, NEW t \in Txn, Respects(t), NEW u \in Txn \ {t}
  PROVE  (HoldsDocument(u) /\ HoldsTask(u) /\ CoversTasks(u) /\ CoversReceive(u))'
<1>1. /\ session'[u] = session[u] /\ TypeOK /\ Paired
      /\ HoldsDocument(u) /\ HoldsTask(u) /\ CoversTasks(u) /\ CoversReceive(u)
  BY DEF Respects, TaskInv
<1>2. /\ OnDocument(u)' <=> OnDocument(u)
      /\ OnTask(u)' <=> OnTask(u)
      /\ \A p : At(u, p)' <=> At(u, p)
  BY <1>1 DEF OnDocument, OnTask, At
<1>3. ASSUME OnDocument(u), ~At(u, "lock")
      PROVE  /\ session[u].document \in Document
             /\ docLock'[session[u].document] = u /\ docLock[session[u].document] = u
             /\ status'[session[u].document] = status[session[u].document]
             /\ version'[session[u].document] = version[session[u].document]
  <2>1. session[u].document \in Document
    BY <1>1, <1>3, Kinds DEF DocumentSession
  <2>2. docLock[session[u].document] = u
    BY <1>1, <1>3 DEF HoldsDocument
  <2>3. QED
    BY <2>1, <2>2 DEF Respects
<1>4. ASSUME OnTask(u), ~At(u, "lock")
      PROVE  /\ session[u].task \in Task /\ There(session[u].task)
             /\ taskLock'[session[u].task] = u
             /\ task'[session[u].task] = task[session[u].task]
  <2>1. session[u].task \in Task /\ session[u].op \in TaskOperation
    BY <1>1, <1>4, Kinds DEF TaskSession
  <2>2. /\ taskLock[session[u].task] = u
        /\ TaskEligible(session[u].op, session[u].user, session[u].task)
    BY <1>1, <1>4 DEF HoldsTask
  <2>3. There(session[u].task)
    BY <1>1, <2>1, <2>2, Rows DEF TaskEligible, TaskOperation
  <2>4. QED
    BY <2>1, <2>2, <2>3 DEF Respects
<1>5. HoldsDocument(u)'
  BY <1>1, <1>2, <1>3 DEF HoldsDocument, DocumentEligible
<1>6. HoldsTask(u)'
  BY <1>1, <1>2, <1>4 DEF HoldsTask, TaskEligible, MaySee
<1>7. CoversTasks(u)'
  <2> SUFFICES ASSUME OnDocument(u), At(u, "rows"), session[u].op # "post",
                      NEW w \in VersionTasks(session[u].document)', task'[w].status \in Active
               PROVE  Reaches(u, w)'
    BY <1>1, <1>2 DEF CoversTasks
  <2>0. ~At(u, "lock")
    BY DEF At
  <2>1. w \in Task /\ w[1] = session[u].document /\ w[2] = version[session[u].document]
    BY <1>1, <1>3, <2>0 DEF VersionTasks
  <2>2. task[w].status \in Active
    <3>1. CASE There(w)
      BY <2>1, <3>1 DEF Respects
    <3>2. CASE ~There(w)
      BY <1>3, <2>0, <2>1, <3>2 DEF Respects
    <3>3. QED
      BY <3>1, <3>2
  <2>3. Reaches(u, w)
    BY <1>1, <2>1, <2>2 DEF CoversTasks, VersionTasks
  <2>4. QED
    BY <1>1, <2>1, <2>3 DEF Reaches, Respects
<1>8. CoversReceive(u)'
  <2> DEFINE s == session[u].task
             x == ReceiveSide(session[u].task)
  <2> SUFFICES ASSUME OnTask(u), At(u, "rows"), Unblocks(u)', task'[x].status = "blocked"
               PROVE  Reaches(u, x)'
    BY <1>1, <1>2 DEF CoversReceive
  <2>0. ~At(u, "lock")
    BY DEF At
  <2>1. s \in Task /\ There(s) /\ task'[s] = task[s]
    BY <1>4, <2>0
  <2>2. Unblocks(u) /\ s[3] = "dispatch" /\ task[s].transfer
    BY <1>1, <2>1 DEF Unblocks
  <2>3. x \in Task /\ There(x)
    BY <1>1, <2>1, <2>2, Rows DEF Paired, ReceiveSide
  <2>4. task[x].status = "blocked"
    BY <2>3 DEF Respects
  <2>5. Reaches(u, x)
    BY <1>1, <2>2, <2>4 DEF CoversReceive
  <2>6. QED
    BY <1>1, <2>3, <2>5 DEF Reaches, Respects
<1>9. QED
  BY <1>5, <1>6, <1>7, <1>8
-----------------------------------------------------------------------------
\* Steps that write no row.
LEMMA RowsKept ==
  ASSUME TaskInv, NEW t \in Txn, UNCHANGED rows, TypeOK',
         \A u \in Txn \ {t} : session'[u] = session[u],
         \A d \in Document : docLock[d] \in Txn \ {t} => docLock'[d] = docLock[d],
         \A w \in Task : taskLock[w] \in Txn \ {t} => taskLock'[w] = taskLock[w],
         (HoldsDocument(t) /\ HoldsTask(t) /\ CoversTasks(t) /\ CoversReceive(t))'
  PROVE  TaskInv'
<1>1. Respects(t)
  BY DEF Respects, rows
<1>2. \A u \in Txn : (HoldsDocument(u) /\ HoldsTask(u) /\ CoversTasks(u) /\ CoversReceive(u))'
  BY <1>1, OthersKept
<1>3. (CurrentTasks /\ TransferOrder /\ Accountable /\ Paired)'
  BY DEF TaskInv, rows, CurrentTasks, TransferOrder, Accountable, MaySee, Paired, There
<1>4. QED
  BY <1>2, <1>3 DEF TaskInv

\* The end of a transaction gives up what it held, and nothing else.
LEMMA Ended ==
  ASSUME TypeOK, NEW t \in Txn, Release(t)
  PROVE  /\ docLock' \in [Document -> Txn \cup {NoTxn}]
         /\ taskLock' \in [Task -> Txn \cup {NoTxn}]
         /\ session' \in [Txn -> DocumentSession \cup TaskSession \cup {Closed}]
         /\ \A u \in Txn \ {t} : session'[u] = session[u]
         /\ \A d \in Document : docLock[d] \in Txn \ {t} => docLock'[d] = docLock[d]
         /\ \A w \in Task : taskLock[w] \in Txn \ {t} => taskLock'[w] = taskLock[w]
         /\ (HoldsDocument(t) /\ HoldsTask(t) /\ CoversTasks(t) /\ CoversReceive(t))'
<1>1. session'[t] = Closed /\ ~OnDocument(t)' /\ ~OnTask(t)'
  BY DEF TypeOK, Release, Closed, OnDocument, OnTask, At
<1>2. QED
  BY <1>1 DEF TypeOK, Release, HoldsDocument, HoldsTask, CoversTasks, CoversReceive

\* A request that ends without writing.
LEMMA EndedKeeps ==
  ASSUME TaskInv, NEW t \in Txn, Release(t), UNCHANGED rows
  PROVE  TaskInv'
<1>1. TypeOK
  BY DEF TaskInv
<1>2. TypeOK'
  BY <1>1, Ended DEF TypeOK, rows
<1>3. QED
  BY <1>1, <1>2, Ended, RowsKept

\* A new request holds nothing yet.
LEMMA RequestDocumentKeeps ==
  ASSUME TaskInv, NEW t \in Txn, NEW operation \in DocumentOperation, NEW d \in Document,
         RequestDocument(t, operation, d)
  PROVE  TaskInv'
<1> DEFINE x == [pc |-> "lock", op |-> operation, document |-> d, wanted |-> {}]
<1>1. x \in DocumentSession /\ x.pc = "lock"
  BY DEF DocumentSession, Place
<1>2. session' = [session EXCEPT ![t] = x] /\ UNCHANGED <<rows, locks>> /\ TypeOK
  BY DEF RequestDocument, TaskInv
<1> HIDE DEF x
<1>3. TypeOK' /\ session'[t] = x
  BY <1>1, <1>2 DEF TypeOK, rows, locks
<1>4. (HoldsDocument(t) /\ HoldsTask(t) /\ CoversTasks(t) /\ CoversReceive(t))'
  BY <1>1, <1>3 DEF HoldsDocument, HoldsTask, CoversTasks, CoversReceive, At
<1>5. QED
  BY <1>2, <1>3, <1>4, RowsKept DEF TypeOK, locks

LEMMA RequestTaskKeeps ==
  ASSUME TaskInv, NEW t \in Txn, NEW operation \in TaskOperation, NEW w \in Task, NEW u \in User,
         RequestTask(t, operation, w, u)
  PROVE  TaskInv'
<1> DEFINE x == [pc |-> "lock", op |-> operation, task |-> w, user |-> u, wanted |-> {}]
<1>1. x \in TaskSession /\ x.pc = "lock"
  BY DEF TaskSession, Place
<1>2. session' = [session EXCEPT ![t] = x] /\ UNCHANGED <<rows, locks>> /\ TypeOK
  BY DEF RequestTask, TaskInv
<1> HIDE DEF x
<1>3. TypeOK' /\ session'[t] = x
  BY <1>1, <1>2 DEF TypeOK, rows, locks
<1>4. (HoldsDocument(t) /\ HoldsTask(t) /\ CoversTasks(t) /\ CoversReceive(t))'
  BY <1>1, <1>3 DEF HoldsDocument, HoldsTask, CoversTasks, CoversReceive, At
<1>5. QED
  BY <1>2, <1>3, <1>4, RowsKept DEF TypeOK, locks

\* A session that moves on, and perhaps looks for other rows.
LEMMA MovedOn ==
  ASSUME TypeOK, NEW t \in Txn, OnDocument(t) \/ OnTask(t), NEW place \in Place,
         NEW found \in SUBSET Task,
         session' = [session EXCEPT ![t] = [session[t] EXCEPT !.pc = place, !.wanted = found]]
  PROVE  /\ session' \in [Txn -> DocumentSession \cup TaskSession \cup {Closed}]
         /\ \A u \in Txn \ {t} : session'[u] = session[u]
         /\ \A p \in Place : At(t, p)' <=> p = place
         /\ OnDocument(t)' <=> OnDocument(t)
         /\ OnTask(t)' <=> OnTask(t)
         /\ session'[t].op = session[t].op /\ session'[t].wanted = found
         /\ OnDocument(t) => session'[t].document = session[t].document
         /\ OnTask(t) => session'[t].task = session[t].task /\ session'[t].user = session[t].user
<1> DEFINE x == [session[t] EXCEPT !.pc = place, !.wanted = found]
<1>1. /\ OnDocument(t) => session[t] \in DocumentSession
      /\ OnTask(t) => session[t] \in TaskSession
  BY Kinds
<1>2. /\ x \in DocumentSession \cup TaskSession
      /\ x.pc = place /\ x.wanted = found /\ x.op = session[t].op
      /\ OnDocument(t) => x.document = session[t].document
      /\ OnTask(t) => x.task = session[t].task /\ x.user = session[t].user
  <2>1. CASE OnDocument(t)
    <3>1. x \in DocumentSession
      BY <1>1, <2>1 DEF DocumentSession
    <3>2. QED
      BY <1>1, <2>1, <3>1, Kinds DEF DocumentSession
  <2>2. CASE OnTask(t)
    <3>1. x \in TaskSession
      BY <1>1, <2>2 DEF TaskSession
    <3>2. QED
      BY <1>1, <2>2, <3>1, Kinds DEF TaskSession
  <2>3. QED
    BY <2>1, <2>2
<1> HIDE DEF x
<1>3. session' = [session EXCEPT ![t] = x] /\ session'[t] = x
  BY DEF x, TypeOK
<1>4. place # "idle" /\ ~At(t, "idle")
  BY DEF Place, OnDocument, OnTask
<1>5. QED
  BY <1>2, <1>3, <1>4 DEF TypeOK, At, OnDocument, OnTask
\* The row of the document is there for the operation, and now it is held.
LEMMA LockDocumentKeeps ==
  ASSUME TaskInv, NEW t \in Txn, LockDocument(t)
  PROVE  TaskInv'
<1> DEFINE d == session[t].document
           place == IF session[t].op = "post" THEN "rows" ELSE "find"
<1>1. /\ TypeOK /\ OnDocument(t) /\ session[t] \in DocumentSession /\ ~OnTask(t)
      /\ d \in Document /\ docLock[d] = NoTxn /\ DocumentEligible(session[t].op, d)
  BY Kinds DEF TaskInv, LockDocument, DocumentSession
<1>2. place \in Place /\ session[t].wanted \in SUBSET Task
  BY <1>1 DEF Place, DocumentSession
<1>3. session' = [session EXCEPT ![t] = [session[t] EXCEPT !.pc = place, !.wanted = session[t].wanted]]
  BY <1>1 DEF LockDocument, TypeOK, DocumentSession
<1>4. /\ docLock' = [docLock EXCEPT ![d] = t] /\ UNCHANGED <<rows, taskLock>>
  BY DEF LockDocument
<1> HIDE DEF place
<1>5. /\ session' \in [Txn -> DocumentSession \cup TaskSession \cup {Closed}]
      /\ \A u \in Txn \ {t} : session'[u] = session[u]
      /\ \A p \in Place : At(t, p)' <=> p = place
      /\ OnDocument(t)' /\ ~OnTask(t)'
      /\ session'[t].op = session[t].op /\ session'[t].document = d
  BY <1>1, <1>2, <1>3, MovedOn
<1>6. TypeOK'
  BY <1>1, <1>4, <1>5 DEF TypeOK, rows
<1>7. HoldsDocument(t)' /\ HoldsTask(t)' /\ CoversReceive(t)'
  BY <1>1, <1>4, <1>5 DEF HoldsDocument, HoldsTask, CoversReceive, TypeOK, DocumentEligible, rows
<1>8. CoversTasks(t)'
  BY <1>5 DEF CoversTasks, place, Place
<1>9. QED
  BY <1>1, <1>4, <1>5, <1>6, <1>7, <1>8, Nobody, RowsKept

\* The task is there for the operation, and now it is held.
LEMMA LockTaskKeeps ==
  ASSUME TaskInv, NEW t \in Txn, LockTask(t)
  PROVE  TaskInv'
<1> DEFINE w == session[t].task
           place == IF Unblocks(t) THEN "find" ELSE "rows"
<1>1. /\ TypeOK /\ OnTask(t) /\ session[t] \in TaskSession /\ ~OnDocument(t)
      /\ w \in Task /\ taskLock[w] = NoTxn /\ TaskEligible(session[t].op, session[t].user, w)
  BY Kinds DEF TaskInv, LockTask, TaskSession
<1>2. place \in Place /\ session[t].wanted \in SUBSET Task
  BY <1>1 DEF Place, TaskSession
<1>3. session' = [session EXCEPT ![t] = [session[t] EXCEPT !.pc = place, !.wanted = session[t].wanted]]
  BY <1>1 DEF LockTask, TypeOK, TaskSession
<1>4. /\ taskLock' = [taskLock EXCEPT ![w] = t] /\ UNCHANGED <<rows, docLock>>
  BY DEF LockTask
<1> HIDE DEF place
<1>5. /\ session' \in [Txn -> DocumentSession \cup TaskSession \cup {Closed}]
      /\ \A u \in Txn \ {t} : session'[u] = session[u]
      /\ \A p \in Place : At(t, p)' <=> p = place
      /\ OnTask(t)' /\ ~OnDocument(t)'
      /\ session'[t].op = session[t].op /\ session'[t].task = w /\ session'[t].user = session[t].user
  BY <1>1, <1>2, <1>3, MovedOn
<1>6. TypeOK'
  BY <1>1, <1>4, <1>5 DEF TypeOK, rows
<1>7. HoldsDocument(t)' /\ HoldsTask(t)' /\ CoversTasks(t)'
  BY <1>1, <1>4, <1>5 DEF HoldsDocument, HoldsTask, CoversTasks, TypeOK, TaskEligible, MaySee, rows
<1>8. CoversReceive(t)'
  BY <1>4, <1>5 DEF CoversReceive, place, Place, Unblocks, rows
<1>9. QED
  BY <1>1, <1>4, <1>5, <1>6, <1>7, <1>8, Nobody, RowsKept

\* The snapshot has every row the handler is there to change.
LEMMA FindTasksKeeps ==
  ASSUME TaskInv, NEW t \in Txn, FindTasks(t)
  PROVE  TaskInv'
<1> DEFINE found == IF OnDocument(t)
                    THEN {w \in VersionTasks(session[t].document) : task[w].status \in Active}
                    ELSE {w \in {ReceiveSide(session[t].task)} : task[w].status = "blocked"}
<1>1. /\ TypeOK /\ HoldsDocument(t) /\ HoldsTask(t) /\ At(t, "find")
      /\ OnDocument(t) \/ OnTask(t)
      /\ OnDocument(t) => session[t] \in DocumentSession /\ ~OnTask(t)
      /\ OnTask(t) => session[t] \in TaskSession
  BY Kinds DEF TaskInv, FindTasks, At
<1>2. found \in SUBSET Task
  <2>1. CASE OnDocument(t)
    BY <2>1 DEF VersionTasks
  <2>2. CASE ~OnDocument(t)
    <3>1. session[t].task \in Task
      BY <1>1, <2>2 DEF TaskSession
    <3>2. QED
      BY <1>1, <2>2, <3>1, Rows
  <2>3. QED
    BY <2>1, <2>2
<1>3. session' = [session EXCEPT ![t] = [session[t] EXCEPT !.pc = "rows", !.wanted = found]]
  BY <1>1 DEF FindTasks, TypeOK
<1>4. UNCHANGED <<rows, docLock, taskLock>> /\ "rows" \in Place
  BY DEF FindTasks, locks, Place
<1>5. OnDocument(t) => \A w \in VersionTasks(session[t].document) : task[w].status \in Active => w \in found
  OBVIOUS
<1>6. OnTask(t) /\ task[ReceiveSide(session[t].task)].status = "blocked"
        => ReceiveSide(session[t].task) \in found
  BY <1>1
<1> HIDE DEF found
<1>7. /\ session' \in [Txn -> DocumentSession \cup TaskSession \cup {Closed}]
      /\ \A u \in Txn \ {t} : session'[u] = session[u]
      /\ OnDocument(t)' <=> OnDocument(t)
      /\ OnTask(t)' <=> OnTask(t)
      /\ session'[t].op = session[t].op /\ session'[t].wanted = found
      /\ OnDocument(t) => session'[t].document = session[t].document
      /\ OnTask(t) => session'[t].task = session[t].task /\ session'[t].user = session[t].user
  BY <1>1, <1>2, <1>3, <1>4, MovedOn
<1>8. TypeOK'
  BY <1>1, <1>4, <1>7 DEF TypeOK, rows
<1>9. HoldsDocument(t)' /\ HoldsTask(t)'
  <2>1. ~At(t, "lock")
    BY <1>1 DEF At
  <2>2. QED
    BY <1>1, <1>4, <1>7, <2>1 DEF HoldsDocument, HoldsTask, DocumentEligible, TaskEligible, MaySee, rows
<1>10. CoversTasks(t)'
  BY <1>4, <1>5, <1>7 DEF CoversTasks, Reaches, VersionTasks, rows
<1>11. CoversReceive(t)'
  BY <1>4, <1>6, <1>7 DEF CoversReceive, Reaches, rows
<1>12. QED
  BY <1>4, <1>7, <1>8, <1>9, <1>10, <1>11, RowsKept

\* A row goes from those to lock to those locked.
LEMMA LockRowKeeps ==
  ASSUME TaskInv, NEW t \in Txn, LockRow(t)
  PROVE  TaskInv'
<1>1. /\ TypeOK /\ HoldsDocument(t) /\ HoldsTask(t) /\ CoversTasks(t) /\ CoversReceive(t) /\ At(t, "rows")
      /\ OnDocument(t) \/ OnTask(t)
      /\ OnDocument(t) => session[t] \in DocumentSession
      /\ OnTask(t) => session[t] \in TaskSession
  BY Kinds DEF TaskInv, LockRow, At
<1>2. PICK w \in session[t].wanted : /\ taskLock[w] = NoTxn
                                    /\ taskLock' = [taskLock EXCEPT ![w] = t]
                                    /\ session' = [session EXCEPT ![t].wanted = @ \ {w}]
  BY DEF LockRow
<1> DEFINE rest == session[t].wanted \ {w}
<1>3. /\ UNCHANGED <<rows, docLock>> /\ w \in Task /\ rest \in SUBSET Task
      /\ "rows" \in Place
  BY <1>1, <1>2 DEF LockRow, DocumentSession, TaskSession, Place
<1>4. session' = [session EXCEPT ![t] = [session[t] EXCEPT !.pc = "rows", !.wanted = rest]]
  BY <1>1, <1>2 DEF TypeOK, At, DocumentSession, TaskSession
<1>5. \A x : x \in session[t].wanted => x \in rest \/ x = w
  OBVIOUS
<1> HIDE DEF rest
<1>6. /\ session' \in [Txn -> DocumentSession \cup TaskSession \cup {Closed}]
      /\ \A u \in Txn \ {t} : session'[u] = session[u]
      /\ OnDocument(t)' <=> OnDocument(t)
      /\ OnTask(t)' <=> OnTask(t)
      /\ session'[t].op = session[t].op /\ session'[t].wanted = rest
      /\ OnDocument(t) => session'[t].document = session[t].document
      /\ OnTask(t) => session'[t].task = session[t].task /\ session'[t].user = session[t].user
  BY <1>1, <1>3, <1>4, MovedOn
<1>7. TypeOK'
  BY <1>1, <1>2, <1>3, <1>6 DEF TypeOK, rows
<1>8. \A x \in Task : /\ taskLock[x] \in Txn => taskLock'[x] = taskLock[x]
                      /\ Reaches(t, x) => Reaches(t, x)'
  BY <1>1, <1>2, <1>3, <1>5, <1>6, Nobody DEF Reaches, TypeOK
<1>9. HoldsDocument(t)' /\ HoldsTask(t)'
  <2>1. ~At(t, "lock")
    BY <1>1 DEF At
  <2>2. OnTask(t) => session[t].task \in Task
    BY <1>1 DEF TaskSession
  <2>3. QED
    BY <1>1, <1>3, <1>6, <1>8, <2>1, <2>2
       DEF HoldsDocument, HoldsTask, DocumentEligible, TaskEligible, MaySee, rows
<1>10. CoversTasks(t)'
  BY <1>1, <1>3, <1>6, <1>8 DEF CoversTasks, VersionTasks, rows
<1>11. CoversReceive(t)'
  <2>1. OnTask(t) => ReceiveSide(session[t].task) \in Task
    BY <1>1, Rows DEF TaskSession
  <2>2. QED
    BY <1>1, <1>3, <1>6, <1>8, <2>1 DEF CoversReceive, Unblocks, rows
<1>12. QED
  BY <1>3, <1>6, <1>7, <1>8, <1>9, <1>10, <1>11, RowsKept
-----------------------------------------------------------------------------
\* What a transaction may do to a row: generate it, or write an active one, which
\* then keeps its warehouse, its kind and, unless it waits or is returned, its worker.
Born(w, r) ==
    /\ ~There(w) /\ w[3] \in Sides(r) /\ task'[w] \in TaskRow
    /\ task'[w].status = (IF r.type = "transfer" /\ w[3] = "receive" THEN "blocked" ELSE "pending")
    /\ task'[w].transfer = (r.type = "transfer")
    /\ task'[w].assignee = NoUser /\ task'[w].lines = "pending"
Rewritten(w) ==
    /\ There(w) /\ task[w].status \in Active /\ task'[w] \in TaskRow
    /\ task'[w].warehouse = task[w].warehouse /\ task'[w].transfer = task[w].transfer
    /\ \/ task'[w].assignee = task[w].assignee
       \/ task[w].assignee = NoUser
       \/ task[w].status = "needs_review" /\ task'[w].status = "pending"
Ends(w) == Rewritten(w) /\ task'[w].status = "cancelled"

\* What Accountable says of one row.
Accounts(row) ==
    /\ row.status \in {"in_progress", "needs_review", "completed"}
         => row.assignee # NoUser /\ (row.assignee \in Reviewer \/ row.warehouse \in Access[row.assignee])
    /\ row.status \in {"blocked", "pending", "in_transit"} => row.assignee = NoUser
    /\ row.status \in Active => (row.lines = "discrepancy") = (row.status = "needs_review")
    /\ row.status = "completed" => row.lines = "confirmed"

LEMMA Accounting == Accountable <=> \A w \in Task : Accounts(task[w])
BY DEF Accountable, Accounts, MaySee

\* What TransferOrder says of the two sides.
Ordered(send, receive) ==
    receive # NoTask /\ receive.transfer =>
        /\ receive.status = "blocked" => send.status \in Active
        /\ receive.status \in (Active \cup {"completed"}) \ {"blocked"} => send.status = "completed"

LEMMA Ordering == TransferOrder <=> \A w \in Task : Ordered(task[SendSide(w)], task[ReceiveSide(w)])
BY DEF TransferOrder, Ordered, SendSide

LEMMA GeneratedRow ==
  ASSUME NEW r \in Route, NEW w \in Task, w[3] \in Sides(r), ~There(w), task'[w] = Generated(r, w[3])
  PROVE  Born(w, r)
<1>1. r \in RouteType /\ r.warehouse \in Warehouse /\ r.destination \in Warehouse
  BY Routes DEF RouteType
<1>2. Generated(r, w[3]) \in TaskRow
  BY <1>1 DEF Generated, TaskRow, Active
<1>3. QED
  BY <1>2 DEF Generated, Born

LEMMA CancelledRow ==
  ASSUME TypeOK, NEW w \in Task, task[w].status \in Active,
         task'[w] = [task[w] EXCEPT !.status = "cancelled"]
  PROVE  Ends(w)
<1>1. There(w) /\ task[w] \in TaskRow
  BY Rows DEF Active
<1>2. QED
  BY <1>1 DEF Ends, Rewritten, TaskRow, Final

\* A correction that has every row it found has every active row of the version.
LEMMA Withdraws ==
  ASSUME TaskInv, NEW t \in Txn, OnDocument(t), Complete(t), NEW w \in Task
  PROVE  /\ session[t].document \in Document /\ docLock[session[t].document] = t
         /\ DocumentEligible(session[t].op, session[t].document)
         /\ session[t].op \in DocumentOperation
         /\ version[session[t].document] \in 0 .. MaxVersion
         /\ Withdrawn(t, w) <=> /\ w[1] = session[t].document
                                /\ w[2] = version[session[t].document]
                                /\ task[w].status \in Active
<1> DEFINE d == session[t].document
<1>1. /\ TypeOK /\ CurrentTasks /\ HoldsDocument(t) /\ CoversTasks(t)
      /\ At(t, "rows") /\ ~At(t, "lock") /\ session[t].wanted = {}
  BY DEF TaskInv, Complete, At
<1>2. d \in Document /\ session[t].op \in DocumentOperation /\ version[d] \in 0 .. MaxVersion
  BY <1>1, Kinds DEF DocumentSession, TypeOK
<1>3. docLock[d] = t /\ DocumentEligible(session[t].op, d)
  BY <1>1 DEF HoldsDocument
<1>4. ASSUME w[1] = d, w[2] = version[d], task[w].status \in Active PROVE Withdrawn(t, w)
  <2>1. status[d] = "posted"
    BY <1>1, <1>4 DEF CurrentTasks
  <2>2. session[t].op \in {"repost", "cancel"}
    BY <1>2, <1>3, <2>1 DEF DocumentEligible, DocumentOperation
  <2>3. w \in VersionTasks(d)
    BY <1>4 DEF VersionTasks
  <2>4. taskLock[w] = t
    BY <1>1, <1>4, <2>2, <2>3 DEF CoversTasks, Reaches
  <2>5. QED
    BY <1>4, <2>2, <2>3, <2>4 DEF Withdrawn
<1>5. QED
  BY <1>2, <1>3, <1>4 DEF Withdrawn, VersionTasks

\* Posting and correcting: the tasks of the old version end, those of the new one
\* are generated, and no others are touched.
LEMMA PublishRows ==
  ASSUME TaskInv, NEW t \in Txn, NEW r \in Route, Publish(t, r), NEW w \in Task
  PROVE  LET d == session[t].document IN
         \/ w[1] = d /\ w[2] = version[d] + 1 /\ Born(w, r)
         \/ w[1] = d /\ w[2] = version[d] /\ taskLock[w] = t /\ Ends(w)
         \/ /\ task'[w] = task[w]
            /\ ~(w[1] = d /\ w[2] = version[d] /\ task[w].status \in Active)
            /\ ~(w[1] = d /\ w[2] = version[d] + 1 /\ w[3] \in Sides(r))
<1> DEFINE d == session[t].document
<1>1. TypeOK /\ Paired /\ OnDocument(t) /\ Complete(t)
  BY DEF TaskInv, Publish
<1>2. /\ d \in Document /\ version[d] \in 0 .. MaxVersion
      /\ Withdrawn(t, w) <=> w[1] = d /\ w[2] = version[d] /\ task[w].status \in Active
  BY <1>1, Withdraws
<1>3. task'[w] = IF w[1] = d /\ w[2] = version[d] + 1 /\ w[3] \in Sides(r) /\ task[w] = NoTask
                 THEN Generated(r, w[3])
                 ELSE IF Withdrawn(t, w) THEN [task[w] EXCEPT !.status = "cancelled"]
                 ELSE task[w]
  BY DEF Publish
<1>4. w[1] = d /\ w[2] = version[d] + 1 => ~There(w)
  BY <1>1, <1>2 DEF Paired
<1>5. CASE w[1] = d /\ w[2] = version[d] + 1 /\ w[3] \in Sides(r)
  BY <1>3, <1>4, <1>5, GeneratedRow DEF There
<1>6. CASE Withdrawn(t, w)
  <2>1. w[2] # version[d] + 1
    BY <1>2, <1>6
  <2>2. task'[w] = [task[w] EXCEPT !.status = "cancelled"]
    BY <1>3, <1>6, <2>1
  <2>3. Ends(w) /\ taskLock[w] = t
    BY <1>1, <1>2, <1>6, <2>2, CancelledRow DEF Withdrawn
  <2>4. QED
    BY <1>2, <1>6, <2>3
<1>7. CASE ~Withdrawn(t, w) /\ ~(w[1] = d /\ w[2] = version[d] + 1 /\ w[3] \in Sides(r))
  BY <1>2, <1>3, <1>7
<1>8. QED
  BY <1>5, <1>6, <1>7

LEMMA WithdrawRows ==
  ASSUME TaskInv, NEW t \in Txn, Withdraw(t), NEW w \in Task
  PROVE  LET d == session[t].document IN
         \/ w[1] = d /\ w[2] = version[d] /\ taskLock[w] = t /\ Ends(w)
         \/ /\ task'[w] = task[w]
            /\ ~(w[1] = d /\ w[2] = version[d] /\ task[w].status \in Active)
<1> DEFINE d == session[t].document
<1>1. TypeOK /\ OnDocument(t) /\ Complete(t)
  BY DEF TaskInv, Withdraw
<1>2. Withdrawn(t, w) <=> w[1] = d /\ w[2] = version[d] /\ task[w].status \in Active
  BY <1>1, Withdraws
<1>3. task'[w] = IF Withdrawn(t, w) THEN [task[w] EXCEPT !.status = "cancelled"] ELSE task[w]
  BY DEF Withdraw
<1>4. CASE Withdrawn(t, w)
  BY <1>1, <1>2, <1>3, <1>4, CancelledRow DEF Withdrawn
<1>5. CASE ~Withdrawn(t, w)
  BY <1>2, <1>3, <1>5
<1>6. QED
  BY <1>4, <1>5
\* What an operation makes of the row it is for.
LEMMA OutcomeRow ==
  ASSUME NEW operation \in TaskOperation, NEW u \in User, NEW row \in TaskRow
  PROVE  LET new == Outcome(operation, u, row) IN
         /\ new \in TaskRow /\ new.warehouse = row.warehouse /\ new.transfer = row.transfer
         /\ operation = "start" => /\ new.status = "in_progress" /\ new.assignee = u
                                   /\ new.lines = row.lines
         /\ operation = "confirm" => /\ new.status = "completed" /\ new.assignee = row.assignee
                                     /\ new.lines = "confirmed"
         /\ operation = "report" => /\ new.status = "needs_review" /\ new.assignee = row.assignee
                                   /\ new.lines = "discrepancy"
         /\ operation = "return" => /\ new.status = "pending" /\ new.assignee = NoUser
                                   /\ new.lines = "pending"
<1>1. CASE operation = "start"
  BY <1>1 DEF Outcome, TaskRow, Active
<1>2. CASE operation = "confirm"
  BY <1>2 DEF Outcome, TaskRow, Final
<1>3. CASE operation = "report"
  BY <1>3 DEF Outcome, TaskRow, Active
<1>4. CASE operation = "return"
  BY <1>4 DEF Outcome, TaskRow, Active
<1>5. QED
  BY <1>1, <1>2, <1>3, <1>4 DEF TaskOperation

\* The task of the request.
LEMMA OwnRow ==
  ASSUME TaskInv, NEW t \in Txn, Work(t)
  PROVE  LET w   == session[t].task
             op  == session[t].op
             new == task'[w]
         IN /\ w \in Task /\ There(w) /\ taskLock[w] = t /\ Rewritten(w)
            /\ session[t].user \in User /\ TaskEligible(op, session[t].user, w)
            /\ op \in TaskOperation
            /\ op = "start" => /\ new.status = "in_progress" /\ new.assignee = session[t].user
                               /\ new.lines = task[w].lines
            /\ op = "confirm" => /\ new.status = "completed" /\ new.assignee = task[w].assignee
                                 /\ new.lines = "confirmed"
            /\ op = "report" => /\ new.status = "needs_review" /\ new.assignee = task[w].assignee
                               /\ new.lines = "discrepancy"
            /\ op = "return" => /\ new.status = "pending" /\ new.assignee = NoUser
                               /\ new.lines = "pending"
<1> DEFINE w == session[t].task
           op == session[t].op
           u == session[t].user
<1>1. /\ TypeOK /\ Accountable /\ HoldsTask(t) /\ OnTask(t) /\ ~At(t, "lock")
  BY DEF TaskInv, Work, Complete, At
<1>2. w \in Task /\ op \in TaskOperation /\ u \in User
  BY <1>1, Kinds DEF TaskSession
<1>3. taskLock[w] = t /\ TaskEligible(op, u, w)
  BY <1>1 DEF HoldsTask
<1>4. task'[w] = Outcome(op, u, task[w])
  BY <1>2 DEF Work
<1>5. task[w].status \in {"pending", "in_transit", "in_progress", "needs_review"}
  BY <1>2, <1>3 DEF TaskEligible, TaskOperation
<1>6. There(w) /\ task[w] \in TaskRow /\ task[w].status \in Active
  BY <1>1, <1>2, <1>5, Rows DEF Active
<1>7. op = "start" => task[w].assignee = NoUser
  BY <1>1, <1>2, <1>3 DEF TaskEligible, Accountable
<1>8. op = "return" => task[w].status = "needs_review"
  BY <1>3 DEF TaskEligible
<1> DEFINE new == Outcome(op, u, task[w])
<1>9. /\ new \in TaskRow /\ new.warehouse = task[w].warehouse /\ new.transfer = task[w].transfer
      /\ op = "start" => new.status = "in_progress" /\ new.assignee = u /\ new.lines = task[w].lines
      /\ op = "confirm" => /\ new.status = "completed" /\ new.assignee = task[w].assignee
                           /\ new.lines = "confirmed"
      /\ op = "report" => /\ new.status = "needs_review" /\ new.assignee = task[w].assignee
                         /\ new.lines = "discrepancy"
      /\ op = "return" => new.status = "pending" /\ new.assignee = NoUser /\ new.lines = "pending"
  BY <1>2, <1>6, OutcomeRow
<1>10. op \in {"start", "confirm", "report", "return"}
  BY <1>2 DEF TaskOperation
<1> HIDE DEF new
<1>11. task'[w] = new
  BY <1>4 DEF new
<1>12. Rewritten(w)
  BY <1>6, <1>7, <1>8, <1>9, <1>10, <1>11 DEF Rewritten
<1> HIDE DEF w, op, u
<1>13. QED
  BY <1>2, <1>3, <1>6, <1>9, <1>11, <1>12 DEF w, op, u

\* The other tasks: the receiving side of a transfer is freed, if it waits.
LEMMA OtherRows ==
  ASSUME TaskInv, NEW t \in Txn, Work(t), NEW x \in Task, x # session[t].task
  PROVE  \/ /\ task'[x] = task[x]
            /\ ~(Unblocks(t) /\ x = ReceiveSide(session[t].task) /\ task[x].status = "blocked")
         \/ /\ Unblocks(t) /\ x = ReceiveSide(session[t].task) /\ taskLock[x] = t
            /\ task[x].status = "blocked" /\ task'[x].status = "in_transit" /\ Rewritten(x)
            /\ task'[x].assignee = task[x].assignee /\ task'[x].lines = task[x].lines
<1>1. TypeOK /\ OnTask(t) /\ At(t, "rows") /\ session[t].wanted = {} /\ CoversReceive(t)
  BY DEF TaskInv, Work, Complete
<1>2. CASE Unblocks(t) /\ x = ReceiveSide(session[t].task) /\ task[x].status = "blocked"
  <2>1. taskLock[x] = t
    BY <1>1, <1>2 DEF CoversReceive, Reaches
  <2>2. task'[x] = [task[x] EXCEPT !.status = "in_transit"]
    BY <1>2, <2>1 DEF Work
  <2>3. There(x) /\ task[x] \in TaskRow
    BY <1>1, <1>2, Rows
  <2>4. QED
    BY <1>2, <2>1, <2>2, <2>3 DEF Rewritten, TaskRow, Active
<1>3. CASE ~(Unblocks(t) /\ x = ReceiveSide(session[t].task) /\ task[x].status = "blocked")
  BY <1>3 DEF Work
<1>4. QED
  BY <1>2, <1>3
-----------------------------------------------------------------------------
\* A posting keeps the invariant.
LEMMA PublishKeeps ==
  ASSUME TaskInv, NEW t \in Txn, NEW r \in Route, Publish(t, r)
  PROVE  TaskInv'
<1> DEFINE d == session[t].document
<1>1. /\ TypeOK /\ CurrentTasks /\ TransferOrder /\ Accountable /\ Paired
      /\ OnDocument(t) /\ Complete(t) /\ session[t].op # "cancel" /\ Release(t)
  BY DEF TaskInv, Publish
<1>2. /\ d \in Document /\ docLock[d] = t /\ version[d] \in Nat /\ version[d] < MaxVersion
  <2>1. session[t].op \in DocumentOperation /\ d \in Document /\ ~At(t, "lock")
    BY <1>1, Kinds DEF DocumentSession, Complete, At
  <2>2. docLock[d] = t /\ DocumentEligible(session[t].op, d)
    BY <1>1, <2>1 DEF TaskInv, HoldsDocument
  <2>3. QED
    BY <1>1, <2>1, <2>2 DEF DocumentEligible, TypeOK
<1>3. /\ status' = [status EXCEPT ![d] = "posted"] /\ version' = [version EXCEPT ![d] = @ + 1]
      /\ task' = [w \in Task |-> task'[w]]
  BY DEF Publish
<1>4. \A w \in Task :
         \/ w[1] = d /\ w[2] = version[d] + 1 /\ Born(w, r)
         \/ w[1] = d /\ w[2] = version[d] /\ taskLock[w] = t /\ Ends(w)
         \/ /\ task'[w] = task[w]
            /\ ~(w[1] = d /\ w[2] = version[d] /\ task[w].status \in Active)
            /\ ~(w[1] = d /\ w[2] = version[d] + 1 /\ w[3] \in Sides(r))
  BY PublishRows
<1>5. /\ status'[d] = "posted" /\ version'[d] = version[d] + 1
      /\ \A e \in Document \ {d} : status'[e] = status[e] /\ version'[e] = version[e]
  BY <1>1, <1>2, <1>3 DEF TypeOK
<1> HIDE DEF d
<1>6. TypeOK'
  <2>1. \A w \in Task : task'[w] \in TaskRow \cup {NoTask}
    BY <1>1, <1>4 DEF Born, Ends, Rewritten, TypeOK
  <2>2. version' \in [Document -> 0 .. MaxVersion]
    BY <1>1, <1>2, <1>3, VersionBound DEF TypeOK
  <2>3. QED
    BY <1>1, <1>3, <2>1, <2>2, Ended DEF TypeOK
<1>7. CurrentTasks'
  <2> SUFFICES ASSUME NEW w \in Task, task'[w].status \in Active
               PROVE  status'[w[1]] = "posted" /\ version'[w[1]] = w[2]
    BY DEF CurrentTasks
  <2>1. w[1] \in Document
    BY <1>1, Rows
  <2>2. CASE w[1] = d /\ w[2] = version[d] + 1 /\ Born(w, r)
    BY <1>5, <2>2
  <2>3. CASE Ends(w)
    BY <2>3 DEF Ends, Active
  <2>4. CASE task'[w] = task[w] /\ ~(w[1] = d /\ w[2] = version[d] /\ task[w].status \in Active)
    BY <1>1, <1>5, <2>1, <2>4 DEF CurrentTasks
  <2>5. QED
    BY <1>4, <2>2, <2>3, <2>4
<1>8. Paired'
  <2>1. ASSUME NEW w \in Task, w[2] > version'[w[1]] PROVE task'[w] = NoTask
    <3>1. w[1] \in Document /\ w[2] \in Nat /\ version[w[1]] \in Nat
      BY <1>1, Rows DEF TypeOK, Version
    <3>2. w[2] > version[w[1]] /\ ~(w[1] = d /\ w[2] = version[d] + 1)
      BY <1>5, <2>1, <3>1
    <3>3. ~There(w)
      BY <1>1, <3>2 DEF Paired
    <3>4. QED
      BY <1>4, <3>2, <3>3 DEF Ends, Rewritten, There
  <2>2. ASSUME NEW e \in Document, NEW v \in Version
        PROVE  (task'[<<e, v, "dispatch">>] # NoTask /\ task'[<<e, v, "dispatch">>].transfer)
                 <=> (task'[<<e, v, "receive">>] # NoTask /\ task'[<<e, v, "receive">>].transfer)
    <3> DEFINE s == <<e, v, "dispatch">>
               x == <<e, v, "receive">>
    <3>1. /\ s \in Task /\ s[1] = e /\ s[2] = v /\ s[3] = "dispatch"
          /\ x \in Task /\ x[1] = e /\ x[2] = v /\ x[3] = "receive"
      BY DEF Task
    <3>2. (There(s) /\ task[s].transfer) <=> (There(x) /\ task[x].transfer)
      BY <1>1 DEF Paired
    <3> HIDE DEF s, x
    <3>3. CASE e = d /\ v = version[d] + 1
      <4>1. ~There(s) /\ ~There(x)
        BY <1>1, <1>2, <3>1, <3>3 DEF Paired
      <4>2. /\ s[3] \in Sides(r) => Born(s, r)
            /\ s[3] \notin Sides(r) => task'[s] = task[s]
            /\ x[3] \in Sides(r) => Born(x, r)
            /\ x[3] \notin Sides(r) => task'[x] = task[x]
        BY <1>4, <3>1, <3>3, <4>1 DEF Ends, Rewritten, Born
      <4>3. /\ r.type = "transfer" => "dispatch" \in Sides(r) /\ "receive" \in Sides(r)
        BY DEF Sides
      <4>4. \A y \in Task : Born(y, r) => task'[y] # NoTask /\ (task'[y].transfer <=> r.type = "transfer")
        BY DEF Born, TaskRow, NoTask, Active, Final
      <4>5. QED
        BY <3>1, <4>1, <4>2, <4>3, <4>4 DEF There, s, x
    <3>4. CASE ~(e = d /\ v = version[d] + 1)
      <4>1. \A y \in Task : y[1] = e /\ y[2] = v =>
              \/ task'[y] = task[y]
              \/ There(y) /\ task'[y] \in TaskRow /\ task'[y].transfer = task[y].transfer
        BY <1>4, <3>4 DEF Ends, Rewritten
      <4>2. \A y : y \in TaskRow => y # NoTask
        BY DEF TaskRow, NoTask, Active, Final
      <4>3. QED
        BY <3>1, <3>2, <4>1, <4>2 DEF There, s, x
    <3>5. QED
      BY <3>3, <3>4
  <2>3. QED
    BY <2>1, <2>2 DEF Paired, There<1>9. TransferOrder'
  <2>1. ASSUME NEW w \in Task, NEW z \in Task, NEW x \in Task, z = SendSide(w), x = ReceiveSide(w)
        PROVE  Ordered(task'[z], task'[x])
    <3>1. /\ z[1] = w[1] /\ z[2] = w[2] /\ z[3] = "dispatch" /\ x[1] = w[1] /\ x[2] = w[2] /\ x[3] = "receive"
          /\ w[1] \in Document /\ w[2] \in Version /\ version[w[1]] \in Nat
      BY <1>1, <2>1, Rows DEF SendSide, ReceiveSide, TypeOK
    <3>2. Ordered(task[z], task[x])
      BY <1>1, <2>1, Ordering
    <3>3. CASE Born(x, r)
      <4>1. w[1] = d /\ w[2] = version[d] + 1
        BY <1>4, <3>1, <3>3 DEF Ends, Rewritten, Born, There, TaskRow, NoTask, Active, Final
      <4>2. ~There(z)
        BY <1>1, <1>2, <3>1, <4>1 DEF Paired
      <4>3. r.type = "transfer" => "dispatch" \in Sides(r)
        BY DEF Sides
      <4>4. r.type = "transfer" => Born(z, r)
        BY <1>4, <3>1, <4>1, <4>2, <4>3 DEF Ends, Rewritten
      <4>5. QED
        BY <3>1, <3>3, <4>4 DEF Born, Active, Ordered
    <3>4. CASE Ends(x)
      BY <3>4 DEF Ends, Active, Ordered
    <3>5. CASE /\ task'[x] = task[x] /\ There(x) /\ task[x].transfer
               /\ ~(w[1] = d /\ w[2] = version[d] /\ task[x].status \in Active)
      <4>1. There(z)
        BY <1>1, <2>1, <3>1, <3>5 DEF Paired, There, SendSide, ReceiveSide
      <4>2. CASE task'[z] = task[z]
        BY <3>2, <3>5, <4>2
      <4>3. CASE w[1] = d /\ w[2] = version[d] /\ Ends(z)
        BY <3>2, <3>5, <4>3 DEF There, Ends, Rewritten, Active, Ordered
      <4>4. QED
        BY <1>4, <3>1, <4>1, <4>2, <4>3 DEF Born
    <3>6. CASE task'[x] = task[x] /\ ~(There(x) /\ task[x].transfer)
      BY <3>6 DEF There, Ordered
    <3>7. QED
      BY <1>4, <3>1, <3>3, <3>4, <3>5, <3>6
  <2>2. \A w \in Task : SendSide(w) \in Task /\ ReceiveSide(w) \in Task
    BY <1>1, Rows
  <2>3. \A w \in Task : Ordered(task'[SendSide(w)], task'[ReceiveSide(w)])
    BY <2>1, <2>2
  <2>4. QED
    BY <2>3 DEF TransferOrder, Ordered, SendSide
<1>10. Accountable'
  <2>1. ASSUME NEW w \in Task PROVE Accounts(task'[w])
    <3>1. CASE Born(w, r)
      BY <3>1 DEF Born, Accounts
    <3>2. CASE Ends(w)
      BY <3>2 DEF Ends, Active, Accounts
    <3>3. CASE task'[w] = task[w]
      BY <1>1, <3>3, Accounting
    <3>4. QED
      BY <1>4, <3>1, <3>2, <3>3
  <2>2. QED
    BY <2>1 DEF Accountable, Accounts, MaySee
<1>11. Respects(t)
  <2>1. \A e \in Document : docLock[e] # t => status'[e] = status[e] /\ version'[e] = version[e]
    BY <1>2, <1>5
  <2>2. ASSUME NEW w \in Task
        PROVE  /\ There(w) /\ taskLock[w] # t => task'[w] = task[w]
               /\ ~There(w) /\ docLock[w[1]] # t => task'[w] = task[w]
               /\ There(w) /\ task[w].status \notin Active => task'[w].status \notin Active
               /\ There(w) /\ task[w].status # "blocked" => task'[w].status # "blocked"
    BY <1>2, <1>4 DEF Born, Ends, Rewritten
  <2>3. QED
    BY <1>1, <2>1, <2>2, Ended DEF Respects
<1>12. \A u \in Txn : (HoldsDocument(u) /\ HoldsTask(u) /\ CoversTasks(u) /\ CoversReceive(u))'
  BY <1>1, <1>11, OthersKept, Ended
<1>13. QED
  BY <1>6, <1>7, <1>8, <1>9, <1>10, <1>12 DEF TaskInv
\* Writing rows that are there leaves the sides paired.
LEMMA PairedKept ==
  ASSUME Paired, UNCHANGED version,
         \A w \in Task : /\ There(w)' <=> There(w)
                         /\ There(w) => task'[w].transfer = task[w].transfer
  PROVE  Paired'
<1>1. \A w \in Task : w[2] > version'[w[1]] => ~There(w)'
  BY Zenon DEF Paired
<1>2. ASSUME NEW e \in Document, NEW v \in Version
      PROVE  (There(<<e, v, "dispatch">>)' /\ task'[<<e, v, "dispatch">>].transfer)
               <=> (There(<<e, v, "receive">>)' /\ task'[<<e, v, "receive">>].transfer)
  <2> DEFINE z == <<e, v, "dispatch">>
             x == <<e, v, "receive">>
  <2>1. z \in Task /\ x \in Task
    BY DEF Task
  <2>2. (There(z) /\ task[z].transfer) <=> (There(x) /\ task[x].transfer)
    BY DEF Paired
  <2>3. /\ There(z)' <=> There(z)
        /\ There(x)' <=> There(x)
        /\ There(z) => task'[z].transfer = task[z].transfer
        /\ There(x) => task'[x].transfer = task[x].transfer
    BY <2>1
  <2>4. QED
    BY <2>2, <2>3, Zenon
<1>3. QED
  BY <1>1, <1>2 DEF Paired

\* A cancellation keeps the invariant.
LEMMA WithdrawKeeps ==
  ASSUME TaskInv, NEW t \in Txn, Withdraw(t)
  PROVE  TaskInv'
<1> DEFINE d == session[t].document
<1>1. /\ TypeOK /\ CurrentTasks /\ TransferOrder /\ Accountable /\ Paired
      /\ OnDocument(t) /\ Complete(t) /\ Release(t)
  BY DEF TaskInv, Withdraw
<1>2. d \in Document /\ docLock[d] = t
  <2>1. d \in Document /\ ~At(t, "lock")
    BY <1>1, Kinds DEF DocumentSession, Complete, At
  <2>2. QED
    BY <1>1, <2>1 DEF TaskInv, HoldsDocument
<1>3. /\ status' = [status EXCEPT ![d] = "cancelled"] /\ UNCHANGED version
      /\ task' = [w \in Task |-> task'[w]]
  BY DEF Withdraw
<1>4. \A w \in Task : \/ w[1] = d /\ w[2] = version[d] /\ taskLock[w] = t /\ Ends(w)
                      \/ /\ task'[w] = task[w]
                         /\ ~(w[1] = d /\ w[2] = version[d] /\ task[w].status \in Active)
  BY WithdrawRows
<1>5. \A e \in Document \ {d} : status'[e] = status[e]
  BY <1>1, <1>3 DEF TypeOK
<1> HIDE DEF d
<1>6. TypeOK'
  <2>1. \A w \in Task : task'[w] \in TaskRow \cup {NoTask}
    BY <1>1, <1>4 DEF Ends, Rewritten, TypeOK
  <2>2. QED
    BY <1>1, <1>3, <2>1, Ended DEF TypeOK
<1>7. CurrentTasks'
  <2> SUFFICES ASSUME NEW w \in Task, task'[w].status \in Active
               PROVE  status'[w[1]] = "posted" /\ version'[w[1]] = w[2]
    BY DEF CurrentTasks
  <2>1. task'[w] = task[w] /\ ~(w[1] = d /\ w[2] = version[d] /\ task[w].status \in Active)
    BY <1>4 DEF Ends, Active
  <2>2. QED
    BY <1>1, <1>3, <1>5, <2>1, Rows DEF CurrentTasks
<1>8. Paired'
  <2>1. \A w \in Task : /\ There(w)' <=> There(w)
                        /\ There(w) => task'[w].transfer = task[w].transfer
    <3>1. \A y : y \in TaskRow => y # NoTask
      BY DEF TaskRow, NoTask, Active, Final
    <3>2. QED
      BY <1>4, <3>1 DEF Ends, Rewritten, There
  <2>2. QED
    BY <1>1, <1>3, <2>1, PairedKept
<1>9. TransferOrder'
  <2>1. ASSUME NEW w \in Task, NEW z \in Task, NEW x \in Task, z = SendSide(w), x = ReceiveSide(w)
        PROVE  Ordered(task'[z], task'[x])
    <3>1. z[1] = w[1] /\ z[2] = w[2] /\ x[1] = w[1] /\ x[2] = w[2]
      BY <2>1 DEF SendSide, ReceiveSide
    <3>2. Ordered(task[z], task[x])
      BY <1>1, <2>1, Ordering
    <3>3. CASE Ends(x)
      BY <3>3 DEF Ends, Active, Ordered
    <3>4. CASE task'[x] = task[x] /\ task'[z] = task[z]
      BY <3>2, <3>4
    <3>5. CASE /\ task'[x] = task[x] /\ ~(w[1] = d /\ w[2] = version[d] /\ task[x].status \in Active)
               /\ w[1] = d /\ w[2] = version[d] /\ Ends(z)
      BY <3>2, <3>5 DEF Ends, Rewritten, Active, Ordered
    <3>6. QED
      BY <1>4, <3>1, <3>3, <3>4, <3>5
  <2>2. \A w \in Task : SendSide(w) \in Task /\ ReceiveSide(w) \in Task
    BY <1>1, Rows
  <2>3. \A w \in Task : Ordered(task'[SendSide(w)], task'[ReceiveSide(w)])
    BY <2>1, <2>2
  <2>4. QED
    BY <2>3 DEF TransferOrder, Ordered, SendSide
<1>10. Accountable'
  <2>1. ASSUME NEW w \in Task PROVE Accounts(task'[w])
    <3>1. CASE Ends(w)
      BY <3>1 DEF Ends, Active, Accounts
    <3>2. CASE task'[w] = task[w]
      BY <1>1, <3>2, Accounting
    <3>3. QED
      BY <1>4, <3>1, <3>2
  <2>2. QED
    BY <2>1 DEF Accountable, Accounts, MaySee
<1>11. Respects(t)
  <2>1. \A e \in Document : docLock[e] # t => status'[e] = status[e] /\ version'[e] = version[e]
    BY <1>2, <1>3, <1>5
  <2>2. ASSUME NEW w \in Task
        PROVE  /\ There(w) /\ taskLock[w] # t => task'[w] = task[w]
               /\ ~There(w) /\ docLock[w[1]] # t => task'[w] = task[w]
               /\ There(w) /\ task[w].status \notin Active => task'[w].status \notin Active
               /\ There(w) /\ task[w].status # "blocked" => task'[w].status # "blocked"
    BY <1>4 DEF Ends, Rewritten
  <2>3. QED
    BY <1>1, <2>1, <2>2, Ended DEF Respects
<1>12. \A u \in Txn : (HoldsDocument(u) /\ HoldsTask(u) /\ CoversTasks(u) /\ CoversReceive(u))'
  BY <1>1, <1>11, OthersKept, Ended
<1>13. QED
  BY <1>6, <1>7, <1>8, <1>9, <1>10, <1>12 DEF TaskInv

\* Work on a task keeps the invariant.
LEMMA WorkKeeps ==
  ASSUME TaskInv, NEW t \in Txn, Work(t)
  PROVE  TaskInv'
<1> DEFINE w == session[t].task
           op == session[t].op
<1>1. /\ TypeOK /\ CurrentTasks /\ TransferOrder /\ Accountable /\ Paired /\ Release(t)
      /\ UNCHANGED <<status, version>> /\ task' = [x \in Task |-> task'[x]]
  BY DEF TaskInv, Work
<1>2. /\ w \in Task /\ There(w) /\ taskLock[w] = t /\ Rewritten(w)
      /\ session[t].user \in User /\ TaskEligible(op, session[t].user, w) /\ op \in TaskOperation
      /\ op = "start" => /\ task'[w].status = "in_progress" /\ task'[w].assignee = session[t].user
                         /\ task'[w].lines = task[w].lines
      /\ op = "confirm" => /\ task'[w].status = "completed" /\ task'[w].assignee = task[w].assignee
                           /\ task'[w].lines = "confirmed"
      /\ op = "report" => /\ task'[w].status = "needs_review" /\ task'[w].assignee = task[w].assignee
                         /\ task'[w].lines = "discrepancy"
      /\ op = "return" => /\ task'[w].status = "pending" /\ task'[w].assignee = NoUser
                         /\ task'[w].lines = "pending"
  BY OwnRow
<1>3. op \in {"start", "confirm", "report", "return"}
  BY <1>2 DEF TaskOperation
<1>4. \A x \in Task \ {w} :
         \/ /\ task'[x] = task[x]
            /\ ~(Unblocks(t) /\ x = ReceiveSide(w) /\ task[x].status = "blocked")
         \/ /\ Unblocks(t) /\ x = ReceiveSide(w) /\ taskLock[x] = t
            /\ task[x].status = "blocked" /\ task'[x].status = "in_transit" /\ Rewritten(x)
            /\ task'[x].assignee = task[x].assignee /\ task'[x].lines = task[x].lines
  BY OtherRows
<1>5. Unblocks(t) <=> op = "confirm" /\ w[3] = "dispatch" /\ task[w].transfer
  BY DEF Unblocks
<1> HIDE DEF w, op
<1>6. \A x \in Task : task'[x] = task[x] \/ Rewritten(x)
  BY <1>2, <1>4
<1>7. TypeOK'
  <2>1. \A x \in Task : task'[x] \in TaskRow \cup {NoTask}
    BY <1>1, <1>6 DEF Rewritten, TypeOK
  <2>2. QED
    BY <1>1, <2>1, Ended DEF TypeOK
<1>8. CurrentTasks'
  BY <1>1, <1>6 DEF CurrentTasks, Rewritten
<1>9. Paired'
  <2>1. \A x \in Task : /\ There(x)' <=> There(x)
                        /\ There(x) => task'[x].transfer = task[x].transfer
    <3>1. \A y : y \in TaskRow => y # NoTask
      BY DEF TaskRow, NoTask, Active, Final
    <3>2. QED
      BY <1>6, <3>1 DEF Rewritten, There
  <2>2. QED
    BY <1>1, <2>1, PairedKept
<1>10. TransferOrder'
  <2>1. ASSUME NEW v \in Task, NEW z \in Task, NEW x \in Task, z = SendSide(v), x = ReceiveSide(v)
        PROVE  Ordered(task'[z], task'[x])
    <3>1. z # x /\ z[3] = "dispatch" /\ x[3] = "receive" /\ x = ReceiveSide(z) /\ z = SendSide(x)
      BY <2>1 DEF SendSide, ReceiveSide
    <3>2. Ordered(task[z], task[x])
      BY <1>1, <2>1, Ordering
    <3>3. CASE z = w
      <4>1. x # w
        BY <3>1, <3>3
      <4>2. There(x) /\ task[x].transfer => task[z].transfer
        BY <1>1, <2>1, Rows DEF Paired, SendSide, ReceiveSide, There
      <4>3. CASE op = "confirm" /\ task[z].transfer
        BY <1>2, <1>4, <1>5, <3>1, <3>2, <3>3, <4>1, <4>3 DEF Ordered
      <4>4. CASE op # "confirm"
        <5>1. task'[x] = task[x]
          BY <1>4, <1>5, <4>1, <4>4
        <5>2. task[z].status # "completed"
          BY <1>2, <3>3 DEF Rewritten, Active
        <5>3. task'[z].status \in Active
          BY <1>2, <1>3, <3>3, <4>4 DEF Active
        <5>4. QED
          BY <3>2, <5>1, <5>2, <5>3 DEF Ordered
      <4>5. CASE op = "confirm" /\ ~task[z].transfer
        BY <1>4, <1>5, <3>3, <4>1, <4>2, <4>5 DEF Ordered, There
      <4>6. QED
        BY <4>3, <4>4, <4>5
    <3>4. CASE x = w
      <4>1. task'[z] = task[z]
        BY <1>4, <1>5, <3>1, <3>4
      <4>2. task[x].status \in Active \ {"blocked"}
        BY <1>2, <1>3, <3>4 DEF TaskEligible, Active
      <4>3. task'[x].status \in (Active \cup {"completed"}) \ {"blocked"} /\ task'[x].transfer = task[x].transfer
        BY <1>2, <1>3, <3>4 DEF Active, Rewritten
      <4>4. QED
        BY <1>2, <3>2, <3>4, <4>1, <4>2, <4>3 DEF Ordered, There
    <3>5. CASE z # w /\ x # w
      <4>1. task'[z] = task[z]
        BY <1>4, <3>1, <3>5 DEF ReceiveSide
      <4>2. task'[x] = task[x]
        <5>1. w[3] = "dispatch" /\ x = ReceiveSide(w) => z = w
          BY <1>1, <1>2, <3>1, Rows DEF SendSide, ReceiveSide
        <5>2. QED
          BY <1>4, <1>5, <3>5, <5>1
      <4>3. QED
        BY <3>2, <4>1, <4>2
    <3>6. QED
      BY <3>3, <3>4, <3>5
  <2>2. \A v \in Task : SendSide(v) \in Task /\ ReceiveSide(v) \in Task
    BY <1>1, Rows
  <2>3. \A v \in Task : Ordered(task'[SendSide(v)], task'[ReceiveSide(v)])
    BY <2>1, <2>2
  <2>4. QED
    BY <2>3 DEF TransferOrder, Ordered, SendSide
<1>11. Accountable'
  <2>1. ASSUME NEW x \in Task PROVE Accounts(task'[x])
    <3>1. Accounts(task[x])
      BY <1>1, Accounting
    <3>2. CASE x = w
      <4>1. task'[w].warehouse = task[w].warehouse
        BY <1>2 DEF Rewritten
      <4>2. CASE op = "start"
        <5>1. task[w].status \in {"pending", "in_transit"} /\ MaySee(session[t].user, w)
          BY <1>2, <4>2 DEF TaskEligible
        <5>2. QED
          BY <1>2, <3>1, <3>2, <4>1, <4>2, <5>1, Nobody DEF Accounts, MaySee, Active
      <4>3. CASE op \in {"confirm", "report"}
        <5>1. task[w].status = "in_progress"
          BY <1>2, <4>3 DEF TaskEligible
        <5>2. QED
          BY <1>2, <3>1, <3>2, <4>1, <4>3, <5>1 DEF Accounts, Active
      <4>4. CASE op = "return"
        BY <1>2, <3>2, <4>4 DEF Accounts
      <4>5. QED
        BY <1>3, <4>2, <4>3, <4>4
    <3>3. CASE x # w /\ task'[x] = task[x]
      BY <3>1, <3>3
    <3>4. CASE x # w /\ task'[x] # task[x]
      BY <1>4, <3>1, <3>4 DEF Accounts, Active
    <3>5. QED
      BY <3>2, <3>3, <3>4
  <2>2. QED
    BY <2>1 DEF Accountable, Accounts, MaySee
<1>12. Respects(t)
  <2>1. \A x \in Task :
          /\ There(x) /\ taskLock[x] # t => task'[x] = task[x]
          /\ ~There(x) => task'[x] = task[x]
          /\ task[x].status \notin Active => task'[x] = task[x]
    BY <1>2, <1>4 DEF Rewritten
  <2>2. task'[w].status # "blocked"
    BY <1>2, <1>3
  <2>3. \A x \in Task : task[x].status # "blocked" => task'[x].status # "blocked"
    BY <1>4, <2>2
  <2>4. QED
    BY <1>1, <2>1, <2>3, Ended DEF Respects
<1>13. \A u \in Txn : (HoldsDocument(u) /\ HoldsTask(u) /\ CoversTasks(u) /\ CoversReceive(u))'
  BY <1>1, <1>12, OthersKept, Ended
<1>14. QED
  BY <1>7, <1>8, <1>9, <1>10, <1>11, <1>13 DEF TaskInv-----------------------------------------------------------------------------
LEMMA TaskInit == Init => TaskInv
<1> SUFFICES ASSUME Init PROVE TaskInv
  OBVIOUS
<1>1. TypeOK
  BY VersionBound DEF Init, TypeOK
<1>2. \A w \in Task : ~There(w) /\ task[w].status = "none"
  BY DEF Init, There, NoTask
<1>3. \A w \in Task : SendSide(w) \in Task /\ ReceiveSide(w) \in Task
  BY <1>1, Rows
<1>4. CurrentTasks /\ Accountable
  BY <1>2 DEF CurrentTasks, Accountable, Active
<1>5. TransferOrder
  BY <1>2, <1>3 DEF TransferOrder, There
<1>6. Paired
  <2>1. \A e \in Document, v \in Version : <<e, v, "dispatch">> \in Task /\ <<e, v, "receive">> \in Task
    BY DEF Task
  <2>2. QED
    BY <1>2, <2>1 DEF Paired
<1>7. \A t \in Txn : ~OnDocument(t) /\ ~OnTask(t)
  BY DEF Init, Closed, OnDocument, OnTask, At
<1>8. QED
  BY <1>1, <1>4, <1>5, <1>6, <1>7 DEF TaskInv, HoldsDocument, HoldsTask, CoversTasks, CoversReceive

LEMMA NextKeeps == ASSUME TaskInv, [Next]_vars PROVE TaskInv'
<1>1. CASE UNCHANGED vars
  <2>1. UNCHANGED rows /\ TypeOK'
    BY <1>1 DEF vars, rows, locks, TaskInv, TypeOK
  <2>2. (CurrentTasks /\ TransferOrder /\ Accountable /\ Paired)'
    BY <2>1 DEF TaskInv, rows, CurrentTasks, TransferOrder, Accountable, MaySee, Paired, There
  <2>3. ASSUME NEW t \in Txn PROVE (HoldsDocument(t) /\ HoldsTask(t) /\ CoversTasks(t) /\ CoversReceive(t))'
    <3>1. UNCHANGED status /\ UNCHANGED version /\ UNCHANGED task
          /\ UNCHANGED docLock /\ UNCHANGED taskLock /\ UNCHANGED session
      BY <1>1 DEF vars, rows, locks
    <3>2. HoldsDocument(t) /\ HoldsTask(t) /\ CoversTasks(t) /\ CoversReceive(t)
      BY DEF TaskInv
    <3>3. HoldsDocument(t)'
      BY <3>1, <3>2 DEF HoldsDocument, OnDocument, At, DocumentEligible
    <3>4. HoldsTask(t)'
      BY <3>1, <3>2 DEF HoldsTask, OnTask, At, TaskEligible, MaySee
    <3>5. CoversTasks(t)'
      BY <3>1, <3>2 DEF CoversTasks, OnDocument, At, VersionTasks, Reaches
    <3>6. CoversReceive(t)'
      BY <3>1, <3>2 DEF CoversReceive, OnTask, At, Unblocks, Reaches
    <3>7. QED
      BY <3>3, <3>4, <3>5, <3>6
  <2>4. QED
    BY <2>1, <2>2, <2>3 DEF TaskInv
<1>2. ASSUME NEW t \in Txn, NEW operation \in DocumentOperation, NEW d \in Document,
             RequestDocument(t, operation, d)
      PROVE  TaskInv'
  BY <1>2, RequestDocumentKeeps
<1>3. ASSUME NEW t \in Txn, NEW operation \in TaskOperation, NEW w \in Task, NEW u \in User,
             RequestTask(t, operation, w, u)
      PROVE  TaskInv'
  BY <1>3, RequestTaskKeeps
<1>4. ASSUME NEW t \in Txn, LockDocument(t) \/ LockTask(t) PROVE TaskInv'
  BY <1>4, LockDocumentKeeps, LockTaskKeeps
<1>5. ASSUME NEW t \in Txn, FindTasks(t) \/ LockRow(t) PROVE TaskInv'
  BY <1>5, FindTasksKeeps, LockRowKeeps
<1>6. ASSUME NEW t \in Txn, NEW r \in Route, Publish(t, r) PROVE TaskInv'
  BY <1>6, PublishKeeps
<1>7. ASSUME NEW t \in Txn, Withdraw(t) \/ Work(t) PROVE TaskInv'
  BY <1>7, WithdrawKeeps, WorkKeeps
<1>8. ASSUME NEW t \in Txn, Refuse(t) \/ DeadlockDetected(t) \/ Abandon(t) PROVE TaskInv'
  BY <1>8, EndedKeeps DEF Refuse, DeadlockDetected, Abandon
<1>9. QED
  BY <1>1, <1>2, <1>3, <1>4, <1>5, <1>6, <1>7, <1>8 DEF Next

\* A step leaves a row alone, generates it, or writes one that has not ended.
LEMMA StepRows ==
  ASSUME TaskInv, [Next]_vars, NEW w \in Task
  PROVE  task'[w] = task[w] \/ ~There(w) \/ Rewritten(w)
<1>1. CASE UNCHANGED task
  BY <1>1
<1>2. ASSUME NEW t \in Txn, NEW r \in Route, Publish(t, r)
      PROVE  task'[w] = task[w] \/ ~There(w) \/ Rewritten(w)
  BY <1>2, PublishRows DEF Born, Ends
<1>3. ASSUME NEW t \in Txn, Withdraw(t)
      PROVE  task'[w] = task[w] \/ Rewritten(w)
  BY <1>3, WithdrawRows DEF Ends
<1>4. ASSUME NEW t \in Txn, Work(t)
      PROVE  task'[w] = task[w] \/ Rewritten(w)
  BY <1>4, OwnRow, OtherRows
<1>5. QED
  BY <1>1, <1>2, <1>3, <1>4
     DEF Next, vars, rows, RequestDocument, RequestTask, LockDocument, LockTask, Refuse, FindTasks,
         LockRow, DeadlockDetected, Abandon

LEMMA TasksCorrect == Spec => []TaskInv
BY TaskInit, NextKeeps, PTL DEF Spec

\* TypeOK: documents, tasks, locks and requests stay what the tables and handlers
\* allow; in particular no posting leaves the bound of versions.
THEOREM TaskTypes == Spec => []TypeOK
<1>1. TaskInv => TypeOK
  BY DEF TaskInv
<1>2. QED
  BY <1>1, TasksCorrect, PTL

\* CurrentTasks: what is still to be done belongs to the current version of a posted
\* document, however corrections and workers meet in the rows
\* (create_tasks_for_document, cancel_active_tasks_for_document_version).
THEOREM OnlyCurrentTasks == Spec => []CurrentTasks
<1>1. TaskInv => CurrentTasks
  BY DEF TaskInv
<1>2. QED
  BY <1>1, TasksCorrect, PTL

\* TransferOrder: the receiving side of a transfer is freed by the completion of the
\* sending side, always and only (_activate_transfer_receive).
THEOREM SentBeforeReceived == Spec => []TransferOrder
<1>1. TaskInv => TransferOrder
  BY DEF TaskInv
<1>2. QED
  BY <1>1, TasksCorrect, PTL

\* Accountable: somebody entitled answers for a task in progress or done
\* (start_task, confirm_task, return_task).
THEOREM SomebodyAnswers == Spec => []Accountable
<1>1. TaskInv => Accountable
  BY DEF TaskInv
<1>2. QED
  BY <1>1, TasksCorrect, PTL

\* FinalTasksStay: a task that has ended is never written again, because whoever
\* looks at the status of a row holds it.
THEOREM EndedTasksStay == Spec => FinalTasksStay
<1>1. ASSUME TaskInv, [Next]_vars
      PROVE  \A w \in Task : task[w].status \in Final => task'[w] = task[w]
  <2> SUFFICES ASSUME NEW w \in Task, task[w].status \in Final PROVE task'[w] = task[w]
    OBVIOUS
  <2>1. TypeOK /\ task[w].status \notin Active
    BY <1>1 DEF TaskInv, Final, Active
  <2>2. There(w)
    BY <2>1, Rows DEF Final
  <2>3. QED
    BY <1>1, <2>1, <2>2, StepRows DEF Rewritten
<1>2. QED
  BY <1>1, TasksCorrect, PTL DEF Spec, FinalTasksStay

\* OneWorker: a task that somebody has started changes hands only by being returned.
THEOREM StartedByOne == Spec => OneWorker
<1>1. ASSUME TaskInv, [Next]_vars
      PROVE  \A w \in Task :
               task[w].status \in Active /\ task[w].assignee # NoUser
                 => \/ task'[w].assignee = task[w].assignee
                    \/ task[w].status = "needs_review" /\ task'[w].status = "pending"
  <2> SUFFICES ASSUME NEW w \in Task, task[w].status \in Active, task[w].assignee # NoUser
               PROVE  \/ task'[w].assignee = task[w].assignee
                      \/ task[w].status = "needs_review" /\ task'[w].status = "pending"
    OBVIOUS
  <2>1. There(w)
    BY <1>1, Rows DEF TaskInv, Active
  <2>2. QED
    BY <1>1, <2>1, StepRows DEF Rewritten
<1>2. QED
  BY <1>1, TasksCorrect, PTL DEF Spec, OneWorker
=============================================================================
