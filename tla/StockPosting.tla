----------------------------- MODULE StockPosting -----------------------------
(***************************************************************************)
(* Posting, correcting and cancelling stock documents, as concurrent       *)
(* database transactions (services/documents_service.py).                  *)
(*                                                                         *)
(* A request runs one transaction.  It locks its document row with SELECT  *)
(* ... FOR UPDATE, looks at the status, takes one advisory lock per        *)
(* (product, warehouse) pair in sorted order, reads the balances, works    *)
(* out the movements line by line in memory, and commits the movements,    *)
(* the new balances and the new document state together.  All locks are    *)
(* held to the end of the transaction.  Between any two of those steps     *)
(* other requests run, and a transaction may be lost (Crash).              *)
(*                                                                         *)
(* stock_movements is kept as two things: the sum of all rows of a pair    *)
(* (ledger) and the "apply" rows of a document's current posting version   *)
(* (posting).                                                              *)
(***************************************************************************)
EXTENDS Integers, Sequences, FiniteSets, Functions

CONSTANTS Txn,           \* request handlers, one open transaction each
          NoTxn,         \* nobody: the owner of a free lock
          Document,      \* rows of documents
          NoDocument,    \* the target of an idle handler
          Product,       \* products.id
          Warehouse,     \* warehouses.id
          Payload,       \* headers with lines that users submit
          OpeningStock,  \* balances before the first request
          MaxVersion     \* bound on posting_version

DocumentType == {"incoming", "outgoing", "adjustment", "transfer"}
Operation    == {"post", "repost", "cancel"}
Key          == Product \X Warehouse
Line         == [product : Product, quantity : Nat]
Content      == [type : DocumentType, warehouse : Warehouse,
                 destination : Warehouse, lines : Seq(Line)]
Movement     == [key : Key, delta : Int]

\* The content an idle handler holds.
NoContent == [type |-> "none", lines |-> <<>>]

\* What _validate_document_warehouses and _validate_document_line let pass.  The
\* destination of a document that is not a transfer is never looked at.
ValidContent(c) ==
    /\ c.type = "transfer" => c.destination # c.warehouse
    /\ c.type # "adjustment" => \A i \in DOMAIN c.lines : c.lines[i].quantity > 0

ASSUME LockOwners == NoTxn \notin Txn /\ NoDocument \notin Document
ASSUME Ids == Product \subseteq Nat /\ Warehouse \subseteq Nat
ASSUME PayloadOK == /\ Payload \subseteq Content
                    /\ \A c \in Payload : ValidContent(c)
ASSUME OpeningOK == OpeningStock \in [Key -> Nat]
ASSUME VersionBound == MaxVersion \in Nat
ASSUME Tables == IsFiniteSet(Document)

VARIABLES
    (* committed rows *)
    status,     \* documents.status
    version,    \* documents.posting_version
    content,    \* the header and the lines of a document
    posting,    \* movements of kind "apply" of the current posting version
    balance,    \* stock_balances.quantity
    ledger,     \* sum of stock_movements.quantity_delta by key
    (* locks *)
    rowLock,    \* the transaction that holds a document row FOR UPDATE
    keyLock,    \* the transaction that holds a key's advisory lock
    (* local variables of the handlers *)
    op,         \* the operation being served, "none" when idle
    target,     \* the document it is about
    candidate,  \* the content being applied
    keys,       \* stock_keys
    loaded,     \* keys whose balance has been read
    undo,       \* movements of the old version still to be taken back
    cursor,     \* index of the next line to plan
    quantities, \* the dictionary of quantities the plan works on
    planned,    \* sum of the movements decided so far, by key
    movements   \* the new movements, in the order they are decided

rows   == <<status, version, content, posting, balance, ledger>>
locks  == <<rowLock, keyLock>>
locals == <<op, target, candidate, keys, loaded, undo, cursor, quantities,
            planned, movements>>
vars   == <<rows, locks, locals>>

Zero == [k \in Key |-> 0]

TypeOK ==
    /\ status \in [Document -> {"draft", "posted", "cancelled"}]
    /\ version \in [Document -> Nat]
    /\ content \in [Document -> Content]
    /\ posting \in [Document -> Seq(Movement)]
    /\ balance \in [Key -> Int]
    /\ ledger \in [Key -> Int]
    /\ rowLock \in [Document -> Txn \cup {NoTxn}]
    /\ keyLock \in [Key -> Txn \cup {NoTxn}]
    /\ op \in [Txn -> Operation \cup {"none"}]
    /\ target \in [Txn -> Document \cup {NoDocument}]
    /\ candidate \in [Txn -> Content \cup {NoContent}]
    /\ keys \in [Txn -> SUBSET Key]
    /\ loaded \in [Txn -> SUBSET Key]
    /\ undo \in [Txn -> SUBSET Nat]
    /\ cursor \in [Txn -> Nat \ {0}]
    /\ quantities \in [Txn -> [Key -> Int]]
    /\ planned \in [Txn -> [Key -> Int]]
    /\ movements \in [Txn -> Seq(Movement)]

Init ==
    /\ status = [d \in Document |-> "draft"]
    /\ version = [d \in Document |-> 0]
    /\ content \in [Document -> Payload]
    /\ posting = [d \in Document |-> <<>>]
    /\ balance = OpeningStock
    /\ ledger = OpeningStock
    /\ rowLock = [d \in Document |-> NoTxn]
    /\ keyLock = [k \in Key |-> NoTxn]
    /\ op = [t \in Txn |-> "none"]
    /\ target = [t \in Txn |-> NoDocument]
    /\ candidate = [t \in Txn |-> NoContent]
    /\ keys = [t \in Txn |-> {}]
    /\ loaded = [t \in Txn |-> {}]
    /\ undo = [t \in Txn |-> {}]
    /\ cursor = [t \in Txn |-> 1]
    /\ quantities = [t \in Txn |-> Zero]
    /\ planned = [t \in Txn |-> Zero]
    /\ movements = [t \in Txn |-> <<>>]
-----------------------------------------------------------------------------
(* Helpers *)

Idle(t) == op[t] = "none"

\* The transaction has its document row and may touch stock.
Holding(t) == ~Idle(t) /\ rowLock[target[t]] = t

\* _document_stock_keys: what the lines of a content touch.
StockKeys(c) ==
    {<<c.lines[i].product, c.warehouse>> : i \in DOMAIN c.lines}
      \cup (IF c.type = "transfer"
            THEN {<<c.lines[i].product, c.destination>> : i \in DOMAIN c.lines}
            ELSE {})

MovementKeys(ms) == {ms[i].key : i \in DOMAIN ms}

\* The order of Python tuples of integers.
Before(a, b) == a[1] < b[1] \/ (a[1] = b[1] /\ a[2] < b[2])
\* Mutant of First: locks taken in whatever order the set is iterated.
FirstUnsorted(k, S) == k \in S
First(k, S) == k \in S /\ \A other \in S : k = other \/ Before(k, other)

\* Mutant of Unlocked: no advisory lock is ever taken.
UnlockedNever(t) == {}

\* The keys of the transaction that it has not locked yet.
Unlocked(t) == {k \in keys[t] : keyLock[k] # t}

\* Mutant of Eligible: a cancelled document may be cancelled again.
EligibleTwice(operation, d) ==
    CASE operation = "post"   -> status[d] = "draft" /\ content[d].lines # <<>>
      [] operation = "repost" -> status[d] = "posted" /\ posting[d] # <<>>
      [] operation = "cancel" -> status[d] # "draft" /\ posting[d] # <<>>

\* The status guard at the head of each operation.
Eligible(operation, d) ==
    CASE operation = "post"   -> status[d] = "draft" /\ content[d].lines # <<>>
      [] operation = "repost" -> status[d] = "posted" /\ posting[d] # <<>>
      [] operation = "cancel" -> status[d] = "posted" /\ posting[d] # <<>>

\* Bound of the model: no document goes past MaxVersion posting versions.
WithinBound(operation, d) == operation = "cancel" \/ version[d] < MaxVersion

WithoutLines(c) == [type |-> c.type, warehouse |-> c.warehouse,
                    destination |-> c.destination, lines |-> <<>>]

\* What the operation puts in place of the document's present movements.
Candidates(operation, d) ==
    CASE operation = "post"   -> {content[d]}
      [] operation = "repost" -> {c \in Payload : c.lines # <<>>}
      [] operation = "cancel" -> {WithoutLines(content[d])}

\* COMMIT and ROLLBACK both drop every lock and the session with its variables.
Release(t) ==
    /\ rowLock' = [d \in Document |-> IF rowLock[d] = t THEN NoTxn ELSE rowLock[d]]
    /\ keyLock' = [k \in Key |-> IF keyLock[k] = t THEN NoTxn ELSE keyLock[k]]
    /\ op' = [op EXCEPT ![t] = "none"]
    /\ target' = [target EXCEPT ![t] = NoDocument]
    /\ candidate' = [candidate EXCEPT ![t] = NoContent]
    /\ keys' = [keys EXCEPT ![t] = {}]
    /\ loaded' = [loaded EXCEPT ![t] = {}]
    /\ undo' = [undo EXCEPT ![t] = {}]
    /\ cursor' = [cursor EXCEPT ![t] = 1]
    /\ quantities' = [quantities EXCEPT ![t] = Zero]
    /\ planned' = [planned EXCEPT ![t] = Zero]
    /\ movements' = [movements EXCEPT ![t] = <<>>]

\* Adds a change of stock to the handler's working quantities.
Work(t, change) ==
    /\ quantities' = [quantities EXCEPT ![t] = [k \in Key |-> @[k] + change[k]]]
    /\ planned' = [planned EXCEPT ![t] = [k \in Key |-> @[k] + change[k]]]
-----------------------------------------------------------------------------
(* The transactions, statement by statement *)

\* A request arrives and waits for its document row.
Request(t, operation, d) ==
    /\ Idle(t)
    /\ op' = [op EXCEPT ![t] = operation]
    /\ target' = [target EXCEPT ![t] = d]
    /\ UNCHANGED <<rows, locks, candidate, keys, loaded, undo, cursor,
                   quantities, planned, movements>>

\* _load_document(for_update=True) returns, the status admits the operation,
\* and the keys to lock are known.
LockDocument(t) ==
    LET d == target[t] IN
    /\ ~Idle(t)
    /\ rowLock[d] = NoTxn
    /\ Eligible(op[t], d)
    /\ WithinBound(op[t], d)
    /\ rowLock' = [rowLock EXCEPT ![d] = t]
    /\ \E c \in Candidates(op[t], d) :
         /\ candidate' = [candidate EXCEPT ![t] = c]
         /\ keys' = [keys EXCEPT ![t] =
                       StockKeys(c) \cup IF op[t] = "post" THEN {}
                                         ELSE MovementKeys(posting[d])]
    /\ undo' = [undo EXCEPT ![t] = IF op[t] = "post" THEN {} ELSE DOMAIN posting[d]]
    /\ UNCHANGED <<rows, keyLock, op, target, loaded, cursor, quantities,
                   planned, movements>>

\* The row is locked and the status does not admit the operation: 409.
Refuse(t) ==
    /\ ~Idle(t)
    /\ rowLock[target[t]] = NoTxn
    /\ ~Eligible(op[t], target[t]) \/ ~WithinBound(op[t], target[t])
    /\ Release(t)
    /\ UNCHANGED rows

\* One round of the loop of _lock_stock_keys.
LockStockKey(t) ==
    /\ Holding(t)
    /\ \E k \in Unlocked(t) :
         /\ First(k, Unlocked(t))
         /\ keyLock[k] = NoTxn
         /\ keyLock' = [keyLock EXCEPT ![k] = t]
    /\ UNCHANGED <<rows, rowLock, locals>>

\* Mutant of LoadBalance: balances are read before the locks are held.
LoadBalanceEarly(t) ==
    /\ Holding(t)
    /\ \E k \in keys[t] \ loaded[t] :
         /\ loaded' = [loaded EXCEPT ![t] = @ \cup {k}]
         /\ quantities' = [quantities EXCEPT ![t][k] = balance[k]]
    /\ UNCHANGED <<rows, locks, op, target, candidate, keys, undo, cursor,
                   planned, movements>>

\* One round of the loop of _load_balance_quantities.
LoadBalance(t) ==
    /\ Holding(t)
    /\ Unlocked(t) = {}
    /\ \E k \in keys[t] \ loaded[t] :
         /\ First(k, keys[t] \ loaded[t])
         /\ loaded' = [loaded EXCEPT ![t] = @ \cup {k}]
         /\ quantities' = [quantities EXCEPT ![t][k] = balance[k]]
    /\ UNCHANGED <<rows, locks, op, target, candidate, keys, undo, cursor,
                   planned, movements>>

Ready(t) == Holding(t) /\ Unlocked(t) = {} /\ loaded[t] = keys[t]

\* The change that takes one movement back.
Reversal(m) == [k \in Key |-> IF k = m.key THEN - m.delta ELSE 0]

\* Mutant of MayUndo: cancelling never looks at the quantity it arrives at.
MayUndoAlways(t, m) == TRUE

\* Cancelling refuses a reversal that would leave the running quantity negative;
\* correcting looks at the outcome only.
MayUndo(t, m) == op[t] = "cancel" => quantities[t][m.key] - m.delta >= 0

\* Takes back one movement of the old posting version, in the order the
\* database returns them, which the query leaves open.
UndoMovement(t) ==
    /\ Ready(t)
    /\ \E i \in undo[t] :
         LET m == posting[target[t]][i] IN
         /\ MayUndo(t, m)
         /\ undo' = [undo EXCEPT ![t] = @ \ {i}]
         /\ Work(t, Reversal(m))
    /\ UNCHANGED <<rows, locks, op, target, candidate, keys, loaded, cursor,
                   movements>>

CurrentLine(t) == candidate[t].lines[cursor[t]]
Source(t)      == <<CurrentLine(t).product, candidate[t].warehouse>>
Destination(t) == <<CurrentLine(t).product, candidate[t].destination>>

Planning(t) == Ready(t) /\ undo[t] = {} /\ cursor[t] <= Len(candidate[t].lines)

\* "Not enough stock": outgoing and transfer lines need what they take.
Covered(t) ==
    candidate[t].type \in {"outgoing", "transfer"}
      => quantities[t][Source(t)] >= CurrentLine(t).quantity

\* The delta of a line at its source warehouse; an adjustment names the
\* quantity to arrive at.
SourceDelta(t) ==
    LET q == CurrentLine(t).quantity IN
    CASE candidate[t].type = "incoming"   -> q
      [] candidate[t].type = "outgoing"   -> - q
      [] candidate[t].type = "transfer"   -> - q
      [] candidate[t].type = "adjustment" -> q - quantities[t][Source(t)]

\* The change one line makes.
LineChange(t) ==
    [k \in Key |-> IF k = Source(t) THEN SourceDelta(t)
                   ELSE IF candidate[t].type = "transfer" /\ k = Destination(t)
                   THEN CurrentLine(t).quantity ELSE 0]

LineMovements(t) ==
    <<[key |-> Source(t), delta |-> SourceDelta(t)]>>
      \o IF candidate[t].type = "transfer"
         THEN <<[key |-> Destination(t), delta |-> CurrentLine(t).quantity]>>
         ELSE <<>>

\* One round of the loop of _plan_document_movements.
PlanLine(t) ==
    /\ Planning(t)
    /\ Covered(t)
    /\ Work(t, LineChange(t))
    /\ movements' = [movements EXCEPT ![t] = @ \o LineMovements(t)]
    /\ cursor' = [cursor EXCEPT ![t] = @ + 1]
    /\ UNCHANGED <<rows, locks, op, target, candidate, keys, loaded, undo>>

Planned(t) == Ready(t) /\ undo[t] = {} /\ cursor[t] > Len(candidate[t].lines)

\* Mutant of Affordable: corrections, too, do without the last check.
AffordableAlways(t) == TRUE

\* "Stock operation would make stock negative": the last check of the plan, which
\* cancelling does without.
Affordable(t) == op[t] = "cancel" \/ \A k \in keys[t] : quantities[t][k] >= 0

\* Mutant of NewBalance: the balances of other keys are thrown away.
NewBalanceOnlyLoaded(t) == [k \in keys[t] |-> quantities[t][k]]

\* The balances a commit leaves: the planned quantity of every loaded key.
NewBalance(t) == [k \in Key |-> IF k \in keys[t] THEN quantities[t][k] ELSE balance[k]]

\* The writes of the operation and its COMMIT.
Commit(t) ==
    LET d == target[t] IN
    /\ Planned(t)
    /\ Affordable(t)
    /\ balance' = NewBalance(t)
    /\ ledger' = [k \in Key |-> ledger[k] + planned[t][k]]
    /\ IF op[t] = "cancel"
       THEN /\ status' = [status EXCEPT ![d] = "cancelled"]
            /\ UNCHANGED <<version, content, posting>>
       ELSE /\ status' = [status EXCEPT ![d] = "posted"]
            /\ version' = [version EXCEPT ![d] = @ + 1]
            /\ content' = [content EXCEPT ![d] = candidate[t]]
            /\ posting' = [posting EXCEPT ![d] = movements[t]]
    /\ Release(t)

\* DocumentRulesError: nothing of the transaction stays.
Fail(t) ==
    /\ \/ Ready(t) /\ \E i \in undo[t] : ~MayUndo(t, posting[target[t]][i])
       \/ Planning(t) /\ ~Covered(t)
       \/ Planned(t) /\ ~Affordable(t)
    /\ Release(t)
    /\ UNCHANGED rows

\* The worker or its connection dies, or COMMIT fails: PostgreSQL rolls back.
Crash(t) ==
    /\ Holding(t)
    /\ Release(t)
    /\ UNCHANGED rows

Next ==
    \E t \in Txn : \/ \E operation \in Operation, d \in Document : Request(t, operation, d)
                   \/ LockDocument(t)
                   \/ Refuse(t)
                   \/ LockStockKey(t)
                   \/ LoadBalance(t)
                   \/ UndoMovement(t)
                   \/ PlanLine(t)
                   \/ Commit(t)
                   \/ Fail(t)
                   \/ Crash(t)

Spec == Init /\ [][Next]_vars

\* PostgreSQL grants a lock to the waiters in the order they came, so a request
\* that waits again and again for a lock gets it in the end; a worker that can run
\* goes on.  Nothing makes requests come, and nothing makes workers crash.
Fairness ==
    \A t \in Txn :
        /\ SF_vars(LockDocument(t) \/ Refuse(t))
        /\ SF_vars(LockStockKey(t))
        /\ WF_vars(LoadBalance(t) \/ UndoMovement(t) \/ PlanLine(t) \/ Commit(t) \/ Fail(t))

FairSpec == Spec /\ Fairness
-----------------------------------------------------------------------------
(* Correctness *)

\* The aggregate in stock_balances is the sum of the movement log, whatever the
\* transactions that wrote both were interleaved with: no posting loses the
\* update of another.
Conservation == balance = ledger

\* No posting, correction or cancellation commits a negative balance, although
\* cancelling only checks quantities it has worked out in memory.
NonNegative == \A k \in Key : balance[k] >= 0

\* What a transaction has read still holds when it uses it: until it ends, the
\* committed balance of a loaded key is the working quantity less the planned
\* change, and two transactions never have the same key loaded.
ReadsCurrent ==
    \A t \in Txn : \A k \in loaded[t] :
        /\ quantities[t][k] = balance[k] + planned[t][k]
        /\ \A other \in Txn \ {t} : k \notin loaded[other]

\* The quantity a list of movements, or the part S of it, adds to a key.
Effect(ms, k) == [i \in DOMAIN ms |-> IF ms[i].key = k THEN ms[i].delta ELSE 0]
NetOver(ms, k, S) == SumFunctionOnSet(Effect(ms, k), S)
Net(ms, k) == NetOver(ms, k, DOMAIN ms)

\* Stock is the opening stock plus the current version of every posted document:
\* older versions and cancelled documents have been taken back exactly once.
StockExplained ==
    \A k \in Key :
        balance[k] = OpeningStock[k]
            + SumFunctionOnSet([d \in Document |-> Net(posting[d], k)],
                               {d \in Document : status[d] = "posted"})

\* Every request is answered: locks are taken in one order, so requests that wait
\* for each other's stock never wait for ever.
RequestsEnd == \A t \in Txn : ~Idle(t) ~> Idle(t)

\* Cancelling says "Cancellation would make stock negative" only of a document
\* whose reversal as a whole takes more than there is.
CancelRefusedOnlyWhenShort ==
    [][\A t \in Txn :
         Fail(t) /\ op[t] = "cancel"
           => \E k \in Key : balance[k] < Net(posting[target[t]], k)]_vars

\* The interleaved transactions are the indivisible steps of StockLedger.
Ledger == INSTANCE StockLedger
ImplementsLedger == Ledger!Spec
=============================================================================
