-------------------------- MODULE StockPostingProofs --------------------------
(***************************************************************************)
(* Theorems about StockPosting for every set of handlers, documents,       *)
(* products and warehouses and every payload: types, conservation of       *)
(* stock, isolation of what a transaction has read, non-negative balances, *)
(* that the interleaved transactions implement StockLedger, and that the   *)
(* balances are what the posted documents account for.                     *)
(***************************************************************************)
EXTENDS StockPosting, SumLemmas, SequenceTheorems, TLAPS

\* A line's change and the undoing of a movement are functions to integers.
LEMMA ChangeType ==
    ASSUME TypeOK, NEW t \in Txn, candidate[t] \in Content,
           cursor[t] \in DOMAIN candidate[t].lines
    PROVE  /\ LineChange(t) \in [Key -> Int]
           /\ LineMovements(t) \in Seq(Movement)
           /\ Source(t) \in StockKeys(candidate[t])
           /\ candidate[t].type = "transfer" => Destination(t) \in StockKeys(candidate[t])
<1>1. /\ CurrentLine(t) \in Line
      /\ candidate[t].warehouse \in Warehouse
      /\ candidate[t].destination \in Warehouse
      /\ candidate[t].type \in DocumentType
  BY DEF CurrentLine, Content
<1>2. Source(t) \in Key /\ Destination(t) \in Key
  BY <1>1 DEF Source, Destination, Key, Line
<1>3. CurrentLine(t).quantity \in Nat
  BY <1>1 DEF Line
<1>4. quantities[t][Source(t)] \in Int
  BY <1>2 DEF TypeOK
<1>5. SourceDelta(t) \in Int
  BY <1>1, <1>3, <1>4 DEF SourceDelta, DocumentType
<1>6. LineChange(t) \in [Key -> Int]
  BY <1>3, <1>5 DEF LineChange
<1>7. LineMovements(t) \in Seq(Movement)
  <2>1. [key |-> Source(t), delta |-> SourceDelta(t)] \in Movement
    BY <1>2, <1>5 DEF Movement
  <2>2. [key |-> Destination(t), delta |-> CurrentLine(t).quantity] \in Movement
    BY <1>2, <1>3 DEF Movement
  <2>3. QED
    BY <2>1, <2>2 DEF LineMovements
<1>8. Source(t) \in StockKeys(candidate[t])
  BY DEF StockKeys, Source, CurrentLine
<1>9. candidate[t].type = "transfer" => Destination(t) \in StockKeys(candidate[t])
  BY DEF StockKeys, Destination, CurrentLine
<1>10. QED
  BY <1>6, <1>7, <1>8, <1>9

LEMMA ReversalType ==
    ASSUME NEW m \in Movement
    PROVE  Reversal(m) \in [Key -> Int]
BY DEF Reversal, Movement

LEMMA ZeroType == Zero \in [Key -> Int]
BY DEF Zero

\* StockKeys and MovementKeys give sets of keys.
LEMMA KeysType ==
    ASSUME NEW c \in Content, NEW ms \in Seq(Movement)
    PROVE  StockKeys(c) \subseteq Key /\ MovementKeys(ms) \subseteq Key
<1>1. \A i \in DOMAIN c.lines : c.lines[i] \in Line
  BY DEF Content
<1>2. c.warehouse \in Warehouse /\ c.destination \in Warehouse
  BY DEF Content
<1>3. StockKeys(c) \subseteq Key
  BY <1>1, <1>2 DEF StockKeys, Line, Key
<1>4. MovementKeys(ms) \subseteq Key
  <2>1. \A i \in DOMAIN ms : ms[i] \in Movement
    OBVIOUS
  <2>2. QED
    BY <2>1 DEF MovementKeys, Movement
<1>5. QED
  BY <1>3, <1>4

\* What a handler may put in place of a posting is a content.
LEMMA CandidatesType ==
    ASSUME TypeOK, NEW operation \in Operation, NEW d \in Document
    PROVE  Candidates(operation, d) \subseteq Content
<1>1. content[d] \in Content
  BY DEF TypeOK
<1>2. WithoutLines(content[d]) \in Content
  BY <1>1 DEF Content, WithoutLines
<1>3. Payload \subseteq Content
  BY PayloadOK
<1>4. QED
  BY <1>1, <1>2, <1>3 DEF Candidates, Operation

\* COMMIT and ROLLBACK leave locks and local variables well typed.
LEMMA ReleaseType ==
    ASSUME TypeOK, NEW t \in Txn, Release(t)
    PROVE  /\ rowLock' \in [Document -> Txn \cup {NoTxn}]
           /\ keyLock' \in [Key -> Txn \cup {NoTxn}]
           /\ op' \in [Txn -> Operation \cup {"none"}]
           /\ target' \in [Txn -> Document \cup {NoDocument}]
           /\ candidate' \in [Txn -> Content \cup {NoContent}]
           /\ keys' \in [Txn -> SUBSET Key]
           /\ loaded' \in [Txn -> SUBSET Key]
           /\ undo' \in [Txn -> SUBSET Nat]
           /\ cursor' \in [Txn -> Nat \ {0}]
           /\ quantities' \in [Txn -> [Key -> Int]]
           /\ planned' \in [Txn -> [Key -> Int]]
           /\ movements' \in [Txn -> Seq(Movement)]
BY ZeroType DEF Release, TypeOK
-----------------------------------------------------------------------------
(* Types *)

LEMMA TypeRequest ==
    ASSUME TypeOK, NEW t \in Txn, NEW operation \in Operation, NEW d \in Document,
           Request(t, operation, d)
    PROVE  TypeOK'
BY DEF TypeOK, Request, rows, locks

LEMMA TypeLockDocument ==
    ASSUME TypeOK, NEW t \in Txn, LockDocument(t), target[t] \in Document
    PROVE  TypeOK'
<1> DEFINE d == target[t]
<1>1. op[t] \in Operation
  BY DEF LockDocument, Idle, TypeOK
<1>2. PICK c \in Candidates(op[t], d) :
         /\ candidate' = [candidate EXCEPT ![t] = c]
         /\ keys' = [keys EXCEPT ![t] =
                       StockKeys(c) \cup IF op[t] = "post" THEN {}
                                         ELSE MovementKeys(posting[d])]
  BY DEF LockDocument
<1>3. c \in Content
  BY <1>1, CandidatesType
<1>4. posting[d] \in Seq(Movement)
  BY DEF TypeOK
<1>5. candidate' \in [Txn -> Content \cup {NoContent}]
  BY <1>2, <1>3 DEF TypeOK
<1>6. keys' \in [Txn -> SUBSET Key]
  BY <1>2, <1>3, <1>4, KeysType DEF TypeOK
<1>7. undo' \in [Txn -> SUBSET Nat]
  BY <1>4 DEF LockDocument, TypeOK
<1>8. rowLock' \in [Document -> Txn \cup {NoTxn}]
  BY DEF LockDocument, TypeOK
<1>9. QED
  BY <1>5, <1>6, <1>7, <1>8 DEF LockDocument, TypeOK, rows

LEMMA TypeLockStockKey ==
    ASSUME TypeOK, NEW t \in Txn, LockStockKey(t)
    PROVE  TypeOK'
BY DEF TypeOK, LockStockKey, rows, locals

LEMMA TypeLoadBalance ==
    ASSUME TypeOK, NEW t \in Txn, LoadBalance(t)
    PROVE  TypeOK'
<1>1. PICK k \in keys[t] \ loaded[t] :
         /\ loaded' = [loaded EXCEPT ![t] = @ \cup {k}]
         /\ quantities' = [quantities EXCEPT ![t][k] = balance[k]]
  BY DEF LoadBalance
<1>2. k \in Key /\ balance[k] \in Int
  BY DEF TypeOK
<1>3. loaded' \in [Txn -> SUBSET Key]
  BY <1>1, <1>2 DEF TypeOK
<1>4. quantities' \in [Txn -> [Key -> Int]]
  BY <1>1, <1>2 DEF TypeOK
<1>5. QED
  BY <1>3, <1>4 DEF TypeOK, LoadBalance, rows, locks

\* Working a change of stock into the handler's quantities keeps their types.
LEMMA WorkType ==
    ASSUME TypeOK, NEW t \in Txn, NEW change \in [Key -> Int], Work(t, change)
    PROVE  /\ quantities' \in [Txn -> [Key -> Int]]
           /\ planned' \in [Txn -> [Key -> Int]]
           /\ \A k \in Key : /\ quantities'[t][k] = quantities[t][k] + change[k]
                             /\ planned'[t][k] = planned[t][k] + change[k]
           /\ \A u \in Txn \ {t} : /\ quantities'[u] = quantities[u]
                                   /\ planned'[u] = planned[u]
<1>1. [k \in Key |-> quantities[t][k] + change[k]] \in [Key -> Int]
  BY DEF TypeOK
<1>2. [k \in Key |-> planned[t][k] + change[k]] \in [Key -> Int]
  BY DEF TypeOK
<1>3. quantities' \in [Txn -> [Key -> Int]] /\ planned' \in [Txn -> [Key -> Int]]
  BY <1>1, <1>2 DEF TypeOK, Work
<1>4. \A k \in Key : /\ quantities'[t][k] = quantities[t][k] + change[k]
                     /\ planned'[t][k] = planned[t][k] + change[k]
  BY DEF TypeOK, Work
<1>5. \A u \in Txn \ {t} : /\ quantities'[u] = quantities[u]
                           /\ planned'[u] = planned[u]
  BY DEF TypeOK, Work
<1>6. QED
  BY <1>3, <1>4, <1>5

LEMMA TypeUndoMovement ==
    ASSUME TypeOK, NEW t \in Txn, UndoMovement(t), target[t] \in Document,
           undo[t] \subseteq DOMAIN posting[target[t]]
    PROVE  TypeOK'
<1>1. PICK i \in undo[t] :
         /\ undo' = [undo EXCEPT ![t] = @ \ {i}]
         /\ Work(t, Reversal(posting[target[t]][i]))
  BY DEF UndoMovement
<1>2. posting[target[t]][i] \in Movement
  BY <1>1 DEF TypeOK
<1>3. undo' \in [Txn -> SUBSET Nat]
  BY <1>1 DEF TypeOK
<1>4. quantities' \in [Txn -> [Key -> Int]] /\ planned' \in [Txn -> [Key -> Int]]
  BY <1>1, <1>2, ReversalType, WorkType
<1>5. QED
  BY <1>3, <1>4 DEF TypeOK, UndoMovement, rows, locks

LEMMA TypePlanLine ==
    ASSUME TypeOK, NEW t \in Txn, PlanLine(t), candidate[t] \in Content,
           cursor[t] \in DOMAIN candidate[t].lines
    PROVE  TypeOK'
<1>1. LineChange(t) \in [Key -> Int] /\ LineMovements(t) \in Seq(Movement)
  BY ChangeType
<1>2. quantities' \in [Txn -> [Key -> Int]] /\ planned' \in [Txn -> [Key -> Int]]
  BY <1>1, WorkType DEF PlanLine
<1>3. movements' \in [Txn -> Seq(Movement)]
  BY <1>1 DEF PlanLine, TypeOK
<1>4. cursor' \in [Txn -> Nat \ {0}]
  BY DEF PlanLine, TypeOK
<1>5. QED
  BY <1>2, <1>3, <1>4 DEF TypeOK, PlanLine, rows, locks

LEMMA TypeCommit ==
    ASSUME TypeOK, NEW t \in Txn, Commit(t), target[t] \in Document,
           candidate[t] \in Content
    PROVE  TypeOK'
<1>1. balance' \in [Key -> Int] /\ ledger' \in [Key -> Int]
  BY DEF Commit, NewBalance, TypeOK
<1>2. /\ status' \in [Document -> {"draft", "posted", "cancelled"}]
      /\ version' \in [Document -> Nat]
      /\ content' \in [Document -> Content]
      /\ posting' \in [Document -> Seq(Movement)]
  <2>1. CASE op[t] = "cancel"
    BY <2>1 DEF Commit, TypeOK
  <2>2. CASE op[t] # "cancel"
    <3>1. /\ status' = [status EXCEPT ![target[t]] = "posted"]
          /\ version' = [version EXCEPT ![target[t]] = @ + 1]
          /\ content' = [content EXCEPT ![target[t]] = candidate[t]]
          /\ posting' = [posting EXCEPT ![target[t]] = movements[t]]
      BY <2>2 DEF Commit
    <3>2. movements[t] \in Seq(Movement)
      BY DEF TypeOK
    <3>3. posting' \in [Document -> Seq(Movement)]
      BY <3>1, <3>2 DEF TypeOK
    <3>4. content' \in [Document -> Content]
      BY <3>1 DEF TypeOK
    <3>5. QED
      BY <3>1, <3>3, <3>4 DEF TypeOK
  <2>3. QED
    BY <2>1, <2>2
<1>3. QED
  BY <1>1, <1>2, ReleaseType DEF TypeOK, Commit

LEMMA TypeRollback ==
    ASSUME TypeOK, NEW t \in Txn, Release(t), UNCHANGED rows
    PROVE  TypeOK'
BY ReleaseType DEF TypeOK, rows
-----------------------------------------------------------------------------
(* The inductive invariant *)

\* A row lock belongs to a handler that works on that row.
RowsOwned ==
    \A d \in Document : rowLock[d] # NoTxn
        => /\ ~Idle(rowLock[d])
           /\ target[rowLock[d]] = d

TargetsKnown == \A t \in Txn : ~Idle(t) => target[t] \in Document

\* A handler without its row has read nothing.
NothingReadBefore == \A t \in Txn : ~Holding(t) => loaded[t] = {} /\ undo[t] = {}

\* A handler with its row works on a content whose keys it is to lock, takes back
\* movements of the posting in force, and still sees the status it checked.
JobsCovered ==
    \A t \in Txn : Holding(t) =>
        /\ candidate[t] \in Content
        /\ StockKeys(candidate[t]) \subseteq keys[t]
        /\ undo[t] \subseteq DOMAIN posting[target[t]]
        /\ \A i \in undo[t] : posting[target[t]][i].key \in keys[t]
        /\ op[t] = "cancel" => candidate[t].lines = <<>>
        /\ status[target[t]] = IF op[t] = "post" THEN "draft" ELSE "posted"

\* Balances are read under the lock of their key.
LoadedLocked ==
    \A t \in Txn : /\ loaded[t] \subseteq keys[t]
                   /\ \A k \in loaded[t] : keyLock[k] = t

\* The working quantity of a loaded key is its committed balance and the plan.
WorkCurrent ==
    \A t \in Txn : \A k \in loaded[t] : quantities[t][k] = balance[k] + planned[t][k]

\* Nothing is planned for a key that has not been read.
PlanLoaded == \A t \in Txn : \A k \in Key \ loaded[t] : planned[t][k] = 0

\* A cancellation never works with a negative quantity.
CancelCovered ==
    \A t \in Txn : Holding(t) /\ op[t] = "cancel"
        => \A k \in loaded[t] : quantities[t][k] >= 0

Inv == /\ TypeOK /\ RowsOwned /\ TargetsKnown /\ NothingReadBefore /\ JobsCovered
       /\ LoadedLocked /\ WorkCurrent /\ PlanLoaded /\ CancelCovered
       /\ Conservation /\ NonNegative
-----------------------------------------------------------------------------
(* Every step keeps the invariant *)

LEMMA InvInit == Init => Inv
<1> SUFFICES ASSUME Init PROVE Inv
  OBVIOUS
<1> USE DEF Init
<1>1. TypeOK
  BY ZeroType, OpeningOK, PayloadOK DEF TypeOK
<1>2. RowsOwned /\ TargetsKnown /\ NothingReadBefore
  BY DEF RowsOwned, TargetsKnown, NothingReadBefore, Idle
<1>3. JobsCovered /\ CancelCovered
  BY DEF JobsCovered, CancelCovered, Holding, Idle
<1>4. LoadedLocked /\ WorkCurrent
  BY DEF LoadedLocked, WorkCurrent
<1>5. PlanLoaded
  BY DEF PlanLoaded, Zero
<1>6. Conservation /\ NonNegative
  BY OpeningOK DEF Conservation, NonNegative
<1>7. QED
  BY <1>1, <1>2, <1>3, <1>4, <1>5, <1>6 DEF Inv

LEMMA InvRequest ==
    ASSUME Inv, NEW t \in Txn, NEW operation \in Operation, NEW d \in Document,
           Request(t, operation, d)
    PROVE  Inv'
<1>1. TypeOK'
  BY TypeRequest DEF Inv
<1>2. /\ UNCHANGED <<rows, locks, candidate, keys, loaded, undo, cursor,
                     quantities, planned, movements>>
      /\ Idle(t)
      /\ op' = [op EXCEPT ![t] = operation]
      /\ target' = [target EXCEPT ![t] = d]
  BY DEF Request
<1>3. \A e \in Document : rowLock[e] # t
  BY <1>2, LockOwners DEF Inv, RowsOwned
<1>4. ~Holding(t) /\ ~Holding(t)'
  BY <1>2, <1>3 DEF Holding, locks, Inv, TypeOK
<1>5. \A u \in Txn \ {t} : op'[u] = op[u] /\ target'[u] = target[u]
  BY <1>2 DEF Inv, TypeOK
<1>6. \A u \in Txn : Holding(u)' <=> Holding(u)
  BY <1>2, <1>4, <1>5 DEF Holding, Idle, locks
<1>7. RowsOwned'
  BY <1>2, <1>3, <1>5 DEF Inv, RowsOwned, Idle, locks, TypeOK
<1>8. TargetsKnown' /\ NothingReadBefore'
  BY <1>2, <1>5, <1>6 DEF Inv, TargetsKnown, NothingReadBefore, Idle, TypeOK
<1>9. JobsCovered' /\ CancelCovered'
  BY <1>2, <1>4, <1>5, <1>6 DEF Inv, JobsCovered, CancelCovered, rows
<1>10. LoadedLocked' /\ WorkCurrent' /\ PlanLoaded' /\ Conservation' /\ NonNegative'
  BY <1>2 DEF Inv, LoadedLocked, WorkCurrent, PlanLoaded, Conservation,
              NonNegative, rows, locks
<1>11. QED
  BY <1>1, <1>7, <1>8, <1>9, <1>10 DEF Inv

LEMMA InvLockDocument ==
    ASSUME Inv, NEW t \in Txn, LockDocument(t)
    PROVE  Inv'
<1> DEFINE d == target[t]
<1>1. d \in Document /\ op[t] \in Operation
  BY DEF Inv, TargetsKnown, LockDocument, Idle, TypeOK
<1>2. TypeOK'
  BY <1>1, TypeLockDocument DEF Inv
<1>3. /\ rowLock[d] = NoTxn
      /\ rowLock' = [rowLock EXCEPT ![d] = t]
      /\ Eligible(op[t], d)
      /\ UNCHANGED <<rows, keyLock, op, target, loaded, cursor, quantities,
                     planned, movements>>
      /\ undo' = [undo EXCEPT ![t] = IF op[t] = "post" THEN {} ELSE DOMAIN posting[d]]
  BY DEF LockDocument
<1>4. PICK c \in Candidates(op[t], d) :
         /\ candidate' = [candidate EXCEPT ![t] = c]
         /\ keys' = [keys EXCEPT ![t] =
                       StockKeys(c) \cup IF op[t] = "post" THEN {}
                                         ELSE MovementKeys(posting[d])]
  BY DEF LockDocument
<1>5. c \in Content
  BY <1>1, CandidatesType DEF Inv
<1>6. ~Holding(t)
  BY <1>3, LockOwners DEF Holding
<1>7. \A u \in Txn \ {t} : /\ Holding(u)' <=> Holding(u)
                           /\ candidate'[u] = candidate[u]
                           /\ keys'[u] = keys[u]
                           /\ undo'[u] = undo[u]
  <2>1. \A u \in Txn \ {t} : Holding(u)' <=> Holding(u)
    BY <1>1, <1>3, LockOwners DEF Holding, Idle, Inv, TypeOK, TargetsKnown
  <2>2. QED
    BY <2>1, <1>3, <1>4 DEF Inv, TypeOK
<1>8. loaded[t] = {}
  BY <1>6 DEF Inv, NothingReadBefore
<1>9. Holding(t)'
  BY <1>1, <1>3 DEF Holding, Idle, LockDocument, Inv, TypeOK
<1>10. RowsOwned'
  BY <1>1, <1>3 DEF Inv, RowsOwned, Idle, LockDocument, TypeOK
<1>11. TargetsKnown' /\ NothingReadBefore'
  BY <1>3, <1>7, <1>9 DEF Inv, TargetsKnown, NothingReadBefore, Idle
<1>12. JobsCovered'
  <2>1. /\ candidate'[t] = c
        /\ StockKeys(c) \subseteq keys'[t]
        /\ undo'[t] \subseteq DOMAIN posting[d]
    BY <1>3, <1>4 DEF Inv, TypeOK
  <2>2. \A i \in undo'[t] : posting[d][i].key \in keys'[t]
    BY <1>3, <1>4 DEF Inv, TypeOK, MovementKeys
  <2>3. op[t] = "cancel" => c.lines = <<>>
    BY <1>1, <1>4 DEF Candidates, WithoutLines
  <2>4. status[d] = IF op[t] = "post" THEN "draft" ELSE "posted"
    BY <1>1, <1>3 DEF Eligible, Operation
  <2>5. QED
    BY <1>3, <1>5, <1>7, <2>1, <2>2, <2>3, <2>4 DEF Inv, JobsCovered, rows
<1>13. LoadedLocked'
  BY <1>3, <1>7, <1>8 DEF Inv, LoadedLocked
<1>14. WorkCurrent' /\ PlanLoaded' /\ Conservation' /\ NonNegative'
  BY <1>3 DEF Inv, WorkCurrent, PlanLoaded, Conservation, NonNegative, rows
<1>15. CancelCovered'
  BY <1>3, <1>7, <1>8 DEF Inv, CancelCovered
<1>16. QED
  BY <1>2, <1>10, <1>11, <1>12, <1>13, <1>14, <1>15 DEF Inv
LEMMA InvLockStockKey ==
    ASSUME Inv, NEW t \in Txn, LockStockKey(t)
    PROVE  Inv'
<1>1. TypeOK'
  BY TypeLockStockKey DEF Inv
<1>2. PICK k \in Unlocked(t) : keyLock[k] = NoTxn /\ keyLock' = [keyLock EXCEPT ![k] = t]
  BY DEF LockStockKey
<1>3. UNCHANGED <<rows, rowLock, locals>>
  BY DEF LockStockKey
<1>4. k \in Key
  BY <1>2 DEF Unlocked, Inv, TypeOK
<1>5. \A u \in Txn : Holding(u)' <=> Holding(u)
  BY <1>3 DEF Holding, Idle, locals
<1>6. LoadedLocked'
  <2>1. \A u \in Txn : k \notin loaded[u]
    BY <1>2, LockOwners DEF Inv, LoadedLocked
  <2>2. QED
    BY <1>2, <1>3, <1>4, <2>1 DEF Inv, LoadedLocked, locals, TypeOK
<1>7. RowsOwned' /\ TargetsKnown' /\ NothingReadBefore'
  BY <1>3, <1>5 DEF Inv, RowsOwned, TargetsKnown, NothingReadBefore, Idle, locals
<1>8. JobsCovered' /\ CancelCovered'
  BY <1>3, <1>5 DEF Inv, JobsCovered, CancelCovered, rows, locals
<1>9. WorkCurrent' /\ PlanLoaded' /\ Conservation' /\ NonNegative'
  BY <1>3 DEF Inv, WorkCurrent, PlanLoaded, Conservation, NonNegative, rows, locals
<1>10. QED
  BY <1>1, <1>6, <1>7, <1>8, <1>9 DEF Inv

LEMMA InvLoadBalance ==
    ASSUME Inv, NEW t \in Txn, LoadBalance(t)
    PROVE  Inv'
<1>1. TypeOK'
  BY TypeLoadBalance DEF Inv
<1>2. PICK k \in keys[t] \ loaded[t] :
         /\ loaded' = [loaded EXCEPT ![t] = @ \cup {k}]
         /\ quantities' = [quantities EXCEPT ![t][k] = balance[k]]
  BY DEF LoadBalance
<1>3. /\ Holding(t)
      /\ Unlocked(t) = {}
      /\ UNCHANGED <<rows, locks, op, target, candidate, keys, undo, cursor,
                     planned, movements>>
  BY DEF LoadBalance
<1>4. k \in Key /\ keyLock[k] = t
  BY <1>2, <1>3 DEF Unlocked, Inv, TypeOK
<1>5. \A u \in Txn : Holding(u)' <=> Holding(u)
  BY <1>3 DEF Holding, Idle, locks
<1>6. /\ \A u \in Txn \ {t} : loaded'[u] = loaded[u] /\ quantities'[u] = quantities[u]
      /\ loaded'[t] = loaded[t] \cup {k}
      /\ quantities'[t][k] = balance[k]
      /\ \A j \in Key \ {k} : quantities'[t][j] = quantities[t][j]
  BY <1>2, <1>4 DEF Inv, TypeOK
<1>7. planned[t][k] = 0
  BY <1>2, <1>4 DEF Inv, PlanLoaded
<1>8. balance[k] \in Int /\ balance[k] >= 0
  BY <1>4 DEF Inv, TypeOK, NonNegative
<1>9. LoadedLocked'
  BY <1>2, <1>3, <1>4, <1>6 DEF Inv, LoadedLocked, locks
<1>10. WorkCurrent'
  <2> SUFFICES ASSUME NEW u \in Txn, NEW j \in loaded'[u]
               PROVE  quantities'[u][j] = balance[j] + planned[u][j]
    BY <1>3 DEF WorkCurrent, rows
  <2>1. CASE u = t /\ j = k
    BY <1>6, <1>7, <1>8, <2>1
  <2>2. CASE ~(u = t /\ j = k)
    <3>1. j \in loaded[u] /\ quantities'[u][j] = quantities[u][j]
      BY <1>6, <2>2 DEF Inv, TypeOK
    <3>2. QED
      BY <3>1 DEF Inv, WorkCurrent
  <2>3. QED
    BY <2>1, <2>2
<1>11. PlanLoaded'
  BY <1>3, <1>6 DEF Inv, PlanLoaded
<1>12. CancelCovered'
  <2> SUFFICES ASSUME NEW u \in Txn, Holding(u), op[u] = "cancel", NEW j \in loaded'[u]
               PROVE  quantities'[u][j] >= 0
    BY <1>3, <1>5 DEF CancelCovered
  <2>1. CASE u = t /\ j = k
    BY <1>6, <1>8, <2>1
  <2>2. CASE ~(u = t /\ j = k)
    <3>1. j \in loaded[u] /\ quantities'[u][j] = quantities[u][j]
      BY <1>6, <2>2 DEF Inv, TypeOK
    <3>2. QED
      BY <3>1 DEF Inv, CancelCovered
  <2>3. QED
    BY <2>1, <2>2
<1>13. RowsOwned' /\ TargetsKnown'
  BY <1>3 DEF Inv, RowsOwned, TargetsKnown, Idle, locks
<1>14. NothingReadBefore'
  BY <1>3, <1>5, <1>6 DEF Inv, NothingReadBefore
<1>15. JobsCovered'
  BY <1>3, <1>5 DEF Inv, JobsCovered, rows
<1>16. Conservation' /\ NonNegative'
  BY <1>3 DEF Inv, Conservation, NonNegative, rows
<1>17. QED
  BY <1>1, <1>9, <1>10, <1>11, <1>12, <1>13, <1>14, <1>15, <1>16 DEF Inv

\* Working a change at loaded keys keeps the working quantities current and the
\* plan within what has been read.
LEMMA WorkKeeps ==
    ASSUME Inv, NEW t \in Txn, NEW change \in [Key -> Int], Work(t, change),
           UNCHANGED <<balance, loaded>>,
           \A k \in Key \ loaded[t] : change[k] = 0
    PROVE  WorkCurrent' /\ PlanLoaded'
<1>1. /\ \A k \in Key : /\ quantities'[t][k] = quantities[t][k] + change[k]
                        /\ planned'[t][k] = planned[t][k] + change[k]
      /\ \A u \in Txn \ {t} : /\ quantities'[u] = quantities[u]
                              /\ planned'[u] = planned[u]
  BY WorkType DEF Inv
<1>2. \A k \in Key : balance[k] \in Int /\ quantities[t][k] \in Int /\ planned[t][k] \in Int
  BY DEF Inv, TypeOK
<1>3. \A u \in Txn : loaded[u] \subseteq Key
  BY DEF Inv, TypeOK
<1>4. WorkCurrent'
  <2> SUFFICES ASSUME NEW u \in Txn, NEW k \in loaded[u]
               PROVE  quantities'[u][k] = balance[k] + planned'[u][k]
    BY DEF WorkCurrent
  <2>1. quantities[u][k] = balance[k] + planned[u][k]
    BY DEF Inv, WorkCurrent
  <2>2. change[k] \in Int
    BY <1>3
  <2>3. CASE u = t
    BY <1>1, <1>2, <1>3, <2>1, <2>2, <2>3
  <2>4. CASE u # t
    BY <1>1, <2>1, <2>4
  <2>5. QED
    BY <2>3, <2>4
<1>5. PlanLoaded'
  <2> SUFFICES ASSUME NEW u \in Txn, NEW k \in Key \ loaded[u]
               PROVE  planned'[u][k] = 0
    BY DEF PlanLoaded
  <2>1. planned[u][k] = 0
    BY DEF Inv, PlanLoaded
  <2>2. CASE u = t
    BY <1>1, <2>1, <2>2
  <2>3. CASE u # t
    BY <1>1, <2>1, <2>3
  <2>4. QED
    BY <2>2, <2>3
<1>6. QED
  BY <1>4, <1>5

LEMMA InvUndoMovement ==
    ASSUME Inv, NEW t \in Txn, UndoMovement(t)
    PROVE  Inv'
<1>1. /\ Ready(t)
      /\ UNCHANGED <<rows, locks, op, target, candidate, keys, loaded, cursor,
                     movements>>
  BY DEF UndoMovement
<1>2. /\ Holding(t)
      /\ loaded[t] = keys[t]
      /\ target[t] \in Document
      /\ undo[t] \subseteq DOMAIN posting[target[t]]
  BY <1>1 DEF Ready, Holding, Inv, TargetsKnown, JobsCovered
<1>3. PICK i \in undo[t] :
         /\ MayUndo(t, posting[target[t]][i])
         /\ undo' = [undo EXCEPT ![t] = @ \ {i}]
         /\ Work(t, Reversal(posting[target[t]][i]))
  BY DEF UndoMovement
<1> DEFINE m == posting[target[t]][i]
<1>4. m \in Movement /\ m.key \in loaded[t]
  BY <1>2, <1>3 DEF Inv, TypeOK, JobsCovered
<1>5. Reversal(m) \in [Key -> Int]
  BY <1>4, ReversalType
<1>6. \A k \in Key \ loaded[t] : Reversal(m)[k] = 0
  BY <1>4 DEF Reversal
<1>7. WorkCurrent' /\ PlanLoaded'
  BY <1>1, <1>3, <1>5, <1>6, WorkKeeps DEF rows
<1>8. TypeOK'
  BY <1>2, TypeUndoMovement DEF Inv
<1>9. \A u \in Txn : Holding(u)' <=> Holding(u)
  BY <1>1 DEF Holding, Idle, locks
<1>10. CancelCovered'
  <2> SUFFICES ASSUME NEW u \in Txn, Holding(u), op[u] = "cancel", NEW k \in loaded[u]
               PROVE  quantities'[u][k] >= 0
    BY <1>1, <1>9 DEF CancelCovered
  <2>1. quantities[u][k] >= 0 /\ k \in Key /\ quantities[u][k] \in Int
    BY DEF Inv, CancelCovered, TypeOK
  <2>2. CASE u # t
    BY <1>3, <1>5, <2>1, <2>2, WorkType DEF Inv
  <2>3. CASE u = t /\ k # m.key
    <3>1. Reversal(m)[k] = 0
      BY <2>1, <2>3 DEF Reversal
    <3>2. QED
      BY <1>3, <1>5, <2>1, <2>3, <3>1, WorkType DEF Inv
  <2>4. CASE u = t /\ k = m.key
    <3>1. Reversal(m)[k] = - m.delta /\ m.delta \in Int
      BY <1>4, <2>1, <2>4 DEF Reversal, Movement
    <3>2. quantities[t][k] - m.delta >= 0
      BY <1>3, <2>4 DEF MayUndo
    <3>3. QED
      BY <1>3, <1>5, <2>1, <2>4, <3>1, <3>2, WorkType DEF Inv
  <2>5. QED
    BY <2>2, <2>3, <2>4
<1>11. JobsCovered'
  <2>1. \A u \in Txn : undo'[u] \subseteq undo[u]
    BY <1>3 DEF Inv, TypeOK
  <2>2. QED
    BY <1>1, <1>9, <2>1 DEF Inv, JobsCovered, rows
<1>12. NothingReadBefore'
  BY <1>1, <1>2, <1>3, <1>9 DEF Inv, NothingReadBefore, TypeOK
<1>13. RowsOwned' /\ TargetsKnown' /\ LoadedLocked' /\ Conservation' /\ NonNegative'
  BY <1>1 DEF Inv, RowsOwned, TargetsKnown, LoadedLocked, Idle, Conservation,
              NonNegative, rows, locks
<1>14. QED
  BY <1>7, <1>8, <1>10, <1>11, <1>12, <1>13 DEF Inv
LEMMA InvPlanLine ==
    ASSUME Inv, NEW t \in Txn, PlanLine(t)
    PROVE  Inv'
<1>1. /\ Planning(t)
      /\ Work(t, LineChange(t))
      /\ UNCHANGED <<rows, locks, op, target, candidate, keys, loaded, undo>>
  BY DEF PlanLine
<1>2. /\ Holding(t)
      /\ loaded[t] = keys[t]
      /\ cursor[t] <= Len(candidate[t].lines)
  BY <1>1 DEF Planning, Ready
<1>3. candidate[t] \in Content /\ StockKeys(candidate[t]) \subseteq keys[t]
  BY <1>2 DEF Inv, JobsCovered
<1>4. cursor[t] \in DOMAIN candidate[t].lines
  <2>1. candidate[t].lines \in Seq(Line) /\ cursor[t] \in Nat \ {0}
    BY <1>3 DEF Content, Inv, TypeOK
  <2>2. QED
    BY <1>2, <2>1
<1>5. /\ LineChange(t) \in [Key -> Int]
      /\ Source(t) \in keys[t]
      /\ candidate[t].type = "transfer" => Destination(t) \in keys[t]
  BY <1>3, <1>4, ChangeType DEF Inv
<1>6. \A k \in Key \ loaded[t] : LineChange(t)[k] = 0
  BY <1>2, <1>5 DEF LineChange
<1>7. WorkCurrent' /\ PlanLoaded'
  BY <1>1, <1>5, <1>6, WorkKeeps DEF rows
<1>8. TypeOK'
  BY <1>3, <1>4, TypePlanLine DEF Inv
<1>9. \A u \in Txn : Holding(u)' <=> Holding(u)
  BY <1>1 DEF Holding, Idle, locks
<1>10. op[t] # "cancel"
  <2>1. candidate[t].lines # <<>>
    BY <1>4
  <2>2. QED
    BY <1>2, <2>1 DEF Inv, JobsCovered
<1>11. CancelCovered'
  <2>1. \A u \in Txn \ {t} : quantities'[u] = quantities[u]
    BY <1>1, <1>5, WorkType DEF Inv
  <2>2. QED
    BY <1>1, <1>9, <1>10, <2>1 DEF Inv, CancelCovered
<1>12. JobsCovered' /\ NothingReadBefore'
  BY <1>1, <1>9 DEF Inv, JobsCovered, NothingReadBefore, rows
<1>13. RowsOwned' /\ TargetsKnown' /\ LoadedLocked' /\ Conservation' /\ NonNegative'
  BY <1>1 DEF Inv, RowsOwned, TargetsKnown, LoadedLocked, Idle, Conservation,
              NonNegative, rows, locks
<1>14. QED
  BY <1>7, <1>8, <1>11, <1>12, <1>13 DEF Inv

\* What the end of a transaction does to the handlers that go on.
LEMMA ReleaseOthers ==
    ASSUME Inv, NEW t \in Txn, Release(t)
    PROVE  /\ ~Holding(t)' /\ Idle(t)' /\ loaded'[t] = {} /\ undo'[t] = {}
           /\ keys'[t] = {} /\ planned'[t] = Zero
           /\ \A u \in Txn \ {t} :
                /\ Holding(u)' <=> Holding(u)
                /\ Idle(u)' <=> Idle(u)
                /\ op'[u] = op[u] /\ target'[u] = target[u]
                /\ candidate'[u] = candidate[u] /\ keys'[u] = keys[u]
                /\ loaded'[u] = loaded[u] /\ undo'[u] = undo[u]
                /\ quantities'[u] = quantities[u] /\ planned'[u] = planned[u]
           /\ RowsOwned' /\ TargetsKnown' /\ NothingReadBefore' /\ LoadedLocked'
           /\ PlanLoaded'
<1>1. /\ Idle(t)' /\ loaded'[t] = {} /\ undo'[t] = {} /\ keys'[t] = {}
      /\ planned'[t] = Zero
  BY DEF Release, Idle, Inv, TypeOK
<1>2. ~Holding(t)'
  BY <1>1 DEF Holding, Idle
<1>3. \A u \in Txn \ {t} :
        /\ op'[u] = op[u] /\ target'[u] = target[u]
        /\ candidate'[u] = candidate[u] /\ keys'[u] = keys[u]
        /\ loaded'[u] = loaded[u] /\ undo'[u] = undo[u]
        /\ quantities'[u] = quantities[u] /\ planned'[u] = planned[u]
  BY DEF Release, Inv, TypeOK
<1>4. \A u \in Txn \ {t} : Idle(u)' <=> Idle(u)
  BY <1>3 DEF Idle
<1>5. \A u \in Txn \ {t} : Holding(u)' <=> Holding(u)
  <2> SUFFICES ASSUME NEW u \in Txn \ {t} PROVE Holding(u)' <=> Holding(u)
    OBVIOUS
  <2>1. CASE Idle(u)
    BY <1>4, <2>1 DEF Holding
  <2>2. CASE ~Idle(u)
    <3>1. target[u] \in Document /\ target'[u] = target[u]
      BY <1>3, <2>2 DEF Inv, TargetsKnown
    <3>2. rowLock'[target[u]] = u <=> rowLock[target[u]] = u
      BY <3>1, LockOwners DEF Release
    <3>3. QED
      BY <1>4, <2>2, <3>1, <3>2 DEF Holding
  <2>3. QED
    BY <2>1, <2>2
<1>6. RowsOwned'
  <2> SUFFICES ASSUME NEW d \in Document, rowLock'[d] # NoTxn
               PROVE  ~Idle(rowLock[d])' /\ target'[rowLock'[d]] = d
                      /\ rowLock'[d] = rowLock[d]
    BY DEF RowsOwned, Idle
  <2>1. rowLock'[d] = rowLock[d] /\ rowLock[d] # t
    BY DEF Release
  <2>2. rowLock[d] \in Txn
    BY <2>1 DEF Inv, TypeOK
  <2>3. QED
    BY <1>3, <2>1, <2>2 DEF Inv, RowsOwned, Idle
<1>7. TargetsKnown'
  BY <1>1, <1>3, <1>4 DEF Inv, TargetsKnown
<1>8. NothingReadBefore'
  BY <1>1, <1>3, <1>5 DEF Inv, NothingReadBefore
<1>9. LoadedLocked'
  <2> SUFFICES ASSUME NEW u \in Txn, u # t
               PROVE  loaded[u] \subseteq keys[u] /\ \A k \in loaded[u] : keyLock'[k] = u
    BY <1>1, <1>3 DEF LoadedLocked
  <2>1. loaded[u] \subseteq keys[u] /\ \A k \in loaded[u] : k \in Key /\ keyLock[k] = u
    BY DEF Inv, LoadedLocked, TypeOK
  <2>2. QED
    BY <2>1 DEF Release
<1>10. PlanLoaded'
  BY <1>1, <1>3 DEF Inv, PlanLoaded, Zero
<1>11. QED
  BY <1>1, <1>2, <1>3, <1>4, <1>5, <1>6, <1>7, <1>8, <1>9, <1>10

LEMMA InvRollback ==
    ASSUME Inv, NEW t \in Txn, Release(t), UNCHANGED rows
    PROVE  Inv'
<1>1. TypeOK'
  BY TypeRollback DEF Inv
<1>2. RowsOwned' /\ TargetsKnown' /\ NothingReadBefore' /\ LoadedLocked' /\ PlanLoaded'
  BY ReleaseOthers
<1>3. JobsCovered' /\ CancelCovered' /\ WorkCurrent'
  BY ReleaseOthers DEF Inv, JobsCovered, CancelCovered, WorkCurrent, rows
<1>4. Conservation' /\ NonNegative'
  BY DEF Inv, Conservation, NonNegative, rows
<1>5. QED
  BY <1>1, <1>2, <1>3, <1>4 DEF Inv
\* A commit books the planned change of every key, and leaves no key negative.
LEMMA CommitBooks ==
    ASSUME Inv, NEW t \in Txn, Commit(t), NEW k \in Key
    PROVE  /\ balance'[k] = balance[k] + planned[t][k]
           /\ ledger'[k] = ledger[k] + planned[t][k]
           /\ balance'[k] >= 0
           /\ k \notin keys[t] => balance'[k] = balance[k]
<1>1. /\ Planned(t) /\ Affordable(t)
      /\ balance' = NewBalance(t)
      /\ ledger' = [j \in Key |-> ledger[j] + planned[t][j]]
  BY DEF Commit
<1>2. Holding(t) /\ loaded[t] = keys[t]
  BY <1>1 DEF Planned, Ready
<1>3. balance[k] \in Int /\ planned[t][k] \in Int /\ quantities[t][k] \in Int
  BY DEF Inv, TypeOK
<1>4. CASE k \in keys[t]
  <2>1. balance'[k] = quantities[t][k]
    BY <1>1, <1>4 DEF NewBalance
  <2>2. quantities[t][k] = balance[k] + planned[t][k]
    BY <1>2, <1>4 DEF Inv, WorkCurrent
  <2>3. quantities[t][k] >= 0
    BY <1>1, <1>2, <1>4 DEF Affordable, Inv, CancelCovered
  <2>4. QED
    BY <1>1, <1>4, <2>1, <2>2, <2>3
<1>5. CASE k \notin keys[t]
  <2>1. balance'[k] = balance[k]
    BY <1>1, <1>5 DEF NewBalance
  <2>2. planned[t][k] = 0
    BY <1>2, <1>5 DEF Inv, PlanLoaded
  <2>3. balance[k] >= 0
    BY DEF Inv, NonNegative
  <2>4. QED
    BY <1>1, <1>3, <2>1, <2>2, <2>3
<1>6. QED
  BY <1>4, <1>5

\* A commit leaves the rows of the documents others hold as they are.
LEMMA CommitOthers ==
    ASSUME Inv, NEW t \in Txn, Commit(t), NEW u \in Txn \ {t}, Holding(u)
    PROVE  /\ posting'[target[u]] = posting[target[u]]
           /\ status'[target[u]] = status[target[u]]
<1>1. Holding(t)
  BY DEF Commit, Planned, Ready
<1>2. target[u] # target[t]
  BY <1>1 DEF Holding
<1>3. target[u] \in Document /\ target[t] \in Document
  BY <1>1 DEF Holding, Inv, TargetsKnown
<1>4. CASE op[t] = "cancel"
  BY <1>2, <1>3, <1>4 DEF Commit, Inv, TypeOK
<1>5. CASE op[t] # "cancel"
  BY <1>2, <1>3, <1>5 DEF Commit, Inv, TypeOK
<1>6. QED
  BY <1>4, <1>5

LEMMA InvCommit ==
    ASSUME Inv, NEW t \in Txn, Commit(t)
    PROVE  Inv'
<1>1. Holding(t) /\ Unlocked(t) = {} /\ loaded[t] = keys[t]
  BY DEF Commit, Planned, Ready
<1>2. Release(t)
  BY DEF Commit
<1>3. target[t] \in Document /\ candidate[t] \in Content
  BY <1>1 DEF Holding, Inv, TargetsKnown, JobsCovered
<1>4. TypeOK'
  BY <1>3, TypeCommit DEF Inv
<1>5. RowsOwned' /\ TargetsKnown' /\ NothingReadBefore' /\ LoadedLocked' /\ PlanLoaded'
  BY <1>2, ReleaseOthers
<1>6. JobsCovered'
  <2> SUFFICES ASSUME NEW u \in Txn, Holding(u)', u # t
               PROVE  /\ candidate'[u] \in Content
                      /\ StockKeys(candidate'[u]) \subseteq keys'[u]
                      /\ undo'[u] \subseteq DOMAIN posting'[target'[u]]
                      /\ \A i \in undo'[u] : posting'[target'[u]][i].key \in keys'[u]
                      /\ op'[u] = "cancel" => candidate'[u].lines = <<>>
                      /\ status'[target'[u]] = IF op'[u] = "post" THEN "draft" ELSE "posted"
    BY <1>2, ReleaseOthers DEF JobsCovered
  <2>1. /\ Holding(u)
        /\ op'[u] = op[u] /\ target'[u] = target[u] /\ candidate'[u] = candidate[u]
        /\ keys'[u] = keys[u] /\ undo'[u] = undo[u]
    BY <1>2, ReleaseOthers
  <2>2. /\ posting'[target[u]] = posting[target[u]]
        /\ status'[target[u]] = status[target[u]]
    BY <2>1, CommitOthers
  <2>3. QED
    BY <2>1, <2>2 DEF Inv, JobsCovered
<1>7. WorkCurrent'
  <2> SUFFICES ASSUME NEW u \in Txn, u # t, NEW k \in loaded[u]
               PROVE  quantities[u][k] = balance'[k] + planned[u][k]
    BY <1>2, ReleaseOthers DEF WorkCurrent
  <2>1. k \in Key /\ keyLock[k] = u
    BY DEF Inv, LoadedLocked, TypeOK
  <2>2. k \notin keys[t]
    BY <1>1, <2>1 DEF Unlocked
  <2>3. balance'[k] = balance[k]
    BY <2>1, <2>2, CommitBooks
  <2>4. QED
    BY <2>3 DEF Inv, WorkCurrent
<1>8. CancelCovered'
  BY <1>2, ReleaseOthers DEF Inv, CancelCovered
<1>9. Conservation'
  <2>1. \A k \in Key : balance'[k] = ledger'[k]
    BY CommitBooks DEF Inv, Conservation
  <2>2. QED
    BY <1>4, <2>1 DEF Conservation, TypeOK
<1>10. NonNegative'
  BY CommitBooks DEF NonNegative
<1>11. QED
  BY <1>4, <1>5, <1>6, <1>7, <1>8, <1>9, <1>10 DEF Inv

LEMMA InvNext == Inv /\ [Next]_vars => Inv'
<1> SUFFICES ASSUME Inv, [Next]_vars PROVE Inv'
  OBVIOUS
<1>1. CASE UNCHANGED vars
  BY <1>1 DEF Inv, vars, rows, locks, locals, TypeOK, RowsOwned, TargetsKnown,
     NothingReadBefore, JobsCovered, LoadedLocked, WorkCurrent, PlanLoaded,
     CancelCovered, Conservation, NonNegative, Holding, Idle
<1>2. ASSUME NEW t \in Txn, NEW operation \in Operation, NEW d \in Document,
             Request(t, operation, d)
      PROVE  Inv'
  BY <1>2, InvRequest
<1>3. ASSUME NEW t \in Txn, LockDocument(t) PROVE Inv'
  BY <1>3, InvLockDocument
<1>4. ASSUME NEW t \in Txn, LockStockKey(t) PROVE Inv'
  BY <1>4, InvLockStockKey
<1>5. ASSUME NEW t \in Txn, LoadBalance(t) PROVE Inv'
  BY <1>5, InvLoadBalance
<1>6. ASSUME NEW t \in Txn, UndoMovement(t) PROVE Inv'
  BY <1>6, InvUndoMovement
<1>7. ASSUME NEW t \in Txn, PlanLine(t) PROVE Inv'
  BY <1>7, InvPlanLine
<1>8. ASSUME NEW t \in Txn, Commit(t) PROVE Inv'
  BY <1>8, InvCommit
<1>9. ASSUME NEW t \in Txn, Refuse(t) \/ Fail(t) \/ Crash(t) PROVE Inv'
  BY <1>9, InvRollback DEF Refuse, Fail, Crash
<1>10. QED
  BY <1>1, <1>2, <1>3, <1>4, <1>5, <1>6, <1>7, <1>8, <1>9 DEF Next
-----------------------------------------------------------------------------
(* The theorems *)

\* The inductive invariant holds throughout, for all constants.
THEOREM InvAlways == Spec => []Inv
BY InvInit, InvNext, PTL DEF Spec

\* Every variable keeps its type through any interleaving of requests.
THEOREM TypeCorrect == Spec => []TypeOK
<1>1. Inv => TypeOK
  BY DEF Inv
<1>2. QED
  BY <1>1, InvAlways, PTL

\* post_document, repost_document and cancel_document, however interleaved, keep
\* stock_balances equal to the sum of stock_movements.
THEOREM StockConserved == Spec => []Conservation
<1>1. Inv => Conservation
  BY DEF Inv
<1>2. QED
  BY <1>1, InvAlways, PTL

\* No committed balance is ever negative.
THEOREM StockNonNegative == Spec => []NonNegative
<1>1. Inv => NonNegative
  BY DEF Inv
<1>2. QED
  BY <1>1, InvAlways, PTL

\* The advisory locks isolate: what a transaction loaded is still the committed
\* balance when it commits, and nobody else has it loaded.
THEOREM ReadsStayCurrent == Spec => []ReadsCurrent
<1>1. Inv => ReadsCurrent
  BY DEF Inv, ReadsCurrent, WorkCurrent, LoadedLocked
<1>2. QED
  BY <1>1, InvAlways, PTL

\* A commit of StockPosting is a Post, Repost or Cancel of StockLedger.
LEMMA CommitIsLedgerStep ==
    ASSUME Inv, NEW t \in Txn, Commit(t)
    PROVE  Ledger!Next
<1> DEFINE d == target[t]
<1>1. Holding(t) /\ op[t] \in Operation /\ d \in Document
  BY DEF Commit, Planned, Ready, Holding, Idle, Inv, TypeOK, TargetsKnown
<1>2. Ledger!BookMovements
  <2> SUFFICES ASSUME NEW k \in Key
               PROVE  balance'[k] - balance[k] = ledger'[k] - ledger[k] /\ balance'[k] >= 0
    BY DEF Ledger!BookMovements
  <2>1. balance[k] \in Int /\ ledger[k] \in Int /\ planned[t][k] \in Int
    BY DEF Inv, TypeOK
  <2>2. QED
    BY <2>1, CommitBooks
<1>3. status[d] = IF op[t] = "post" THEN "draft" ELSE "posted"
  BY <1>1 DEF Inv, JobsCovered
<1>4. CASE op[t] = "cancel"
  BY <1>1, <1>2, <1>3, <1>4 DEF Commit, Ledger!Cancel, Ledger!Next
<1>5. CASE op[t] = "post"
  BY <1>1, <1>2, <1>3, <1>5 DEF Commit, Ledger!Post, Ledger!Next
<1>6. CASE op[t] = "repost"
  <2>1. status' = status
    <3>1. status' = [status EXCEPT ![d] = "posted"] /\ status[d] = "posted"
      BY <1>3, <1>6 DEF Commit
    <3>2. status \in [Document -> {"draft", "posted", "cancelled"}]
      BY DEF Inv, TypeOK
    <3>3. QED
      BY <3>1, <3>2
  <2>2. QED
    BY <1>1, <1>2, <1>3, <1>6, <2>1 DEF Commit, Ledger!Repost, Ledger!Next
<1>7. QED
  BY <1>1, <1>4, <1>5, <1>6 DEF Operation

\* Row lock, advisory locks and one commit make each operation look indivisible.
THEOREM Refinement == Spec => ImplementsLedger
<1>1. Init => Ledger!Init
  BY DEF Init, Ledger!Init
<1>2. Inv /\ [Next]_vars => [Ledger!Next]_(Ledger!vars)
  <2> SUFFICES ASSUME Inv, [Next]_vars
               PROVE  Ledger!Next \/ UNCHANGED rows
    BY DEF Ledger!vars, rows
  <2>1. ASSUME NEW t \in Txn, Commit(t) PROVE Ledger!Next
    BY <2>1, CommitIsLedgerStep
  <2>2. CASE \A t \in Txn : ~Commit(t)
    BY <2>2 DEF Next, Request, LockDocument, Refuse, LockStockKey, LoadBalance,
       UndoMovement, PlanLine, Fail, Crash, vars
  <2>3. QED
    BY <2>1, <2>2
<1>3. QED
  BY <1>1, <1>2, InvAlways, PTL DEF Spec, ImplementsLedger, Ledger!Spec
-----------------------------------------------------------------------------
(* What the balances consist of *)

\* Every content a document has, or a handler is applying, is a valid one: in
\* particular the two warehouses of a transfer differ, so that its two movements
\* are of two keys.
ContentsValid ==
    /\ \A d \in Document : ValidContent(content[d])
    /\ \A t \in Txn : Holding(t) => ValidContent(candidate[t])

\* A plan pl consists of the new movements mv decided so far, less the movements
\* po of the old version, except those, un, that are still to be taken back.
PlanOf(o, po, un, pl, mv) ==
    /\ o = "post" => un = {}
    /\ o = "cancel" => mv = <<>>
    /\ \A k \in Key : pl[k] = Net(mv, k) + NetOver(po, k, un)
                              - (IF o = "post" THEN 0 ELSE Net(po, k))

PlanExplained ==
    \A t \in Txn : Holding(t) =>
        PlanOf(op[t], posting[target[t]], undo[t], planned[t], movements[t])

\* A handler without its row has planned nothing.
NothingPlannedBefore ==
    \A t \in Txn : ~Holding(t) => movements[t] = <<>>

BookInv == ContentsValid /\ PlanExplained /\ NothingPlannedBefore /\ StockExplained

LEMMA EffectType ==
    ASSUME NEW ms \in Seq(Movement), NEW k
    PROVE  /\ IsFiniteSet(DOMAIN ms)
           /\ \A i \in DOMAIN ms : /\ Effect(ms, k)[i] \in Int
                                   /\ Effect(ms, k)[i] = IF ms[i].key = k THEN ms[i].delta ELSE 0
<1>1. DOMAIN ms = 1 .. Len(ms) /\ Len(ms) \in Nat
  OBVIOUS
<1>2. IsFiniteSet(DOMAIN ms)
  BY <1>1, FS_Interval
<1>3. \A i \in DOMAIN ms : ms[i] \in Movement
  OBVIOUS
<1>4. QED
  BY <1>2, <1>3 DEF Effect, Movement

LEMMA NetType ==
    ASSUME NEW ms \in Seq(Movement), NEW k, NEW S, S \subseteq DOMAIN ms
    PROVE  NetOver(ms, k, S) \in Int /\ Net(ms, k) \in Int
<1>1. IsFiniteSet(DOMAIN ms) /\ \A i \in DOMAIN ms : Effect(ms, k)[i] \in Int
  BY EffectType
<1>2. IsFiniteSet(S) /\ \A i \in S : Effect(ms, k)[i] \in Int
  BY <1>1, FS_Subset
<1>3. QED
  BY <1>1, <1>2, SumInt DEF NetOver, Net

LEMMA NetNone == ASSUME NEW ms, NEW k PROVE NetOver(ms, k, {}) = 0 /\ Net(<<>>, k) = 0
<1>1. DOMAIN <<>> = {}
  OBVIOUS
<1>2. QED
  BY <1>1, SumEmpty DEF NetOver, Net

\* One movement taken out of a part of a posting.
LEMMA NetTakeOut ==
    ASSUME NEW ms \in Seq(Movement), NEW k, NEW S, S \subseteq DOMAIN ms, NEW i \in S
    PROVE  NetOver(ms, k, S)
             = (IF ms[i].key = k THEN ms[i].delta ELSE 0) + NetOver(ms, k, S \ {i})
<1>1. /\ IsFiniteSet(DOMAIN ms)
      /\ \A j \in DOMAIN ms : Effect(ms, k)[j] \in Int
      /\ Effect(ms, k)[i] = IF ms[i].key = k THEN ms[i].delta ELSE 0
  BY EffectType
<1>2. IsFiniteSet(S) /\ \A j \in S : Effect(ms, k)[j] \in Int
  BY <1>1, FS_Subset
<1>3. NetOver(ms, k, S) = Effect(ms, k)[i] + NetOver(ms, k, S \ {i})
  BY <1>2, SumRemove DEF NetOver
<1>4. QED
  BY <1>1, <1>3

\* One movement more at the end.
LEMMA NetAppend ==
    ASSUME NEW ms \in Seq(Movement), NEW m \in Movement, NEW k
    PROVE  Net(Append(ms, m), k) = Net(ms, k) + (IF m.key = k THEN m.delta ELSE 0)
<1> DEFINE new == Append(ms, m)
           n == Len(ms) + 1
<1>1. /\ new \in Seq(Movement)
      /\ DOMAIN new = DOMAIN ms \cup {n}
      /\ n \in DOMAIN new /\ n \notin DOMAIN ms
      /\ new[n] = m
      /\ \A i \in DOMAIN ms : new[i] = ms[i]
  OBVIOUS
<1> HIDE DEF new, n
<1>2. (DOMAIN new) \ {n} = DOMAIN ms
  BY <1>1
<1>3. Net(new, k) = (IF m.key = k THEN m.delta ELSE 0) + NetOver(new, k, DOMAIN ms)
  BY <1>1, <1>2, NetTakeOut DEF Net
<1>4. NetOver(new, k, DOMAIN ms) = Net(ms, k)
  <2>1. /\ IsFiniteSet(DOMAIN ms)
        /\ \A i \in DOMAIN ms : /\ Effect(ms, k)[i] \in Int
                                /\ Effect(ms, k)[i] = IF ms[i].key = k THEN ms[i].delta ELSE 0
    BY EffectType
  <2>2. \A i \in DOMAIN new : Effect(new, k)[i] = IF new[i].key = k THEN new[i].delta ELSE 0
    BY DEF Effect
  <2>3. \A i \in DOMAIN ms : Effect(new, k)[i] = Effect(ms, k)[i]
    BY <1>1, <2>1, <2>2
  <2>4. QED
    BY <2>1, <2>3, SumSame DEF NetOver, Net
<1>5. NetOver(new, k, DOMAIN ms) \in Int /\ m.delta \in Int
  BY <1>4, NetType DEF Movement
<1>6. QED
  BY <1>3, <1>4, <1>5 DEF new

LEMMA AppendTwo ==
    ASSUME NEW T, NEW ms \in Seq(T), NEW a \in T, NEW b \in T
    PROVE  ms \o (<<a>> \o <<b>>) = Append(Append(ms, a), b)
<1>1. <<a>> \in Seq(T) /\ <<b>> \in Seq(T)
  OBVIOUS
<1>2. ms \o (<<a>> \o <<b>>) = (ms \o <<a>>) \o <<b>>
  BY <1>1, ConcatAssociative
<1>3. ms \o <<a>> = Append(ms, a) /\ Append(ms, a) \in Seq(T)
  OBVIOUS
<1>4. \A q \in Seq(T) : q \o <<b>> = Append(q, b)
  OBVIOUS
<1>5. QED
  BY <1>2, <1>3, <1>4

\* The movements of a line move what the line changes: the two of a transfer are
\* of different keys.
LEMMA NetLine ==
    ASSUME TypeOK, NEW t \in Txn, candidate[t] \in Content, ValidContent(candidate[t]),
           cursor[t] \in DOMAIN candidate[t].lines, NEW k \in Key
    PROVE  Net(movements[t] \o LineMovements(t), k) = Net(movements[t], k) + LineChange(t)[k]
<1> DEFINE ms == movements[t]
           out == [key |-> Source(t), delta |-> SourceDelta(t)]
           in == [key |-> Destination(t), delta |-> CurrentLine(t).quantity]
<1>1. /\ CurrentLine(t) \in Line
      /\ candidate[t].warehouse \in Warehouse
      /\ candidate[t].destination \in Warehouse
      /\ candidate[t].type \in DocumentType
  BY DEF CurrentLine, Content
<1>2. Source(t) \in Key /\ Destination(t) \in Key /\ CurrentLine(t).quantity \in Nat
  BY <1>1 DEF Source, Destination, Key, Line
<1>3. quantities[t][Source(t)] \in Int
  BY <1>2 DEF TypeOK
<1>4. SourceDelta(t) \in Int
  BY <1>1, <1>2, <1>3 DEF SourceDelta, DocumentType
<1>5. out \in Movement /\ in \in Movement /\ ms \in Seq(Movement)
  <2>1. out \in Movement
    BY <1>2, <1>4 DEF Movement
  <2>2. in \in Movement
    BY <1>2 DEF Movement
  <2>3. ms \in Seq(Movement)
    BY DEF TypeOK
  <2>4. QED
    BY <2>1, <2>2, <2>3
<1>6. /\ out.key = Source(t) /\ out.delta = SourceDelta(t)
      /\ in.key = Destination(t) /\ in.delta = CurrentLine(t).quantity
  OBVIOUS
<1>7. CASE candidate[t].type # "transfer"
  <2>1. ms \o LineMovements(t) = Append(ms, out)
    <3>1. LineMovements(t) = <<out>>
      BY <1>7 DEF LineMovements
    <3> HIDE DEF ms, out
    <3>2. QED
      BY <3>1, <1>5
  <2>2. LineChange(t)[k] = IF k = Source(t) THEN SourceDelta(t) ELSE 0
    BY <1>7 DEF LineChange
  <2> HIDE DEF ms, out, in
  <2>3. Net(Append(ms, out), k) = Net(ms, k) + IF out.key = k THEN out.delta ELSE 0
    BY <1>5, NetAppend
  <2>4. QED
    BY <1>6, <2>1, <2>2, <2>3 DEF ms
<1>8. CASE candidate[t].type = "transfer"
  <2>1. ms \o LineMovements(t) = Append(Append(ms, out), in)
    <3>1. LineMovements(t) = <<out>> \o <<in>>
      BY <1>8 DEF LineMovements
    <3> HIDE DEF ms, out, in
    <3>2. ms \o (<<out>> \o <<in>>) = Append(Append(ms, out), in)
      BY <1>5, AppendTwo
    <3>3. QED
      BY <3>1, <3>2
  <2>2. Source(t) # Destination(t)
    BY <1>8 DEF ValidContent, Source, Destination
  <2>3. LineChange(t)[k] = IF k = Source(t) THEN SourceDelta(t)
                           ELSE IF k = Destination(t) THEN CurrentLine(t).quantity ELSE 0
    BY <1>8 DEF LineChange
  <2> HIDE DEF ms, out, in
  <2>4. Append(ms, out) \in Seq(Movement)
    BY <1>5
  <2>5. /\ Net(Append(ms, out), k) = Net(ms, k) + IF out.key = k THEN out.delta ELSE 0
        /\ Net(ms, k) \in Int
    BY <1>5, NetAppend, NetType
  <2>6. Net(Append(Append(ms, out), in), k)
          = Net(Append(ms, out), k) + IF in.key = k THEN in.delta ELSE 0
    BY <1>5, <2>4, NetAppend
  <2>7. QED
    BY <1>2, <1>4, <1>6, <2>1, <2>2, <2>3, <2>5, <2>6 DEF ms
<1>9. QED
  BY <1>7, <1>8
-----------------------------------------------------------------------------
\* The stock that documents st, with the postings po, stand for.
PostedStock(st, po, k) ==
    SumFunctionOnSet([d \in Document |-> Net(po[d], k)], {d \in Document : st[d] = "posted"})

LEMMA ExplainedBy ==
    /\ StockExplained <=>
         \A k \in Key : balance[k] = OpeningStock[k] + PostedStock(status, posting, k)
    /\ StockExplained' <=>
         \A k \in Key : balance'[k] = OpeningStock[k] + PostedStock(status', posting', k)
BY DEF StockExplained, PostedStock

\* What one document stands for.
Share(st, po, k) == [d \in Document |-> IF st[d] = "posted" THEN Net(po[d], k) ELSE 0]

LEMMA SumOfShares ==
    ASSUME NEW st, NEW po, NEW k, \A d \in Document : po[d] \in Seq(Movement)
    PROVE  /\ PostedStock(st, po, k) = SumFunctionOnSet(Share(st, po, k), Document)
           /\ \A d \in Document : Share(st, po, k)[d] \in Int
           /\ PostedStock(st, po, k) \in Int
<1> DEFINE P == {d \in Document : st[d] = "posted"}
           N == [d \in Document |-> Net(po[d], k)]
           C == Share(st, po, k)
<1>1. \A d \in Document : C[d] = IF st[d] = "posted" THEN N[d] ELSE 0
  BY DEF Share
<1>2. \A d \in Document : N[d] \in Int
  BY NetType
<1>3. P \subseteq Document /\ IsFiniteSet(P) /\ IsFiniteSet(Document)
  BY Tables, FS_Subset
<1>4. (\A d \in P : C[d] = N[d]) /\ (\A d \in Document : d \notin P => C[d] = 0)
  BY <1>1
<1>5. \A d \in Document : C[d] \in Int
  BY <1>1, <1>2
<1>6. PostedStock(st, po, k) = SumFunctionOnSet(N, P)
  BY DEF PostedStock
<1> HIDE DEF P, N, C
<1>7. SumFunctionOnSet(N, P) = SumFunctionOnSet(C, P)
  BY <1>2, <1>3, <1>4, SumSame
<1>8. SumFunctionOnSet(C, P) = SumFunctionOnSet(C, Document)
  BY <1>3, <1>4, <1>5, SumSupport
<1>9. SumFunctionOnSet(C, Document) \in Int
  BY <1>3, <1>5, SumInt
<1>10. QED
  BY <1>5, <1>6, <1>7, <1>8, <1>9 DEF C

LEMMA PostedStockType ==
    ASSUME NEW st, NEW po, NEW k, \A d \in Document : po[d] \in Seq(Movement)
    PROVE  PostedStock(st, po, k) \in Int
BY SumOfShares

\* A document that changes alone changes the stock by as much as its share.
LEMMA SharesMoved ==
    ASSUME NEW st, NEW po, NEW st2, NEW po2, NEW k, NEW d \in Document,
           \A e \in Document : po[e] \in Seq(Movement) /\ po2[e] \in Seq(Movement),
           \A e \in Document \ {d} : st2[e] = st[e] /\ po2[e] = po[e]
    PROVE  PostedStock(st2, po2, k) = PostedStock(st, po, k)
               + Share(st2, po2, k)[d] - Share(st, po, k)[d]
<1> DEFINE C == Share(st, po, k)
           D == Share(st2, po2, k)
<1>1. /\ PostedStock(st, po, k) = SumFunctionOnSet(C, Document)
      /\ \A e \in Document : C[e] \in Int
  BY SumOfShares
<1>2. /\ PostedStock(st2, po2, k) = SumFunctionOnSet(D, Document)
      /\ \A e \in Document : D[e] \in Int
  BY SumOfShares
<1>3. \A e \in Document : e # d => C[e] = D[e]
  BY DEF Share
<1> HIDE DEF C, D
<1>4. SumFunctionOnSet(D, Document) = SumFunctionOnSet(C, Document) + D[d] - C[d]
  BY <1>1, <1>2, <1>3, Tables, SumChange
<1>5. QED
  BY <1>1, <1>2, <1>4 DEF C, D
-----------------------------------------------------------------------------
LEMMA BookInit == Init => BookInv
<1> SUFFICES ASSUME Init PROVE BookInv
  OBVIOUS
<1>1. \A t \in Txn : ~Holding(t) /\ movements[t] = <<>>
  BY DEF Init, Holding, Idle
<1>2. ContentsValid
  BY <1>1, PayloadOK DEF Init, ContentsValid
<1>3. PlanExplained /\ NothingPlannedBefore
  BY <1>1 DEF PlanExplained, NothingPlannedBefore
<1>4. StockExplained
  <2> SUFFICES ASSUME NEW k \in Key
               PROVE  balance[k] = OpeningStock[k] + PostedStock(status, posting, k)
    BY ExplainedBy
  <2>1. {d \in Document : status[d] = "posted"} = {}
    BY DEF Init
  <2>2. PostedStock(status, posting, k) = 0
    BY <2>1, SumEmpty DEF PostedStock
  <2>3. QED
    BY <2>2, OpeningOK DEF Init
<1>5. QED
  BY <1>2, <1>3, <1>4 DEF BookInv

\* Steps that commit nothing leave the balances explained.
LEMMA BookStays ==
    ASSUME StockExplained, UNCHANGED rows
    PROVE  StockExplained'
<1>1. status' = status /\ posting' = posting /\ balance' = balance
  BY DEF rows
<1>2. QED
  BY <1>1, ExplainedBy

\* Steps that touch neither rows nor plans.
LEMMA BookFrame ==
    ASSUME BookInv, UNCHANGED <<rows, rowLock, op, target, candidate, undo, planned, movements>>
    PROVE  BookInv'
<1>1. \A u \in Txn : Holding(u)' <=> Holding(u)
  BY DEF Holding, Idle
<1>2. content' = content /\ posting' = posting
  BY DEF rows
<1>3. ContentsValid'
  BY <1>1, <1>2 DEF BookInv, ContentsValid
<1>4. PlanExplained' /\ NothingPlannedBefore'
  BY <1>1, <1>2 DEF BookInv, PlanExplained, NothingPlannedBefore
<1>5. QED
  BY <1>3, <1>4, BookStays DEF BookInv

LEMMA BookRequest ==
    ASSUME Inv, BookInv, NEW t \in Txn, NEW operation \in Operation, NEW d \in Document,
           Request(t, operation, d)
    PROVE  BookInv'
<1>1. /\ UNCHANGED <<rows, locks, candidate, undo, planned, movements>>
      /\ Idle(t)
      /\ op' = [op EXCEPT ![t] = operation]
      /\ target' = [target EXCEPT ![t] = d]
  BY DEF Request
<1>2. \A e \in Document : rowLock[e] # t
  BY <1>1, LockOwners DEF Inv, RowsOwned
<1>3. ~Holding(t) /\ ~Holding(t)'
  BY <1>1, <1>2 DEF Holding, locks, Inv, TypeOK
<1>4. \A u \in Txn \ {t} : op'[u] = op[u] /\ target'[u] = target[u]
  BY <1>1 DEF Inv, TypeOK
<1>5. \A u \in Txn : Holding(u)' <=> Holding(u)
  BY <1>1, <1>3, <1>4 DEF Holding, Idle, locks
<1>6. content' = content /\ posting' = posting
  BY <1>1 DEF rows
<1>7. ContentsValid'
  BY <1>1, <1>5, <1>6 DEF BookInv, ContentsValid
<1>8. PlanExplained'
  BY <1>1, <1>3, <1>4, <1>5, <1>6 DEF BookInv, PlanExplained
<1>9. NothingPlannedBefore'
  BY <1>1, <1>5 DEF BookInv, NothingPlannedBefore
<1>10. QED
  BY <1>1, <1>7, <1>8, <1>9, BookStays DEF BookInv

LEMMA BookLockDocument ==
    ASSUME Inv, BookInv, NEW t \in Txn, LockDocument(t)
    PROVE  BookInv'
<1> DEFINE d == target[t]
<1>1. /\ d \in Document
      /\ op[t] \in Operation
      /\ posting[d] \in Seq(Movement)
  BY DEF Inv, TargetsKnown, LockDocument, Idle, TypeOK
<1>2. /\ rowLock[d] = NoTxn
      /\ rowLock' = [rowLock EXCEPT ![d] = t]
      /\ UNCHANGED <<rows, op, target, planned, movements>>
      /\ undo' = [undo EXCEPT ![t] = IF op[t] = "post" THEN {} ELSE DOMAIN posting[d]]
  BY DEF LockDocument
<1>3. PICK c \in Candidates(op[t], d) : candidate' = [candidate EXCEPT ![t] = c]
  BY DEF LockDocument
<1>4. ~Holding(t)
  BY <1>2, LockOwners DEF Holding
<1>5. \A u \in Txn \ {t} : /\ Holding(u)' <=> Holding(u)
                           /\ candidate'[u] = candidate[u]
                           /\ undo'[u] = undo[u]
  <2>1. \A u \in Txn \ {t} : Holding(u)' <=> Holding(u)
    BY <1>1, <1>2, LockOwners DEF Holding, Idle, Inv, TypeOK, TargetsKnown
  <2>2. QED
    BY <2>1, <1>2, <1>3 DEF Inv, TypeOK
<1>6. Holding(t)'
  BY <1>1, <1>2 DEF Holding, Idle, LockDocument, Inv, TypeOK
<1>7. content' = content /\ posting' = posting
  BY <1>2 DEF rows
<1>8. ContentsValid'
  <2>1. ValidContent(content[d])
    BY <1>1 DEF BookInv, ContentsValid
  <2>2. ValidContent(WithoutLines(content[d]))
    BY <2>1 DEF ValidContent, WithoutLines
  <2>3. ValidContent(c)
    BY <1>1, <2>1, <2>2, PayloadOK DEF Candidates, Operation
  <2>4. candidate'[t] = c
    BY <1>3 DEF Inv, TypeOK
  <2>5. QED
    BY <1>5, <1>7, <2>3, <2>4 DEF BookInv, ContentsValid
<1>9. movements[t] = <<>> /\ \A k \in Key : planned[t][k] = 0
  BY <1>4 DEF BookInv, NothingPlannedBefore, Inv, NothingReadBefore, PlanLoaded
<1>10. undo'[t] = IF op[t] = "post" THEN {} ELSE DOMAIN posting[d]
  BY <1>2 DEF Inv, TypeOK
<1>11. PlanOf(op[t], posting[d], undo'[t], planned[t], movements[t])
  <2> SUFFICES ASSUME NEW k \in Key
               PROVE  planned[t][k] = Net(movements[t], k) + NetOver(posting[d], k, undo'[t])
                                      - (IF op[t] = "post" THEN 0 ELSE Net(posting[d], k))
    BY <1>9, <1>10 DEF PlanOf
  <2>1. planned[t][k] = 0 /\ Net(movements[t], k) = 0
    BY <1>9, NetNone
  <2>2. CASE op[t] = "post"
    BY <1>10, <2>1, <2>2, NetNone
  <2>3. CASE op[t] # "post"
    <3>1. NetOver(posting[d], k, undo'[t]) = Net(posting[d], k)
      BY <1>10, <2>3 DEF Net
    <3>2. Net(posting[d], k) \in Int
      BY <1>1, NetType
    <3>3. QED
      BY <2>1, <2>3, <3>1, <3>2
  <2>4. QED
    BY <2>2, <2>3
<1>12. PlanExplained'
  <2> SUFFICES ASSUME NEW u \in Txn, Holding(u)'
               PROVE  PlanOf(op[u], posting[target[u]], undo'[u], planned[u], movements[u])
    BY <1>2, <1>7 DEF PlanExplained
  <2>1. QED
    BY <1>5, <1>11 DEF BookInv, PlanExplained
<1>13. NothingPlannedBefore'
  BY <1>2, <1>5, <1>6 DEF BookInv, NothingPlannedBefore
<1>14. QED
  BY <1>2, <1>8, <1>12, <1>13, BookStays DEF BookInv

LEMMA BookUndoMovement ==
    ASSUME Inv, BookInv, NEW t \in Txn, UndoMovement(t)
    PROVE  BookInv'
<1> DEFINE po == posting[target[t]]
<1>1. /\ Ready(t)
      /\ UNCHANGED <<rows, locks, op, target, candidate, movements>>
  BY DEF UndoMovement
<1>2. /\ Holding(t)
      /\ target[t] \in Document
      /\ undo[t] \subseteq DOMAIN po
      /\ po \in Seq(Movement)
  BY <1>1 DEF Ready, Holding, Inv, TargetsKnown, JobsCovered, TypeOK
<1>3. PICK i \in undo[t] :
         /\ undo' = [undo EXCEPT ![t] = @ \ {i}]
         /\ Work(t, Reversal(po[i]))
  BY DEF UndoMovement
<1>4. po[i] \in Movement /\ Reversal(po[i]) \in [Key -> Int]
  BY <1>2, <1>3, ReversalType
<1>5. /\ \A k \in Key : planned'[t][k] = planned[t][k] + Reversal(po[i])[k]
      /\ \A u \in Txn \ {t} : planned'[u] = planned[u]
  BY <1>3, <1>4, WorkType DEF Inv
<1>6. undo'[t] = undo[t] \ {i} /\ \A u \in Txn \ {t} : undo'[u] = undo[u]
  BY <1>3 DEF Inv, TypeOK
<1>7. \A u \in Txn : Holding(u)' <=> Holding(u)
  BY <1>1 DEF Holding, Idle, locks
<1>8. content' = content /\ posting' = posting
  BY <1>1 DEF rows
<1>9. PlanOf(op[t], po, undo[t], planned[t], movements[t])
  BY <1>2 DEF BookInv, PlanExplained
<1>10. op[t] # "post" /\ (op[t] = "cancel" => movements[t] = <<>>)
  BY <1>3, <1>9 DEF PlanOf
<1>11. PlanOf(op[t], po, undo'[t], planned'[t], movements[t])
  <2> SUFFICES ASSUME NEW k \in Key
               PROVE  planned'[t][k] = Net(movements[t], k) + NetOver(po, k, undo'[t])
                                       - (IF op[t] = "post" THEN 0 ELSE Net(po, k))
    BY <1>10 DEF PlanOf
  <2> DEFINE e == IF po[i].key = k THEN po[i].delta ELSE 0
  <2>1. planned[t][k] = Net(movements[t], k) + NetOver(po, k, undo[t]) - Net(po, k)
    BY <1>9, <1>10 DEF PlanOf
  <2>2. NetOver(po, k, undo[t]) = e + NetOver(po, k, undo'[t])
    BY <1>2, <1>3, <1>6, NetTakeOut
  <2>3. e \in Int
    BY <1>4 DEF Movement
  <2>4. Reversal(po[i])[k] = - e
    <3>1. Reversal(po[i])[k] = IF k = po[i].key THEN - po[i].delta ELSE 0
      BY DEF Reversal
    <3>2. QED
      BY <3>1
  <2>5. NetOver(po, k, undo'[t]) \in Int /\ Net(po, k) \in Int
    BY <1>2, <1>6, NetType
  <2>6. Net(movements[t], k) \in Int
    BY NetType DEF Inv, TypeOK
  <2> HIDE DEF e, po
  <2>7. planned'[t][k] = planned[t][k] - e
    BY <1>5, <2>1, <2>2, <2>3, <2>4, <2>5, <2>6
  <2>8. QED
    BY <1>10, <2>1, <2>2, <2>3, <2>5, <2>6, <2>7
<1>12. PlanExplained'
  <2> SUFFICES ASSUME NEW u \in Txn, Holding(u)
               PROVE  PlanOf(op[u], posting[target[u]], undo'[u], planned'[u], movements[u])
    BY <1>1, <1>7, <1>8 DEF PlanExplained
  <2>1. QED
    BY <1>5, <1>6, <1>11 DEF BookInv, PlanExplained
<1>13. ContentsValid'
  BY <1>1, <1>7, <1>8 DEF BookInv, ContentsValid
<1>14. NothingPlannedBefore'
  BY <1>1, <1>7 DEF BookInv, NothingPlannedBefore
<1>15. QED
  BY <1>1, <1>12, <1>13, <1>14, BookStays DEF BookInv

LEMMA BookPlanLine ==
    ASSUME Inv, BookInv, NEW t \in Txn, PlanLine(t)
    PROVE  BookInv'
<1> DEFINE po == posting[target[t]]
<1>1. /\ Planning(t)
      /\ Work(t, LineChange(t))
      /\ movements' = [movements EXCEPT ![t] = @ \o LineMovements(t)]
      /\ UNCHANGED <<rows, locks, op, target, candidate, undo>>
  BY DEF PlanLine
<1>2. /\ Holding(t)
      /\ undo[t] = {}
      /\ cursor[t] <= Len(candidate[t].lines)
  BY <1>1 DEF Planning, Ready
<1>3. /\ candidate[t] \in Content
      /\ op[t] = "cancel" => candidate[t].lines = <<>>
      /\ ValidContent(candidate[t])
      /\ po \in Seq(Movement)
  BY <1>2 DEF Inv, JobsCovered, BookInv, ContentsValid, Holding, TargetsKnown, TypeOK
<1>4. cursor[t] \in DOMAIN candidate[t].lines
  <2>1. candidate[t].lines \in Seq(Line) /\ cursor[t] \in Nat \ {0}
    BY <1>3 DEF Content, Inv, TypeOK
  <2>2. QED
    BY <1>2, <2>1
<1>5. op[t] # "cancel"
  <2>1. candidate[t].lines # <<>>
    BY <1>4
  <2>2. QED
    BY <1>3, <2>1
<1>6. LineChange(t) \in [Key -> Int]
  BY <1>3, <1>4, ChangeType DEF Inv
<1>7. /\ \A k \in Key : planned'[t][k] = planned[t][k] + LineChange(t)[k]
      /\ \A u \in Txn \ {t} : planned'[u] = planned[u]
  BY <1>1, <1>6, WorkType DEF Inv
<1>8. /\ movements'[t] = movements[t] \o LineMovements(t)
      /\ \A u \in Txn \ {t} : movements'[u] = movements[u]
  BY <1>1 DEF Inv, TypeOK
<1>9. \A u \in Txn : Holding(u)' <=> Holding(u)
  BY <1>1 DEF Holding, Idle, locks
<1>10. content' = content /\ posting' = posting
  BY <1>1 DEF rows
<1>11. PlanOf(op[t], po, undo[t], planned[t], movements[t])
  BY <1>2 DEF BookInv, PlanExplained
<1>12. PlanOf(op[t], po, undo[t], planned'[t], movements'[t])
  <2> SUFFICES ASSUME NEW k \in Key
               PROVE  planned'[t][k] = Net(movements'[t], k) + NetOver(po, k, undo[t])
                                       - (IF op[t] = "post" THEN 0 ELSE Net(po, k))
    BY <1>5, <1>11 DEF PlanOf
  <2> DEFINE old == IF op[t] = "post" THEN 0 ELSE Net(po, k)
  <2>1. planned[t][k] = Net(movements[t], k) + NetOver(po, k, undo[t]) - old
    BY <1>11 DEF PlanOf
  <2>2. Net(movements'[t], k) = Net(movements[t], k) + LineChange(t)[k]
    BY <1>3, <1>4, <1>8, NetLine DEF Inv
  <2>3. planned'[t][k] = planned[t][k] + LineChange(t)[k] /\ LineChange(t)[k] \in Int
    BY <1>6, <1>7
  <2>4. old \in Int
    <3>1. Net(po, k) \in Int
      BY <1>3, NetType
    <3>2. QED
      BY <3>1
  <2>5. NetOver(po, k, undo[t]) = 0
    BY <1>2, NetNone
  <2>6. Net(movements[t], k) \in Int
    BY NetType DEF Inv, TypeOK
  <2>7. planned'[t][k] = Net(movements'[t], k) + NetOver(po, k, undo[t]) - old
    <3> HIDE DEF old, po
    <3>1. QED
      BY <2>1, <2>2, <2>3, <2>4, <2>5, <2>6
  <2>8. QED
    BY <2>7
<1>13. PlanExplained'
  <2> SUFFICES ASSUME NEW u \in Txn, Holding(u)
               PROVE  PlanOf(op[u], posting[target[u]], undo[u], planned'[u], movements'[u])
    BY <1>1, <1>9, <1>10 DEF PlanExplained
  <2>1. QED
    BY <1>7, <1>8, <1>12 DEF BookInv, PlanExplained
<1>14. ContentsValid'
  BY <1>1, <1>9, <1>10 DEF BookInv, ContentsValid
<1>15. NothingPlannedBefore'
  BY <1>2, <1>8, <1>9 DEF BookInv, NothingPlannedBefore
<1>16. QED
  BY <1>1, <1>13, <1>14, <1>15, BookStays DEF BookInv

LEMMA BookRollback ==
    ASSUME Inv, BookInv, NEW t \in Txn, Release(t), UNCHANGED rows
    PROVE  BookInv'
<1>1. content' = content /\ posting' = posting
  BY DEF rows
<1>2. /\ movements'[t] = <<>>
      /\ \A u \in Txn \ {t} : movements'[u] = movements[u]
  BY DEF Release, Inv, TypeOK
<1>3. ContentsValid'
  BY <1>1, ReleaseOthers DEF BookInv, ContentsValid
<1>4. PlanExplained'
  <2> SUFFICES ASSUME NEW u \in Txn, u # t, Holding(u)
               PROVE  PlanOf(op'[u], posting'[target'[u]], undo'[u], planned'[u], movements'[u])
    BY ReleaseOthers DEF PlanExplained
  <2>1. QED
    BY <1>1, <1>2, ReleaseOthers DEF BookInv, PlanExplained
<1>5. NothingPlannedBefore'
  BY <1>2, ReleaseOthers DEF BookInv, NothingPlannedBefore
<1>6. QED
  BY <1>3, <1>4, <1>5, BookStays DEF BookInv

\* A commit puts the new movements in the place of the old ones, in the postings
\* and in the balances alike.
LEMMA BookCommit ==
    ASSUME Inv, BookInv, NEW t \in Txn, Commit(t)
    PROVE  BookInv'
<1> DEFINE d == target[t]
<1>1. /\ Holding(t) /\ undo[t] = {} /\ Release(t)
      /\ op[t] \in Operation /\ d \in Document
  BY DEF Commit, Planned, Ready, Holding, Idle, Inv, TypeOK, TargetsKnown
<1>2. \A e \in Document : posting[e] \in Seq(Movement)
  BY DEF Inv, TypeOK
<1>3. movements[t] \in Seq(Movement)
  BY DEF Inv, TypeOK
<1>4. status[d] = IF op[t] = "post" THEN "draft" ELSE "posted"
  BY <1>1 DEF Inv, JobsCovered
<1>5. PlanOf(op[t], posting[d], {}, planned[t], movements[t])
  <2>1. PlanOf(op[t], posting[d], undo[t], planned[t], movements[t])
    BY <1>1 DEF BookInv, PlanExplained
  <2>2. QED
    BY <1>1, <2>1
<1>6. /\ \A e \in Document \ {d} : status'[e] = status[e] /\ posting'[e] = posting[e]
      /\ status'[d] = IF op[t] = "cancel" THEN "cancelled" ELSE "posted"
      /\ posting'[d] = IF op[t] = "cancel" THEN posting[d] ELSE movements[t]
  <2>1. CASE op[t] = "cancel"
    BY <1>1, <2>1 DEF Commit, Inv, TypeOK
  <2>2. CASE op[t] # "cancel"
    BY <1>1, <2>2 DEF Commit, Inv, TypeOK
  <2>3. QED
    BY <2>1, <2>2
<1>7. ContentsValid'
  <2>1. ValidContent(candidate[t])
    BY <1>1 DEF BookInv, ContentsValid
  <2>2. \A e \in Document : content'[e] = content[e] \/ content'[e] = candidate[t]
    <3>1. CASE op[t] = "cancel"
      BY <3>1 DEF Commit
    <3>2. CASE op[t] # "cancel"
      <4>1. content' = [content EXCEPT ![d] = candidate[t]]
        BY <3>2 DEF Commit
      <4>2. content \in [Document -> Content]
        BY DEF Inv, TypeOK
      <4>3. QED
        BY <4>1, <4>2
    <3>3. QED
      BY <3>1, <3>2
  <2>3. \A e \in Document : ValidContent(content'[e])
    BY <2>1, <2>2 DEF BookInv, ContentsValid
  <2>4. \A u \in Txn : Holding(u)' => ValidContent(candidate'[u])
    BY <1>1, ReleaseOthers DEF BookInv, ContentsValid
  <2>5. QED
    BY <2>3, <2>4 DEF ContentsValid
<1>8. /\ movements'[t] = <<>>
      /\ \A u \in Txn \ {t} : movements'[u] = movements[u]
  BY <1>1 DEF Release, Inv, TypeOK
<1>9. PlanExplained'
  <2> SUFFICES ASSUME NEW u \in Txn \ {t}, Holding(u)
               PROVE  PlanOf(op'[u], posting'[target'[u]], undo'[u], planned'[u], movements'[u])
    BY <1>1, ReleaseOthers DEF PlanExplained
  <2>1. /\ op'[u] = op[u] /\ target'[u] = target[u]
        /\ undo'[u] = undo[u] /\ planned'[u] = planned[u]
    BY <1>1, ReleaseOthers
  <2>2. posting'[target[u]] = posting[target[u]]
    BY CommitOthers
  <2>3. QED
    BY <1>8, <2>1, <2>2 DEF BookInv, PlanExplained
<1>10. NothingPlannedBefore'
  BY <1>1, <1>8, ReleaseOthers DEF BookInv, NothingPlannedBefore
<1>11. StockExplained'
  <2> SUFFICES ASSUME NEW k \in Key
               PROVE  balance'[k] = OpeningStock[k] + PostedStock(status', posting', k)
    BY ExplainedBy
  <2> DEFINE old == IF op[t] = "post" THEN 0 ELSE Net(posting[d], k)
             new == IF op[t] = "cancel" THEN 0 ELSE Net(movements[t], k)
             was == PostedStock(status, posting, k)
  <2>1. balance[k] = OpeningStock[k] + was
    BY ExplainedBy DEF BookInv
  <2>2. balance'[k] = balance[k] + planned[t][k]
    BY CommitBooks
  <2>3. planned[t][k] = Net(movements[t], k) + 0 - old
    BY <1>5, NetNone DEF PlanOf
  <2>4. Net(movements[t], k) = new
    BY <1>5, NetNone DEF PlanOf
  <2>5. \A e \in Document : posting'[e] \in Seq(Movement)
    BY <1>2, <1>3, <1>6
  <2>6. PostedStock(status', posting', k)
          = was + Share(status', posting', k)[d] - Share(status, posting, k)[d]
    <3>1. \A e \in Document : posting[e] \in Seq(Movement) /\ posting'[e] \in Seq(Movement)
      BY <1>2, <2>5
    <3>2. d \in Document
      BY <1>1
    <3>3. \A e \in Document \ {d} : status'[e] = status[e] /\ posting'[e] = posting[e]
      BY <1>6
    <3> HIDE DEF d
    <3>4. QED
      BY <3>1, <3>2, <3>3, SharesMoved
  <2>7. Share(status', posting', k)[d] = new /\ Share(status, posting, k)[d] = old
    BY <1>1, <1>4, <1>6 DEF Share
  <2>8. was \in Int /\ old \in Int /\ new \in Int
    <3>1. was \in Int
      BY <1>2, PostedStockType
    <3>2. Net(posting[d], k) \in Int /\ Net(movements[t], k) \in Int
      BY <1>1, <1>2, <1>3, NetType
    <3>3. QED
      BY <3>1, <3>2
  <2>9. OpeningStock[k] \in Int
    BY OpeningOK
  <2> HIDE DEF old, new, was, d
  <2>10. PostedStock(status', posting', k) = was + new - old
    BY <2>6, <2>7
  <2>11. QED
    BY <2>1, <2>2, <2>3, <2>4, <2>8, <2>9, <2>10
<1>12. QED
  BY <1>7, <1>9, <1>10, <1>11 DEF BookInv

LEMMA BookNext == Inv /\ BookInv /\ [Next]_vars => BookInv'
<1> SUFFICES ASSUME Inv, BookInv, [Next]_vars PROVE BookInv'
  OBVIOUS
<1>1. CASE UNCHANGED vars
  BY <1>1, BookFrame DEF vars, locks, locals
<1>2. ASSUME NEW t \in Txn, NEW operation \in Operation, NEW d \in Document,
             Request(t, operation, d)
      PROVE  BookInv'
  BY <1>2, BookRequest
<1>3. ASSUME NEW t \in Txn, LockDocument(t) PROVE BookInv'
  BY <1>3, BookLockDocument
<1>4. ASSUME NEW t \in Txn, LockStockKey(t) PROVE BookInv'
  BY <1>4, BookFrame DEF LockStockKey, locals
<1>5. ASSUME NEW t \in Txn, LoadBalance(t) PROVE BookInv'
  BY <1>5, BookFrame DEF LoadBalance, locks
<1>6. ASSUME NEW t \in Txn, UndoMovement(t) PROVE BookInv'
  BY <1>6, BookUndoMovement
<1>7. ASSUME NEW t \in Txn, PlanLine(t) PROVE BookInv'
  BY <1>7, BookPlanLine
<1>8. ASSUME NEW t \in Txn, Commit(t) PROVE BookInv'
  BY <1>8, BookCommit
<1>9. ASSUME NEW t \in Txn, Refuse(t) \/ Fail(t) \/ Crash(t) PROVE BookInv'
  BY <1>9, BookRollback DEF Refuse, Fail, Crash
<1>10. QED
  BY <1>1, <1>2, <1>3, <1>4, <1>5, <1>6, <1>7, <1>8, <1>9 DEF Next

\* What there is of a product in a warehouse is what there was at first and what
\* the current versions of the posted documents moved: post_document adds its
\* movements once, repost_document replaces them, cancel_document takes them back.
THEOREM StockIsExplained == Spec => []StockExplained
<1>1. BookInv => StockExplained
  BY DEF BookInv
<1>2. QED
  BY <1>1, BookInit, BookNext, InvAlways, PTL DEF Spec
=============================================================================
