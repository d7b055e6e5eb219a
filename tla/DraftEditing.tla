----------------------------- MODULE DraftEditing -----------------------------
(***************************************************************************)
(* Editing a draft document while others edit, post or delete it           *)
(* (services/documents_service.py).                                        *)
(*                                                                         *)
(* An edit reads the document with plain SELECTs, checks that it is a      *)
(* draft, changes the objects of its session and commits: SQLAlchemy then  *)
(* writes only the columns that differ from what was read.  Nothing is     *)
(* locked in between, so what an edit writes may rest on rows that have    *)
(* changed.  Posting alone locks the document row.  Foreign keys are the   *)
(* other safeguard: INSERT of a line shares the document row's key, which  *)
(* excludes posting and deleting, and the movements of a posted document   *)
(* keep it from being deleted.                                             *)
(*                                                                         *)
(* One incoming document is modelled: its rate, its lines with quantity,   *)
(* price in the document's currency, price and amount in roubles, and its  *)
(* total.                                                                  *)
(***************************************************************************)
EXTENDS Integers, FiniteSetsExt

CONSTANTS Txn,      \* request handlers
          NoTxn,    \* the owner of a free lock
          MaxLine,  \* bound on the lines ever added
          Quantity, \* quantities of a line
          Price,    \* prices of one unit, in either currency
          Rate,     \* exchange rates
          Request   \* what users ask for

LineId    == 1 .. MaxLine
Null      == -1   \* foreign_price is NULL
Unset     == -2   \* a field the request leaves out
LineRow   == [quantity : Quantity, price : Nat, foreign : Nat \cup {Null}, amount : Nat]
NoLine    == [quantity |-> 0, price |-> 0, foreign |-> Null, amount |-> 0]
Contents  == [LineId -> LineRow \cup {NoLine}]

\* The line of a new one is 1 in the request and known only after its INSERT.
RequestType ==
    [op : {"add"}, line : LineId, quantity : Quantity, price : Price,
     foreign : Price \cup {Null}]
      \cup [op : {"update"}, line : LineId, quantity : Quantity \cup {Unset},
            price : Price \cup {Unset}, foreign : Price \cup {Null, Unset}]
      \cup [op : {"delete_line"}, line : LineId]
      \cup [op : {"header"}, line : {1}, rate : Rate \cup {Unset}]
      \cup [op : {"post", "delete"}, line : {1}]

\* A request with the document as its session has read it.
Session   == [pc : {"lines", "change", "flushed"}, request : RequestType,
              rate : Rate, total : Nat, lines : Contents]
Closed    == [pc |-> "closed"]

ASSUME Nobody == NoTxn \notin Txn
ASSUME Amounts == /\ Quantity \subseteq Nat \ {0} /\ Price \subseteq Nat
                  /\ Rate \subseteq Nat \ {0}
ASSUME Requests == Request \subseteq RequestType
ASSUME LineBound == MaxLine \in Nat \ {0}

VARIABLES
    status,   \* documents.status, "deleted" when the row is gone
    rate,     \* documents.exchange_rate
    total,    \* documents.total_amount
    lines,    \* document_lines
    lastLine, \* the sequence of document_lines.id
    moved,    \* the lines posting wrote stock movements for
    rowLock,  \* the transaction that holds the document row FOR UPDATE
    session,  \* what the handlers keep
    raced     \* history: a request committed on rows that had changed since it read them

rows == <<status, rate, total, lines, lastLine, moved>>
vars == <<rows, rowLock, session, raced>>

Present(c) == {l \in LineId : c[l] # NoLine}
Sum(c)     == SumFunctionOnSet([l \in LineId |-> c[l].amount], Present(c))

TypeOK ==
    /\ status \in {"draft", "posted", "deleted"}
    /\ rate \in Rate
    /\ total \in Nat
    /\ lines \in Contents
    /\ lastLine \in 0 .. MaxLine
    /\ moved \in Contents
    /\ rowLock \in Txn \cup {NoTxn}
    /\ session \in [Txn -> Session \cup {Closed}]
    /\ raced \in BOOLEAN

Init ==
    /\ status = "draft"
    /\ rate \in Rate
    /\ total = 0
    /\ lines = [l \in LineId |-> NoLine]
    /\ lastLine = 0
    /\ moved = [l \in LineId |-> NoLine]
    /\ rowLock = NoTxn
    /\ session = [t \in Txn |-> Closed]
    /\ raced = FALSE
-----------------------------------------------------------------------------
(* Helpers *)

At(t, place)   == session[t].pc = place
Doing(t, S)    == ~At(t, "closed") /\ session[t].request.op \in S
Line(t)        == session[t].request.line
Given(field, now) == IF field = Unset THEN now ELSE field

\* An INSERT of a line that is not committed yet: it holds the document row FOR KEY
\* SHARE.  A DELETE of a line that is not committed yet: it holds the line.
Inserted(t) == Doing(t, {"add"}) /\ At(t, "flushed")
Removed(t)  == Doing(t, {"delete_line"}) /\ At(t, "flushed")

\* No other transaction's lock keeps this one from FOR UPDATE, or from deleting the
\* row; a plain UPDATE of the total waits for FOR UPDATE only.
Exclusive(t) == rowLock \in {t, NoTxn} /\ \A other \in Txn \ {t} : ~Inserted(other)
Writable(t)  == rowLock \in {t, NoTxn}

\* The price that counts: the foreign one, if there is one; _base_price in roubles.
Counts(price, foreign)  == IF foreign = Null THEN price ELSE foreign
Base(price, foreign, r) == Counts(price, foreign) * r

\* add_document_line: a line given only a price keeps no foreign price.
NewLine(q, r) ==
    [quantity |-> q.quantity, price |-> Base(q.price, q.foreign, r), foreign |-> q.foreign,
     amount |-> q.quantity * Base(q.price, q.foreign, r)]

\* update_document_line: the fields of the request, then Revalued.
Asked(line, q) ==
    [quantity |-> Given(q.quantity, line.quantity), price |-> Given(q.price, line.price),
     foreign |-> Given(q.foreign, line.foreign), amount |-> line.amount]

\* Mutant of Revalued: the price in roubles is converted, not the foreign one.
RevaluedFromPrice(line, r) ==
    [quantity |-> line.quantity, price |-> line.price * r,
     foreign |-> Counts(line.price, line.foreign), amount |-> line.quantity * line.price * r]

\* What every edit of a line or of the header leaves of a line: without a foreign
\* price, the price in roubles is taken for it and converted (again).
Revalued(line, r) ==
    [quantity |-> line.quantity, price |-> Base(line.price, line.foreign, r),
     foreign |-> Counts(line.price, line.foreign),
     amount |-> line.quantity * Base(line.price, line.foreign, r)]

NewRate(t) == IF Doing(t, {"header"}) THEN Given(session[t].request.rate, session[t].rate)
              ELSE session[t].rate

\* The lines as the operation leaves them in its session.
Changed(t) ==
    LET s == session[t]  q == s.request IN
    CASE q.op = "add"         -> [s.lines EXCEPT ![Line(t)] = NewLine(q, s.rate)]
      [] q.op = "update"      -> [s.lines EXCEPT ![Line(t)] = Revalued(Asked(@, q), s.rate)]
      [] q.op = "delete_line" -> [s.lines EXCEPT ![Line(t)] = NoLine]
      [] q.op = "header"      -> [l \in LineId |-> IF s.lines[l] = NoLine THEN NoLine
                                                   ELSE Revalued(s.lines[l], NewRate(t))]

\* Mutant of NewTotal: the total is adjusted by the line that comes or goes.
NewTotalByDifference(t) ==
    CASE Doing(t, {"add"})         -> session[t].total + Changed(t)[Line(t)].amount
      [] Doing(t, {"delete_line"}) -> session[t].total - lines[Line(t)].amount
      [] OTHER                     -> Sum(Changed(t))

\* _recalculate_total: the sum of the lines in the session.
NewTotal(t) == Sum(Changed(t))

\* The lines whose row an UPDATE statement is issued for, and what it leaves:
\* columns the session did not change keep the value in the table.
Touched(t) == {l \in Present(session[t].lines) \cap Present(Changed(t)) :
                 Changed(t)[l] # session[t].lines[l]}
Merge(now, read, new) == IF new = read THEN now ELSE new
MergedLine(t, l) ==
    LET read == session[t].lines[l]  new == Changed(t)[l] IN
    [column \in DOMAIN NoLine |-> Merge(lines[l][column], read[column], new[column])]

\* UPDATE document_lines finds every row it is for.
RowsThere(t) == Touched(t) \subseteq Present(lines)

\* The statement waits for an uncommitted DELETE of one of its rows.
LinesFree(t) ==
    \A other \in Txn \ {t} : Removed(other) => Line(other) \notin Touched(t)

Close(t) ==
    /\ session' = [session EXCEPT ![t] = Closed]
    /\ rowLock' = IF rowLock = t THEN NoTxn ELSE rowLock

\* Somebody else has changed what the session of t read.
Overtaken(t) ==
    \/ status # "draft"
    \/ rate # session[t].rate
    \/ total # session[t].total
    \/ \E l \in LineId : lines[l] # session[t].lines[l] /\ ~(Removed(t) /\ l = Line(t))
-----------------------------------------------------------------------------
(* The requests, statement by statement *)

\* Mutant of ReadDocument: posting reads its document without FOR UPDATE.
ReadDocumentUnlocked(t, request) ==
    /\ At(t, "closed")
    /\ status = "draft"
    /\ session' = [session EXCEPT ![t] = [pc |-> "lines", request |-> request,
                                         rate |-> rate, total |-> total,
                                         lines |-> [l \in LineId |-> NoLine]]]
    /\ UNCHANGED <<rows, rowLock, raced>>

\* A request arrives: _load_document, its first SELECT, and the check of the status.
\* A document that is not a draft is refused, 404 or 409, and nothing happens.
ReadDocument(t, request) ==
    /\ At(t, "closed")
    /\ status = "draft"
    /\ IF request.op = "post"
       THEN Exclusive(t) /\ rowLock' = t
       ELSE UNCHANGED rowLock
    /\ session' = [session EXCEPT ![t] = [pc |-> "lines", request |-> request,
                                         rate |-> rate, total |-> total,
                                         lines |-> [l \in LineId |-> NoLine]]]
    /\ UNCHANGED <<rows, raced>>

\* The SELECT of the lines that follows it.
ReadLines(t) ==
    /\ At(t, "lines")
    /\ session' = [session EXCEPT ![t].pc = "change", ![t].lines = lines]
    /\ UNCHANGED <<rows, rowLock, raced>>

\* Mutant of Insert: the line has no foreign key that looks for its document.
InsertUnchecked(t) ==
    /\ Doing(t, {"add"}) /\ At(t, "change")
    /\ Writable(t)
    /\ lastLine < MaxLine
    /\ lastLine' = lastLine + 1
    /\ session' = [session EXCEPT ![t].pc = "flushed", ![t].request.line = lastLine + 1]
    /\ UNCHANGED <<status, rate, total, lines, moved, rowLock, raced>>

\* add_document_line flushes: INSERT, while the document still exists.
Insert(t) ==
    /\ Doing(t, {"add"}) /\ At(t, "change")
    /\ status # "deleted"
    /\ Writable(t)
    /\ lastLine < MaxLine
    /\ lastLine' = lastLine + 1
    /\ session' = [session EXCEPT ![t].pc = "flushed", ![t].request.line = lastLine + 1]
    /\ UNCHANGED <<status, rate, total, lines, moved, rowLock, raced>>

\* delete_document_line flushes, DELETE, and db.refresh reads the document again.  A
\* row that is already gone is not an error.
Remove(t) ==
    /\ Doing(t, {"delete_line"}) /\ At(t, "change")
    /\ Line(t) \in Present(session[t].lines)
    /\ status # "deleted"
    /\ \A other \in Txn \ {t} : ~(Removed(other) /\ Line(other) = Line(t))
    /\ session' = [session EXCEPT ![t].pc = "flushed", ![t].rate = rate, ![t].total = total,
                                  ![t].lines = [lines EXCEPT ![Line(t)] = NoLine]]
    /\ UNCHANGED <<rows, rowLock, raced>>

\* The session of an edit holds what it is going to write.
Edited(t) ==
    \/ Inserted(t)
    \/ Removed(t)
    \/ Doing(t, {"header"}) /\ At(t, "change")
    \/ Doing(t, {"update"}) /\ At(t, "change") /\ Line(t) \in Present(session[t].lines)

\* COMMIT of an edit: UPDATE documents if the total or the rate is another than was
\* read, then the lines.
CommitEdit(t) ==
    LET newTotal == NewTotal(t) IN
    /\ Edited(t)
    /\ <<NewRate(t), newTotal>> # <<session[t].rate, session[t].total>>
         => Writable(t) /\ status # "deleted"
    /\ RowsThere(t) /\ LinesFree(t)
    /\ rate' = Merge(rate, session[t].rate, NewRate(t))
    /\ total' = Merge(total, session[t].total, newTotal)
    /\ lines' = [l \in LineId |->
                   IF l = Line(t) /\ Inserted(t) THEN Changed(t)[l]
                   ELSE IF l = Line(t) /\ Removed(t) THEN NoLine
                   ELSE IF l \in Touched(t) THEN MergedLine(t, l) ELSE lines[l]]
    /\ raced' = (raced \/ Overtaken(t))
    /\ Close(t)
    /\ UNCHANGED <<status, lastLine, moved>>

\* post_document, from its lines on: StockPosting has the steps it takes on stock.
CommitPost(t) ==
    /\ Doing(t, {"post"}) /\ At(t, "change")
    /\ Present(session[t].lines) # {}
    /\ status' = "posted"
    /\ moved' = session[t].lines
    /\ raced' = (raced \/ Overtaken(t))
    /\ Close(t)
    /\ UNCHANGED <<rate, total, lines, lastLine>>

\* Mutant of Deletable: no foreign key from the movements.
DeletableAlways == TRUE

\* The rows of the movements refer to the document and stop its DELETE.
Deletable == status # "posted"

\* delete_draft_document: the lines go with the document.
CommitDelete(t) ==
    /\ Doing(t, {"delete"}) /\ At(t, "change")
    /\ Exclusive(t)
    /\ Deletable
    /\ \A other \in Txn \ {t} : ~Removed(other)
    /\ status' = "deleted"
    /\ total' = 0
    /\ lines' = [l \in LineId |-> NoLine]
    /\ raced' = (raced \/ Overtaken(t))
    /\ Close(t)
    /\ UNCHANGED <<rate, lastLine, moved>>

\* The end without a trace: 404, 409, 422, an IntegrityError of a foreign key, a
\* StaleDataError, the bound on lines, or a lost worker.
Abandon(t) ==
    /\ ~At(t, "closed")
    /\ Close(t)
    /\ UNCHANGED <<rows, raced>>

Next ==
    \E t \in Txn :
        \/ \E request \in Request : ReadDocument(t, request)
        \/ ReadLines(t)
        \/ Insert(t)
        \/ Remove(t)
        \/ CommitEdit(t)
        \/ CommitPost(t)
        \/ CommitDelete(t)
        \/ Abandon(t)

Spec == Init /\ [][Next]_vars
-----------------------------------------------------------------------------
(* Correctness *)

\* "Posted documents cannot be updated or deleted": once posted, neither the lines
\* nor the rate nor the total change.
PostedReadOnly ==
    [][status = "posted" => UNCHANGED <<status, rate, total, lines>>]_vars

\* "Total amount is recalculated after line changes": the total is the sum of the
\* lines whenever a transaction has committed.
TotalIsSum == total = Sum(lines)

\* Only overlapping requests can do harm: as long as every request found at its
\* commit what it had read, the total is the sum of the lines, every amount is that of
\* quantity and price, the price of a line that has a foreign price follows from it at
\* the document's rate, and a posted document has exactly the lines that were moved.  A
\* line that was given only a price is the exception: it has no foreign price until its
\* next edit makes one of the price in roubles.
SerialEditsAreSound ==
    ~raced =>
      /\ total = Sum(lines)
      /\ \A l \in Present(lines) :
           /\ lines[l].amount = lines[l].quantity * lines[l].price
           /\ lines[l].foreign # Null => lines[l].price = lines[l].foreign * rate
      /\ status = "posted" => lines = moved

\* A posted document is never deleted, although the request to delete it found a
\* draft: its movements hold it.
PostedStays == [][status = "posted" => status' = "posted"]_vars

\* No line outlives its document, not even one that was being inserted while the
\* document was deleted.
NoOrphanLines == status = "deleted" => Present(lines) = {}

\* Posting moves every line there is: a line cannot arrive between posting's read of
\* the lines and its commit.
PostingMissesNoLine ==
    [][status = "draft" /\ status' = "posted" => Present(lines') \subseteq Present(moved')]_vars
=============================================================================
