------------------------------- MODULE CashBook -------------------------------
(* The cash book: operations dated by the clerk, numbered by the database. A  *)
(* writer takes one advisory lock before it reads anything, judges the whole  *)
(* ledger in the order of dates, and writes one row or cancels rows. Readers  *)
(* take no lock: a page of the book is put together from several statements.  *)
EXTENDS Integers, Sequences, SequencesExt, FiniteSets, FiniteSetsExt

CONSTANTS Session,         \* requests that write
          Day,             \* dates, numbers
          Amount,          \* amounts of money, and targets of corrections
          MaxOperations,   \* bound: rows of the book
          PageSize,        \* limit of a page
          NoSession,
          NoTarget         \* target_balance is NULL

ASSUME Dates == Day \subseteq Int /\ IsFiniteSet(Day)
ASSUME Sums == Amount \subseteq Nat
ASSUME LockOwners == NoSession \notin Session
ASSUME RowBound == MaxOperations \in Nat \ {0}
ASSUME Limit == PageSize \in Nat \ {0}

VARIABLES book,            \* cash_operations; the index of a row is its id
          cashLock,        \* who holds pg_advisory_xact_lock(CASH_LOCK_KEY)
          writer,          \* writer[s] : whether s is writing, and the rows it has read
          page             \* the reader of the book, and what it has read

vars == <<book, cashLock, writer, page>>
-----------------------------------------------------------------------------
Type == {"cash_in", "cash_out", "correction"}
Operation == [day : Day, type : Type, direction : {"in", "out", "correction"},
              status : {"posted", "cancelled"}, amount : Nat,
              target : Amount \cup {NoTarget},
              payment : BOOLEAN]   \* whether a payment booked it (one payment does)

\* What a row adds to the balance (a correction without direction is a row of
\* the time when corrections were signed amounts).
BalanceEffect(o) ==
  IF o.status = "cancelled" THEN 0
  ELSE IF \/ o.type = "cash_out"
          \/ o.type = "correction" /\ o.direction = "out"
       THEN - o.amount ELSE o.amount

\* The same in SQL, where a balance is a sum over rows.
CashEffect(o) ==
  CASE o.status = "cancelled" -> 0
    [] o.status = "posted" /\ o.type = "cash_in" -> o.amount
    [] o.status = "posted" /\ o.type = "cash_out" -> - o.amount
    [] o.status = "posted" /\ o.type = "correction" ->
         IF o.direction = "out" THEN - o.amount ELSE o.amount

Balance(ids, rows) == SumFunctionOnSet([i \in DOMAIN rows |-> CashEffect(rows[i])], ids)
CashBalance(rows) == Balance(DOMAIN rows, rows)

\* Ids in the order of the ledger: by date, by id within a date.
Earlier(rows, i, j) ==
  rows[i].day < rows[j].day \/ (rows[i].day = rows[j].day /\ i < j)
UpTo(rows, i) == {j \in DOMAIN rows : j = i \/ Earlier(rows, j, i)}
\* The k-th row of the book is the one that has k rows up to it.
BookOrder(rows) ==
  [k \in DOMAIN rows |-> CHOOSE i \in DOMAIN rows : Cardinality(UpTo(rows, i)) = k]

\* The balance after a row, worked out row by row.
RunningBalance(rows, i) ==
  SumFunctionOnSet([j \in DOMAIN rows |-> BalanceEffect(rows[j])], UpTo(rows, i))

\* get_cash_book: every row with the balance after it.
Rows(rows) ==
  LET order == BookOrder(rows)
  IN  [k \in DOMAIN order |-> <<order[k], RunningBalance(rows, order[k])>>]

\* The balance of the dashboard adds up effects of its own.
DashboardEffect(o) ==
  CASE o.status = "cancelled" -> 0
    [] o.status = "posted" /\ o.type = "cash_in" -> o.amount
    [] o.status = "posted" /\ o.type = "cash_out" -> - o.amount
    [] o.status = "posted" /\ o.type = "correction" /\ o.direction = "out" -> - o.amount
    [] o.status = "posted" /\ o.type = "correction" /\ o.direction # "out" -> o.amount
DashboardBalance(rows) == MapThenSumSet(LAMBDA i : DashboardEffect(rows[i]), DOMAIN rows)

\* And so does the report, in the order of the book; it looks at no direction.
ReportEffect(o) ==
  IF o.status = "cancelled" THEN 0 ELSE IF o.type = "cash_out" THEN - o.amount ELSE o.amount
CashBookReport(rows) ==
  LET order == BookOrder(rows)
  IN  [k \in DOMAIN order |->
         <<order[k], MapThenSumSet(LAMBDA j : ReportEffect(rows[j]), UpTo(rows, order[k]))>>]

\* Only today's balance is looked at.
NonnegativeToday(rows) == CashBalance(rows) >= 0
\* The balance after each posted row is not negative.
Nonnegative(rows) ==
  \A i \in DOMAIN rows : rows[i].status = "posted" => RunningBalance(rows, i) >= 0
-----------------------------------------------------------------------------
Resting == [active |-> FALSE, seen |-> <<>>]
NoPage == [pc |-> "start", offset |-> 0, balance |-> 0, newest |-> 0, rows |-> <<>>,
           opening |-> 0, closing |-> 0]
\* Something was committed between the statements: what the page shows mixes two
\* books, and the model forgets it.
Torn == [NoPage EXCEPT !.pc = "torn"]

TypeOK ==
  /\ book \in Seq(Operation) /\ Len(book) <= MaxOperations
  /\ cashLock \in Session \cup {NoSession}
  /\ writer \in [Session -> [active : BOOLEAN, seen : Seq(Operation)]]
  /\ page.pc \in {"start", "rows", "closing", "done", "torn"} /\ page.balance \in Int

\* A row of before the corrections had a target: it counts with its sign as it is.
Legacy(d, n) == [day |-> d, type |-> "correction", direction |-> "correction",
                 status |-> "posted", amount |-> n, target |-> NoTarget, payment |-> FALSE]
Init ==
  /\ book \in {<<>>} \cup {<<Legacy(d, n)>> : d \in Day, n \in Amount}
  /\ cashLock = NoSession
  /\ writer = [s \in Session |-> Resting]
  /\ page = NoPage

\* The rows are read without the lock.
BeginUnlocked(s) ==
  /\ ~ writer[s].active
  /\ writer' = [writer EXCEPT ![s] = [active |-> TRUE, seen |-> book]]
  /\ UNCHANGED <<book, cashLock, page>>

\* Every writer: the lock first, then all the rows. It is held to the end of the
\* transaction.
Begin(s) ==
  /\ cashLock = NoSession
  /\ cashLock' = s
  /\ writer' = [writer EXCEPT ![s] = [active |-> TRUE, seen |-> book]]
  /\ UNCHANGED <<book, page>>

\* Commit or rollback of s.
Release(s) ==
  /\ cashLock' = IF cashLock = s THEN NoSession ELSE cashLock
  /\ writer' = [writer EXCEPT ![s] = Resting]

Commit(s, rows) ==
  /\ book' = rows
  /\ page' = IF page.pc = "start" THEN page ELSE Torn
  /\ Release(s)

Seen(s) == writer[s].seen

\* A new row: judged as the last of its day, where its id will put it.
Create(s, o) ==
  /\ writer[s].active /\ Len(book) < MaxOperations
  /\ Nonnegative(Append(Seen(s), o))
  /\ Commit(s, Append(book, o))

Booked(s) == \E i \in DOMAIN Seen(s) : Seen(s)[i].payment   \* the payment is posted once
CashOperation(s) ==
  \E d \in Day, n \in Amount \ {0}, type \in {"cash_in", "cash_out"}, p \in {FALSE, ~ Booked(s)} :
    Create(s, [day |-> d, type |-> type,
               direction |-> IF type = "cash_in" THEN "in" ELSE "out",
               status |-> "posted", amount |-> n, target |-> NoTarget, payment |-> p])

\* The balance on the day of the correction counts, as a clerk would expect.
DifferenceOfDay(rows, target, d) ==
  target - Balance({i \in DOMAIN rows : rows[i].day <= d}, rows)
\* A correction brings the whole balance to its target, whatever its date.
Difference(rows, target, d) == target - CashBalance(rows)

\* Mutant of Corrected: the difference is recorded with its sign, as it once was.
CorrectedSigned(rows, target, d) ==
  LET x == Difference(rows, target, d)
  IN  [day |-> d, type |-> "correction", direction |-> "correction", status |-> "posted",
       amount |-> x, target |-> target, payment |-> FALSE]
Corrected(rows, target, d) ==
  LET x == Difference(rows, target, d)
  IN  [day |-> d, type |-> "correction",
       direction |-> IF x > 0 THEN "in" ELSE IF x < 0 THEN "out" ELSE "correction",
       status |-> "posted", amount |-> IF x < 0 THEN - x ELSE x,
       target |-> target, payment |-> FALSE]
Correction(s) ==
  \E d \in Day, target \in Amount : Create(s, Corrected(Seen(s), target, d))

\* The rows as they are when those of ids are cancelled.
Without(rows, ids) ==
  [i \in DOMAIN rows |-> IF i \in ids THEN [rows[i] EXCEPT !.status = "cancelled"] ELSE rows[i]]

\* An operation is cancelled by its id; one of a payment too.
CancelOperation(s) ==
  \E i \in DOMAIN Seen(s) :
    /\ writer[s].active /\ Seen(s)[i].status = "posted"
    /\ Nonnegative(Without(Seen(s), {i}))
    /\ Commit(s, Without(book, {i}))

\* A payment is cancelled, and with it all it has booked.
CancelPaymentOperations(s) ==
  LET posted == {i \in DOMAIN Seen(s) : Seen(s)[i].payment /\ Seen(s)[i].status = "posted"}
  IN  /\ writer[s].active /\ posted # {}
      /\ Nonnegative(Without(Seen(s), posted))
      /\ Commit(s, Without(book, posted))

\* Refused, or the connection is lost: rollback.
Rollback(s) == writer[s].active /\ Release(s) /\ UNCHANGED <<book, page>>
-----------------------------------------------------------------------------
\* get_cash_book_page: the balance, then the newest rows, then the balance up to
\* the newest of them: three statements, three snapshots.
ReadBalance(offset) ==
  /\ page.pc = "start"
  /\ page' = [NoPage EXCEPT !.pc = "rows", !.offset = offset, !.balance = CashBalance(book)]
  /\ UNCHANGED <<book, cashLock, writer>>

ReadRows ==
  /\ page.pc = "rows"
  /\ LET newest == Reverse(BookOrder(book))
         ids == SubSeq(newest, page.offset + 1, Min({page.offset + PageSize, Len(newest)}))
     IN  page' = [page EXCEPT
                    !.pc = IF ids = <<>> THEN "start" ELSE "closing",
                    !.newest = IF ids = <<>> THEN 0 ELSE ids[1],
                    !.rows = [k \in DOMAIN ids |-> <<ids[k], BalanceEffect(book[ids[k]])>>]]
  /\ UNCHANGED <<book, cashLock, writer>>

\* The closing balance of a first page is today's.
AlwaysToday(offset) == TRUE
\* Only the first page closes with today's balance.
FirstPage(offset) == offset = 0

\* Going back from the closing balance, row by row.
After(rows, closing, k) ==
  closing - FoldLeft(LAMBDA x, row : x + row[2], 0, SubSeq(rows, 1, k))
ReadClosing ==
  /\ page.pc = "closing"
  /\ LET closing == IF FirstPage(page.offset) THEN page.balance
                    ELSE Balance(UpTo(book, page.newest), book)
     IN  page' = [page EXCEPT
                    !.pc = "done", !.closing = closing,
                    !.opening = After(page.rows, closing, Len(page.rows)),
                    !.rows = [k \in DOMAIN page.rows |->
                                <<page.rows[k][1], After(page.rows, closing, k - 1)>>]]
  /\ UNCHANGED <<book, cashLock, writer>>

Answered == page.pc \in {"done", "torn"} /\ page' = NoPage /\ UNCHANGED <<book, cashLock, writer>>

Next ==
  \/ \E s \in Session : \/ Begin(s) \/ CashOperation(s) \/ Correction(s)
                        \/ CancelOperation(s) \/ CancelPaymentOperations(s) \/ Rollback(s)
  \/ \E offset \in 0 .. MaxOperations - 1 : ReadBalance(offset)
  \/ ReadRows \/ ReadClosing \/ Answered

Spec == Init /\ [][Next]_vars
-----------------------------------------------------------------------------
\* Whatever is booked, backdated, corrected or cancelled, by one clerk or by two
\* at once: at no point of the book, in the order of dates, was the desk in debt.
NeverInDebt ==
  \A i \in DOMAIN book : Balance(UpTo(book, i), book) >= 0

\* When a correction is committed the desk holds exactly its target, whatever
\* its date and also when another clerk was booking at the same time.
CorrectionHitsTarget ==
  [][\A i \in DOMAIN book' \ DOMAIN book :
       book'[i].target # NoTarget => CashBalance(book') = book'[i].target]_vars

\* A page nobody disturbed shows the rows and the running balances of the whole
\* book, whether the page is the first or not, its opening balance is the balance
\* before its oldest row, and the dashboard shows the balance the page shows.
PageAgreesWithBook ==
  page.pc = "done" =>
    LET all == Rows(book)
        \* k-th newest row of the page, as a row of the whole book
        row(k) == all[Len(all) + 1 - (page.offset + k)]
    IN  /\ page.balance = DashboardBalance(book)
        /\ \A k \in DOMAIN page.rows : page.rows[k] = row(k)
        /\ page.opening = row(Len(page.rows))[2] - BalanceEffect(book[row(Len(page.rows))[1]])

\* The report of the cash book shows the balances the cash book shows: a
\* correction is the recorded difference to the counted money in both.
ReportAgreesWithBook == CashBookReport(book) = Rows(book)

\* The desk as an abstract ledger: the turnover of a day is the sum of its rows.
Ledger == INSTANCE CashLedger WITH
  Day <- Day,
  turnover <- [d \in Day |-> Balance({i \in DOMAIN book : book[i].day = d}, book)]

\* Every commit of the book is a move of the abstract ledger that leaves every
\* day solvent: no row is counted twice, none under another day.
IsCashLedger == Ledger!Spec
=============================================================================
