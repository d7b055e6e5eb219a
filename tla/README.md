# Formal models of buy-modern

TLA+ models of the accounting and warehouse back end in `src/backend/app` (FastAPI,
SQLAlchemy, PostgreSQL), the TLC runs that check them, and theorems about them that
TLAPS checks. `PROJECT.json` says which definition models which lines, which properties
each run checks, and which known hazards are still without a property.

## 1. The system

| Part | State it keeps | Operations that change it | What is hard |
|---|---|---|---|
| Stock documents (`documents_service.py`) | `documents` (status, posting version, header, total), `document_lines`, `stock_movements`, `stock_balances`, revisions | create; edit lines and header; delete a draft; post; repost (correct); cancel | several requests on one document or on one product; locks; all-or-nothing; order of movements |
| Document numbers (same file) | `document_number_sequences` | generate, reserve | numbers typed by hand, rollbacks, a circle of waiting |
| Warehouse tasks (`logistics_service.py`) | `warehouse_tasks`, their lines and events | published by post and repost, withdrawn by repost and cancel; start, confirm, return | workers and managers act on the same tasks in any order; two lock orders |
| Payments (`payments_service.py`) | `payments`, `payment_allocations` | create, edit, delete, post, reallocate, cancel | what is still owed is a sum over other payments; documents change meanwhile |
| Cash book (`cash_service.py`) | `cash_operations` | create, correct, cancel; from payments | never negative on any date; pages put together from several statements |
| Import (`import_service.py`) | writes products, groups, partners, warehouses, balances, documents | validate, apply | goes around the services' locks; files sent twice; rows that refer to rows before them |
| Users and login (`auth.py`, `deps.py`, `users_service.py`) | attempts, lock-out, token version, roles, warehouses | login, logout, change of password, create, update | locks that expire; columns read and written without locks |
| Directory (`directory_service.py`) | groups, cards, and the rows that refer to them | create, update, delete | the tree of groups; deletions that are checked first and done later |
| Currencies, sale prices, units | rows | create, update | none |
| Reports and dashboard (`reports_service.py`, `dashboard_service.py`, parts of `payments_service.py`) | none | none | one figure worked out in several ways |
| Exports, print forms, audit list | none | none | none |
| Migrations and first start (`alembic/versions`, `bootstrap_admin.py`) | the whole database | upgrade; create roles and the administrator | rows made out of older rows that lack what the program takes for granted |
| Legacy reader (`tools/interbase`) | index of pages, columns of tables | scan, page through a table | rows and blobs in pieces among free slots and old versions |
| Backups (`scripts/*.sh`) | files | dump, checksum, retention, off-site copy | stop between two steps |
| Configuration, metrics, web client | what one page shows | one request after another | none of their own |

The parts interact through the database. A request runs in one thread with one session,
which is one transaction at READ COMMITTED (`db/session.py`: no autoflush, objects do not
expire on commit). Functions call each other inside the transaction: `post_document`,
`repost_document` and `cancel_document` call the task functions; `post_payment` and
`cancel_payment` call the cash functions; cancelling and correcting a document look at
the payments allocated to it. What keeps requests apart is: `SELECT ... FOR UPDATE` of a
document, payment or task row; one advisory lock per (product, warehouse) pair, taken in
sorted order; one advisory lock for the cash book; foreign keys, which lock the row they
refer to; and unique and check constraints. The models are about what these safeguards
do and do not achieve, because that is what the unit tests, which run one request at a
time, do not reach.

What makes each part correct: stock is the sum of its movements, is never negative, and
is explained by the posted documents; a posted document is not edited; its total is the
sum of its lines; tasks that are open belong to the current version; goods are received
after they were sent; what is allocated to a document never exceeds its total; the cash
book is never negative on any date; a generated number is new; an import is applied as a
whole and once; an account is locked when it should be and its tokens end when they should;
groups form a tree and nothing refers to a deleted card; reports agree with each other; an
upgraded database has what the program takes for granted; the legacy browser shows every row
once; every request ends. Where the code falls short of one of these, §3 says in which cases.

## 2. The modules

    StockLedger          abstract: post, correct, cancel as one step each
      ^ implemented by
    StockPosting         the same three as interleaved transactions
      MCStockPosting     instances for TLC
      StockPostingProofs theorems
    WarehouseTasks       tasks and the task ends of the three operations
      MCWarehouseTasks, WarehouseTasksProofs
    DraftEditing         edits of a draft against posting and deleting
      MCDraftEditing, DraftEditingProofs
    Payments             payments, their allocations and cash rows, and the documents
      MCPayments, PaymentsProofs
    CashLedger           abstract: turnovers of days, never a debt
      ^ implemented by
    CashBook             rows, the cash lock, readers of the book
      MCCashBook, CashBookProofs
    DocumentNumbers      sequences, typed numbers, the unique constraint
      MCRequests, DocumentNumbersProofs
    Accounts             login, tokens, edits of users
    BulkImport           validation and application of files
    Directory            groups, cards, references to them
    Reports              one reader of all figures of a partner
    Upgrade              migrations 0006 to 0013 and the first start
    LegacyReader         the InterBase file and its browser
    BackOffice           these six: Accounts extended, the others as instances
      MCBackOffice, BackOfficeProofs

    SumLemmas            facts about finite sums, for the proof modules
    MCRequests           DocumentNumbers for TLC; and do the requests of StockPosting,
                         WarehouseTasks and DocumentNumbers end?

### StockPosting

One handler (`Txn`) per open request. Its local variables are the variables of the Python
functions: `target` (the document), `candidate` (what is being applied: the document's own
content for post, a payload for repost, no lines for cancel), `keys` (`stock_keys`),
`quantities`, `movements`. The committed rows are `status`, `version`, `content`, `balance`,
and the movement log in two parts: `ledger`, its sum by key, and `posting`, the "apply" rows
of a document's current version, which is what `_active_posting_movements` selects.

| Action | Code |
|---|---|
| `Request`, `LockDocument`, `Refuse` | the endpoint, `_load_document(for_update=True)`, the guards |
| `LockStockKey` | a round of `_lock_stock_keys` |
| `LoadBalance` | a round of `_load_balance_quantities` |
| `UndoMovement` | a round over the old movements in `repost_document` and `cancel_document` |
| `PlanLine` | a round of `_plan_document_movements` |
| `Commit` | the writes of the operation and `db.commit()` |
| `Fail` | `DocumentRulesError`: rollback and 409 |
| `Crash` | the worker or connection is lost: PostgreSQL rolls back |

Writes become visible in `Commit` because nobody can read uncommitted rows. The rows a
transaction reads under its locks are read one by one (`LoadBalance`), so the model does not
assume that they fit together. The order in which old movements come back is left open, as
the query has no ORDER BY.

`StockLedger` is the promise: each operation is one step that changes the status, writes
movements, and moves the balances by the same amount without going below zero.

### WarehouseTasks

A task is identified by document, posting version and side, which is the unique constraint
of the table. The document side locks the document row, then finds the active tasks of the
old version (`FindTasks`), then locks them one after another in any order (`LockRow`). The
worker's side locks its task (`LockTask`) and, when the sending side of a transfer is
confirmed, finds and locks the receiving task. A row whose status has changed between being
found and being locked is dropped, as PostgreSQL re-evaluates the condition (`Withdrawn`,
the guard in `Work`). `DeadlockDetected` is PostgreSQL's detector; `Abandon` every other
rollback, the refusals of stock and payments included. Confirming with the expected
quantities and with others are two operations, `confirm` and `report`. A user's warehouses
and permissions are constant.

### DraftEditing

Edits read the document and its lines in two statements without locks and keep what they
read (`session`); the commit writes, as SQLAlchemy does, the columns that differ from what
was read (`Merge`), so a column nobody changed in the session keeps the value another
transaction gave it. Insertion of a line and the foreign keys' locks are steps of their own
(`Insert`, `Exclusive`). One incoming document is modelled: of a line its quantity, its price in
the document's currency (`foreign`, which may be `Null`), its price and amount in roubles, and of
the document its rate and total. A request sets any of the fields and leaves out others (`Unset`).
`NewLine` is `add_document_line`, which keeps no foreign price for a line given only a price;
`Asked` and `Revalued` are an edit of a line, `Revalued` also what a new rate does to every line:
without a foreign price both take the price in roubles for one and convert it again. `raced` is a
history variable: it becomes true when a request commits although something it had read has changed.

### Payments

A payment settles documents through its rows in `payment_allocations`. `allocation[p][d]` is
the amount of that row, 0 where there is none; `cash[p]` is the row the payment writes into the
cash book. What a handler keeps (`session`) is what it has read, at the moment it read it:

| Action | Code |
|---|---|
| `ReadDraft` | the SELECT of `create_payment`, `update_payment`, `delete_draft_payment`, without lock, and the check of the status |
| `LockPayment` | `_load_payment(for_update=True)` and the check of the status in `post_payment`, `replace_posted_payment_allocations`, `cancel_payment` |
| `Load`, `LoadCash` | the `selectinload` SELECTs that follow, and the payload |
| `LockNextDocument` | a row of `SELECT ... ORDER BY id FOR UPDATE` in `_validate_allocations` |
| `Judge` | the rest of `_validate_allocations` |
| `CommitDraft`, `CommitDelete`, `CommitPost`, `CommitReplace`, `CommitCancel` | the writes and `db.commit()` |
| `CancelCash` | `cancel_cash_operation` on the row of a payment |
| `LockDocument`, `JudgeDocument`, `CommitDocument` | cancelling and correcting a document, as far as payments and documents meet there |
| `Abandon` | every refusal, deadlock or lost connection |

`Judged` is the point of the module: SQLAlchemy does not refresh an object a session already
has when a later SELECT returns its row, with or without FOR UPDATE. A document that came with
the payment's old allocations is judged by the status and total it had then; any other is
loaded by the locking SELECT and is current.

Three history variables mark what the code does not exclude: `outdated` (a payment was judged
by a document that had changed), `late` (an edit of a draft was committed after the posting),
`unlinked` (a deletion read the payment as a draft and its cash row after the posting, set the
row's reference to NULL and deleted the posted payment). The invariants say what holds as long
as these have not happened, and `PostedIsKept` that nothing but `unlinked` loses a payment.
One partner and one type of payment are modelled; stock, tasks and the balance of the cash
desk appear as possible refusals.

### CashBook and CashLedger

A writer takes `pg_advisory_xact_lock(CASH_LOCK_KEY)` and reads all rows (`Begin`), judges the
ledger as it would become in the order of dates (`Nonnegative`), and writes (`Create` for an
operation, a correction or the operation of a payment; `CancelOperation`,
`CancelPaymentOperations`). The id of a row is its index, so a new row is the last of its day.
A correction brings the balance of *all* rows to the counted amount, whatever date it is
given; that is `Difference`. A page of the book is read without a lock by two or three
statements (`ReadBalance`, `ReadRows`, `ReadClosing`); when something is committed between
them the page mixes two books, and the model forgets what it showed (`Torn`), since the code
promises nothing of it. `Rows`, `DashboardBalance` and `CashBookReport` are the other places
that add up the same rows.

`CashLedger` knows no rows: the state is the turnover of each day, a step changes one of them
and leaves every day solvent. `Ledger` in `CashBook` maps the rows to their turnovers
(`INSTANCE CashLedger WITH turnover <- ...`).

### DocumentNumbers

A request that creates, renames or corrects a document takes the next value of its type's
sequence (`GenerateNumber`: `INSERT ... ON CONFLICT DO UPDATE`), raises the sequence to the
value of a typed number (`ReserveNumber`), or takes a number with another type's prefix as it is
(`KeepNumber`). The row of the sequence stays locked to the end of the transaction. `Write`
meets the unique constraint, `Refuse` its violation, which takes the sequence's step back too.
A correction holds the row of its document and waits for the sequence; a change of the header
holds the sequence and waits for the row: `Victim` is the end PostgreSQL makes of that.

### BulkImport

A session has a file, validates all its rows against the committed tables and then applies one
row at a time (`ApplyProduct`, `ApplyPartner`, `ApplyWarehouse`, `ApplyStock`), finding again what
it has flushed itself; the commit (`Commit...`) meets the unique constraints and the locks of
rows. Of a balance the session keeps the quantity it has read (`base`) and the one the file gives it
(`local`); SQLAlchemy writes, and locks, those where the two differ (`Changed`, `Written`), at the
commit or when a balance that has no row is inserted (`Balance`), which flushes the session: what was
written stays locked, the rest is forgotten and read anew by a later row. `Posting` is a document posted
meanwhile. What others have committed to a balance since a session read it is marked `overtaken`, and
two history variables say what becomes of it: `disturbed` are the balances an import has overwritten
all the same, whose posting the code loses, `latest.spared` those it has left to others, as the file
asked for the quantity it had read, and which then are not what the file says.
`keys` are the balances the rows of an opening stock have meant so far: a product imported meanwhile
can take the sku a row is found by, and the same row then means another product, which is the one
case `ImportsAreWhole` leaves out. `again` marks a file that is sent a second time, when nothing was
committed since the first and the first has left no balance to others.

### Accounts

Login holds the row of its user, so an attempt is one step (`WrongPassword`, `RightPassword`); the
clock moves by itself. Everything else reads the user without lock (`Edit`) and writes later
(`Write`) the columns that differ from what it has read, roles and warehouses as rows deleted and
inserted. Tokens carry the version they were made with; `revoked` counts what should have ended
them. `overlapped` marks accounts of which two edits overlapped.

### Directory

A request checks and then flushes (`Check`, `FlushGroup`, `FlushDelete`). Of the rows of other
tables the model keeps what they refer to and through which column; `Asked` are the columns a
deletion asks for, `Cleared` those the ORM sets to NULL by itself (or whose association row it
deletes), the others are left to the foreign keys. `Above` is the smallest set that has a group and
with each group its parent, which the loop over parents in the code walks through. `overlapped`
marks that two requests that concern one check overlapped.

### Reports

One reader asks for everything the program tells of a partner: statement, balance, open items,
turnover, register, last purchase. Each answer is a step or several, as it is one statement or
several. What a commit in between does to a visit is forgotten, as in `CashBook`.

### Upgrade

The state is the database and what the open transaction of Alembic has made of it. Each migration
that computes rows is an action; `CommitUpgrade` and `AbortUpgrade` may come after any of them, as an
operator may upgrade step by step. `BootstrapAdmin` sets the roles to the program's table.
One product stands for all, a document has one movement of each kind. Payments have their types, which
revision 0011 does not look at (`Take`), while the program refuses to allocate refunds, and payments to
documents of another type than theirs (`Refused`).

### LegacyReader

The file is a sequence of pages with slots; a cell is a value, a record a sequence of runs. The
reader scans the pages (`ScanPage`), reads the columns out of the system tables (`BuildSchema`), and a
visitor pages through a table from the beginning (`Open`, `Forward`). `RowCells`, `Fragment`,
`Continuation`, `ReadBlob` say which slots make a row and where its rest is; `Rows` is the loop with
offset, limit and the limit of scanned records. As in the code, `RowCells` looks at the flag of a row
that continues before all others, so that an old version in pieces, or the middle piece of a row, is
shown as a row (`Strays`), and a continuation is not continued itself: a row in three pieces is shown
with the pointer to its last piece among its cells (`torn`).

### MCRequests and BackOffice

These two put several modules together that share no variable: each extends one of them
(`DocumentNumbers`, `Accounts`) and has instances of the others. `BackOffice` declares the constants
of its parts and what is assumed of them; `MCBackOffice` gives them values. Each behaviour follows one part
(`part`), the others stay at one initial state, so the states of the run are the sum and
not the product of the parts, and every behaviour of each part is among them. A property of a
part speaks of that part's variables only and holds trivially of the behaviours that follow
another. In `MCRequests` the fairness conditions of the parts are joined: of the actions under one
WF or SF only those of the followed part can be enabled, so each condition means what it means
in the part's own module.

## 3. What is checked

| Run | Question | Result |
|---|---|---|
| `StockPosting` | do concurrent postings, corrections and cancellations keep stock right, and implement `StockLedger`? | holds |
| `StockPostingRecount` | is a cancellation refused only if it takes more than there is? | violated |
| `WarehouseTasks` | are open tasks current, transfers in order, tasks accounted for, ended tasks final? | holds |
| `DraftEditing` | what do foreign keys and posting's lock still guarantee while edits lock nothing? | holds |
| `DraftEditingPosted` | are posted documents read-only? | violated |
| `DraftEditingTotal` | is the total always the sum of the lines? | violated |
| `Payments` | are documents never settled beyond their total, and never cancelled or reduced below what is settled; does a payment stay within its amount, in step with its cash row, and on record? | holds |
| `PaymentsRevalidation` | does posting see the documents as they are when it locks them? | violated |
| `Requests` | is a generated number new, and does every request end that posts stock, works on tasks or numbers a document? | holds |
| `CashBook` | is the desk never in debt, and do pages and corrections agree with the book? | holds |
| `BackOffice` | are locks earned and tokens ended when they should, and do the other five parts keep what their modules promise? | holds |
| `CashReport` | does the cash report show the balances of the cash book? | violated |

What `CashBook`, `Requests` (numbers) and `BackOffice` check, part by part:

- cash book: at no point of the book, in the order of dates, was the desk in debt
  (`NeverInDebt`); a correction leaves exactly the counted amount (`CorrectionHitsTarget`); an
  undisturbed page, first or later, shows the balances of the whole book
  (`PageAgreesWithBook`); the book implements `CashLedger` (`IsCashLedger`);
- numbers: a generated number is greater than any the sequence has given and any typed with
  the type's prefix, whatever was deleted, rolled back or typed (`GeneratedIsNew`);
- imports: movements add up to balances, also for keys a file names twice, unless an import
  overwrites what others committed since it read the balance (`OpeningExplained`); an import reported
  as applied has applied every row, except where it found a balance as the file wants it and others
  changed it before the commit; and a file sent again changes nothing, unless it has left a balance
  to others (`ImportsAreWhole`);
- users: an account is locked exactly after so many wrong passwords in a row, counted from the
  last right one or the end of the last lock (`LockIsEarned`); no token survives a logout or a
  new password, temporary passwords must be changed, a logist has a warehouse and no other role
  (`SerialEdits`);
- directories: groups stay a forest with distinct names, deleted cards leave no reference
  behind and take none away (`SerialDirectory`);
- reports: the figures of an undisturbed visit agree (`ReportsAgree`);
- upgrade: an upgraded database has what the other modules take for granted: versions with their
  movements and revisions, sequences ahead of the numbers, the tasks of posting, in each role what
  the migrations grant it; documents are settled by the payments of their partner that were linked to
  them, up to their totals, and no such payment is left out while its document is not settled. Since
  0011 ignores types, an allocation is one the program would allow only if every old link is
  (`UpgradeIsComplete`);
- legacy reader: following the links of a table shows each row once and in order, and whole unless
  it is in more than two pieces; the count shown beside the table is their number. Beside the rows it
  shows one line for each old version of a row in pieces and for each middle piece, and nothing else
  (`EveryRowOnce`).

`PageAgreesWithBook`, `ReportsAgree`, `SerialEdits`, `SerialDirectory`, `OpeningExplained` and
`ImportsAreWhole` each leave out the one overlap the code does not prevent, and a history variable or a
forgotten answer says exactly which; they show that nothing else goes wrong, and do not cover the
overlap itself, which `PROJECT.json` notes at its hazard.

The five violations are disagreements of the code with its documents:

- *A cancellation may be refused for its intermediate steps.* `cancel_document` tests the
  running quantity after every movement. An adjustment that names a product twice (to 2, then
  to 1) in an empty warehouse writes +2 and -1 and leaves 1. Cancelling it takes 1 back as a
  whole, but taking back +2 first arrives at -1, and the request is refused.
  `repost_document` tests the outcome only.
- *Posted documents change.* An edit that found a draft and commits after the posting changes
  lines, rate or total of a posted document; the movements and tasks do not follow.
- *The total loses a line.* Two edits that overlap each compute the total from their own lines.
- *Posting revalidates old copies.* A payment's documents are loaded with it and locked after;
  if one is cancelled or reduced in between, the payment is posted to it all the same.
- *The cash report forgets the direction of corrections.* `reports_service._cash_effect` adds
  the amount of every correction; a correction downwards is stored as a positive amount with
  direction "out". From such a row on the report's running balance is too high, and differs
  from the `cash_balance` in the same answer.

What does hold is worth as much: without overlap the total is the sum of the lines, an amount
quantity times price, and the price of a line that has a foreign price follows from it
(`SerialEditsAreSound`; a line given only a price has none until its next edit, which multiplies the
price by the rate once more: no document of the repository says what such a price means, so this is
named in the property and not counted as a violation); a posted document cannot be deleted by a late request (its
movements refer to it), and no line slips in between posting's read and its commit, because
INSERT of a line needs a key-share lock on the document that posting holds.

### Bounds and why they are enough

- `StockPosting`: two handlers, two documents, two products, two warehouses, at most two
  versions; payloads of every type, one with two products whose order differs from the key
  order. Two handlers suffice for every pairwise interleaving, all hazards listed involve
  two transactions; two versions are what it takes for a reversal to meet an older one.
- `StockPostingRecount`: one handler, since the refusal needs no concurrency.
- `WarehouseTasks`: two handlers, one document (tasks of different documents share no row),
  two versions, all document types, a worker of the destination warehouse and a reviewer.
- `DraftEditing`: two handlers, at most two lines ever, two quantities, three prices of either
  currency, two rates. Lines come with a foreign price and without; edits change the foreign price, or
  the quantity and nothing else, which is what it takes for a price to be converted again.
- `Payments` (1,648,312 states): two handlers, two payments of amount 1 or 2, two documents, the
  first of total 1 or 2. Both kinds of pairs at once are too many states, so a state constraint
  (`Limited`) explores those where one payment only is at work, on any document, and those where
  both are, of amount 2, on the first document only; and it does not go on after a second of the
  three exceptions of §2, when hardly an invariant says anything. Overpaying takes two payments, a
  reduction two totals, exceeding the amount two allocations or two amounts, losing a row two
  sessions on one payment. The theorems of §4 need none of these limits.
- `PaymentsRevalidation`: one payment and one document.
- `CashBook` (two clerks, two days, amounts 0 and 1, three rows, pages of two): a row is booked
  before, between or after two others, a cancelled or corrected row has one on either side, and
  a page has a predecessor. The book may begin with a row from before targets.
- `CashReport`: the same with two rows and amounts 0 to 2.
- `Requests` (60,085 states): two handlers. Numbers: two documents, one of which may be numbered
  already, two types, typed values up to 2, two requests, which is what a collision and the circle
  of a correction and a change of a header take. Stock: two documents of five shapes whose keys
  overlap in both orders, one version. Tasks: the transfer, the only document with two tasks, one
  version.
- `BackOffice` (396,599 states):
  users: an administrator and another, two wrong attempts, a lock of one tick, two edits of five
  kinds beside logins: two edits are what an overlap takes;
  imports: eight files of one to three rows, of all kinds, with rows that repeat a product by name or
  sku, repeat a balance (giving it what it had when it was read, or with an insertion in between),
  open a group, or owe; two imports at once or one after the other beside postings;
  directories: two groups, three names, a card of each kind, one row, three requests: two
  create the groups, the third moves, renames or deletes;
  reports: two rows among documents and payments, two days, two amounts;
  upgrade: a document of every type, status, with and without warehouse and number, beside a
  posted one, with two payments of own and other partners and of all three types; databases without
  roles, with invalid values and with a number twice;
  legacy reader: three rows on two pages in either order of the file, the first in one, two or three
  pieces; between them slots that are free, deleted, old, damaged, or both in pieces and deleted or
  old; a compressed row, a blob on its own page, two formats; four records a page, two rows a page of
  the browser, and a limit of scanned records that only a file with three lines to spare reaches.

Handlers, documents of `StockPosting` and payments are interchangeable, so the runs without
liveness use symmetry (`BackOffice`: sessions and groups; `Payments`: handlers and payments). Deadlock is checked except where the
model may run out of work: in `DraftEditing*` and `Payments*` the documents and payments may all
have been posted, cancelled or deleted; in `Requests`, `BackOffice`, `CashBook`
and `CashReport` the bounds on requests, rows, imports and time may be
used up, and an upgraded database stays.

### Fairness

PostgreSQL serves the queue of a lock in order, so a transaction that waits for a lock that
is released again and again gets it: strong fairness of the lock actions. A thread that can
run runs: weak fairness of the other steps, and of the deadlock detector, which looks after
`deadlock_timeout`. In `DocumentNumbers` weak fairness of a request's steps is enough, because
a request that holds a sequence ends and only a bounded number can come before another one. Only
`Requests` uses fairness. Nothing makes requests come, fail, crash or be abandoned.

## 4. What is proved

Each `...Proofs` module extends the module it is about (`BackOfficeProofs` is about the six parts of
`BackOffice` but the legacy reader) and proves theorems for every value of
the constants that satisfies the module's ASSUMEs, all bounds included. A safety property is
seldom inductive; what is added to it is in each case what a handler knows of the rows it holds.

| Module | Theorem | Property | Inductive invariant |
|---|---|---|---|
| `StockPosting` | `TypeCorrect`, `StockConserved`, `StockNonNegative`, `ReadsStayCurrent` | `TypeOK`, `Conservation`, `NonNegative`, `ReadsCurrent` | `Inv` |
| | `Refinement` | `ImplementsLedger` | `Inv` |
| | `StockIsExplained` | `StockExplained` | `Inv`, `BookInv` |
| `WarehouseTasks` | `TaskTypes`, `OnlyCurrentTasks`, `SentBeforeReceived`, `SomebodyAnswers` | `TypeOK`, `CurrentTasks`, `TransferOrder`, `Accountable` | `TaskInv` |
| | `EndedTasksStay`, `StartedByOne` | `FinalTasksStay`, `OneWorker` | `TaskInv` |
| `DraftEditing` | `DraftTypes`, `SoundUntilRaced`, `LinesDieWithDocument` | `TypeOK`, `SerialEditsAreSound`, `NoOrphanLines` | `DraftInv` |
| | `NeverDeletedOncePosted`, `PostedWithAllLines` | `PostedStays`, `PostingMissesNoLine` | `DraftInv` |
| `Payments` | `PaymentTypes`, `NoDocumentOverpaid`, `NoMoreThanAmount`, `CashFollowsPayments` | `TypeOK`, `NeverOverpaid`, `WithinAmount`, `CashFollows` | `PaymentInv` |
| | `DocumentsSeePayments`, `PostedPaymentsStay` | `DocumentsRespectPayments`, `PostedIsKept` | `PaymentInv` |
| `CashBook` | `CashTypes`, `NeverInDebtHolds` | `TypeOK`, `NeverInDebt` | `CashInv` |
| | `CorrectionsHit`, `CashLedgerImplemented` | `CorrectionHitsTarget`, `IsCashLedger` | `CashInv` |
| | `PagesAgree` | `PageAgreesWithBook` | `CashInv`, `PageInv` |
| `Accounts` | `LockEarned` | `LockIsEarned` | `LockInv` |
| | `AccountTypes`, `EditsInOrder` | `TypeOK` (in `PartTypes`), `SerialEdits` | `LockInv`, `EditInv` |
| `Directory` | `DirectoryTypes`, `DirectoryInOrder` | `TypeOK` (in `PartTypes`), `SerialDirectory` | `DirectoryInv` |
| `BulkImport` | `ImportTypes`, `OpeningIsExplained`, `ImportsWhole` | `TypeOK` (in `PartTypes`), `OpeningExplained`, `ImportsAreWhole` | `ImportInv` |
| `Reports` | `FiguresTypes`, `FiguresAgree` | `TypeOK` (in `PartTypes`), `ReportsAgree` | `FiguresInv` |
| `Upgrade` | `UpgradeTypes`, `UpgradesComplete` | `TypeOK` (in `PartTypes`), `UpgradeIsComplete` | `UpgradeInv` |
| `BackOffice` | `PartsImplemented`, `PartsTyped`, `BackOfficeCorrect` | the properties above, of `AllSpec` | the parts' |
| `DocumentNumbers` | `NumberTypes`, `NumbersAreNew` | `TypeOK` (in no run), `GeneratedIsNew` | `Inv` |

### Why they hold

*Stock posting.* Nothing in `Conservation` says that a transaction commits quantities that
belong to the present balances. `Inv` adds that a handler which has loaded a key holds the key's
advisory lock and its document row, that its working quantities are the committed balance plus
what it has planned, that nothing is planned for keys it has not loaded, and that the content and
movements of its document touch only keys it locks. From mutual exclusion of the locks the loaded
keys of two handlers are disjoint, so a commit of one leaves the other's quantities current.
`NonNegative` needs besides that cancelling stops at every negative running quantity and that
posting ends with the check of all quantities. For `StockExplained` a second invariant, `BookInv`,
says what a plan consists of while it is being made (`PlanOf`): the movements decided so far, less
those of the old version except the ones still to be taken back. When nothing is left to be taken
back, the plan is the new movements less the old, and the commit puts the ones in the place of the
others.

*Warehouse tasks.* Two operations lock in opposite orders: a correction goes from the document to
its tasks, a worker from a task to its counterpart. A correction finds the active tasks first and
locks them later, so neither `CurrentTasks` nor `TransferOrder` survives its commit without
knowing that it has missed none: `CoversTasks` says that each active task of the version is locked
by the correction or still on its list, `CoversReceive` the same of the receiving side that a
confirmation is to free. `HoldsDocument` and `HoldsTask` say that what a handler has checked is
still so, `Paired` that the two sides of a transfer exist together and future versions have no
tasks. Each action is shown to respect what others hold (`Respects`), and the action properties
follow from that.

*Draft editing.* `PostingHolds`: while posting holds the document no line is being inserted, and
once it has read the lines none has come; `KeyShared`: who has inserted a line shares the key of a
document that exists. `SerialEditsAreSound` is inductive beside these, since it speaks of
behaviours in which every commit met what it had read; the work is in the sums, and in what each
request leaves of a line (`Sound`): a line without a foreign price asks for its amount only, and an edit
gives it one from which the new price follows.

*Payments.* `HoldsPayment`, `CoversRows`, `HoldsDocuments` and `HoldsDocument` say what a handler
of a payment, or of a document, may rely on between its locks and its commit: the payment is as it
was read, its allocations may have lost rows (a draft edit that only deletes waits for nothing) but
won none, and of a document that it holds nobody else settles more. The judgement of
`_validate_allocations` therefore still stands at the commit (`Acceptable`), unless it was made of
an old copy of the document; that is what `outdated` marks, and `late` and `unlinked` the two
other exceptions of §2.

*Cash book.* Under the one lock a writer's rows are still the book (`WritersCurrent`), and one row
at most is that of the payment (`OfOnePayment`). The balance at any point of the book is a sum over
the rows before it in the order of dates; booking a row adds its effect to all later points, which
is what `Nonnegative` has judged, and cancelling one leaves each point with the balance of an
earlier or later book. `PageInv` adds what a reader has read of a book that nobody has changed
since. The place of a row is the number of rows up to it; places are different, so there is a row
for each place (a one-to-one map of a finite set into itself reaches all of it), up to each row
there is exactly one row more than up to the one before, and counting back from the right closing
balance meets the balance of every row.

*Accounts.* `LockInv` compares the count of a row with the history: it is never above the wrong
passwords in a row, and equals them unless a new password was set meanwhile (`helped`). The open
edits are part of it (`Harmless`): what such an edit writes differs from what it has read in the
count and the lock only when it carries a new password, and then it clears both, so writing the
columns that changed cannot undo an attempt or bring back an old lock. `EditInv` says the same of
the other columns: what an edit will write follows from what it has read (`Follows`), and an
account of which no two edits overlapped has as many versions as there were reasons to end tokens
(`Orderly`). Version numbers are bounded by the requests made, of which some are open; hence the
cardinality in `EditInv`.

*Directory.* The conditions a request has checked (`Checked`) hold at its flush where no other
request overlapped it. A forest is kept because the new parent of a group is not below it: the
groups above a node are the same before and after, or lead through the changed one (`Up`, the
smallest set closed under parents, of which the proof needs no path and no induction). What a
deletion asks for, what the ORM clears and what the foreign keys refuse are together all columns
that can refer to the card.

*Imports.* `SessionOK` says what the current file has come to. Of the rows before the current one:
each is applied in the tables as they would be after the commit (`Gone`); the differences so far
are those to the balance read (`base`) and, unless others have committed to it, to the one there is, and
where nothing was written they are 0 (`Agrees`); each balance is what the last row for its key says, in
the session or, if the session has forgotten it, in the table (`Held`, `Lasts`); and a file sent again
has found each row as its first attempt left it (`Repeats`), so that it writes nothing. Tables only grow
at the end and keys that a session has locked do not move, hence a row once applied stays applied,
whatever others commit, but for balances that were never written.

*Reports.* The work is in the sums. A statement is taken as the sum over its lines up to a day; put
together of the sum over the documents and that over the payments up to the day (`Until`), the last
balance is that of the partner. Open amounts are sums of sums: the posted payments, sorted by the
document they name, are taken class by class (`SumOfClasses`); since no document is paid beyond
its amount (part of `FiguresInv`, as posting a payment refuses it), nothing is lost when only
positive remainders are listed. `Visited` says, for each point a visit can be at, that all answers so far are
of the present books.

*Upgrade.* `Upgraded` is one conjunct for each migration, from its revision on: `Versioned`
(movements, versions and revisions of documents), `Numbered`, `Divided`, `Tasked`, and `Has` of each
table of grants; `UpgradeInv` says it of the database and of the open transaction. Each migration keeps the
conjuncts before it and adds its own. Revision 0011 goes through the payments of a document in
turn, each taking from what is left; that is a recursive function on sets of payments, shown to exist
and to be unique by a smallest counterexample (`DividingExists`, `DividingAgree`), and then what is
taken and what is left always make the total (`Taken`), every allocation is a part of a payment to its
own document (`Proper`), and a posted payment is taken whole unless nothing is left (`TakenWhole`).

*Back office.* A step of `BackOffice` is a step of one part and leaves the variables of the others
(`PartsApart`), so its behaviours are, of each part, behaviours of the part's own specification
(`PartsImplemented`), and what is proved of the parts holds of the specification TLC checks. An old
database is assumed only where the upgrade is followed, hence `UpgradeApart`.

*Document numbers.* No sequence is below a number that carries its prefix (`Covered`), and a
request that has taken a value holds the row of the sequence and is at or above it, a generated one
strictly above (`Taking`); a commit of another request of the type would need the same row. It
follows on the way that a sequence without a row has no numbers to start after, so that the
greatest number read without a lock cannot be stale.

### Assumptions

Owners of locks are distinct from "nobody", "none" is no document type; identifiers are natural
numbers; payloads have passed validation (`PayloadOK`, `Bodies`, `Requests`, `Submitted`); amounts,
prices and totals are positive, opening stock not negative; both limits of login are positive
(`config.py` asks for at least 2 and 1), and so is the limit of a page (`routes/cash.py` asks for
at least 1); tables have finitely many rows and there are finitely many
sessions and days; at least one amount exists (`Payments`); an old database is one revision 0005
can have left (`IsLegacy`: no document has a version, its movements are those of its posting and
its cancellation), with finitely many documents and payments; ids of different
tables of the directory are told apart; the cells of a file are text, numbers or empty. The bounds (`MaxVersion`, `MaxLine`,
`MaxOperations`, `MaxRequests`, `MaxTime`, `MaxTyped`) are any natural numbers, positive where the
type invariant needs a value to begin with. TLC evaluates all of them in the runs.

### Sums

Totals of a document, what is settled of it, what a posting moves and the balance of the book are
sums over finite sets (`SumFunctionOnSet`, a recursive function). An induction theorem cannot be
used for them, as it takes an operator. `SumLemmas` argues by a smallest counterexample instead:
if a sum lacked a property, there would be a smallest finite set whose sum lacks it
(well-foundedness of inclusion is a theorem about finite sets without an operator parameter), and
taking out one element gives a smaller one. The fold over a page's rows (`FoldLeft`) is shown to be
such a sum in the same way (`CountedBack`). From this come that a sum exists, is additive, changes
by what one element changes, and is monotone. Sums over sequences are sums over their indices.

### Only model-checked

- Liveness (`StockAndTasksEnd`, `RequestsEnd` in `Requests`), which is beyond the prover, and
  `ENABLED`.
- `EveryRowOnce` compares what the reader decodes with the rows as they were stored. Of the reader
  of any file one would have to assume what is to be shown, that its pages decode to its rows; TLC
  shows it of files with free slots, slots with the flag deleted, old, damaged, blob or fragment, with
  incomplete beside deleted, old or fragment, and rows in one to three pieces; not of other
  combinations of flags.
- `PartTypes` as a whole, for one of its six conjuncts: the type of the columns the legacy reader
  finds depends in the same way on the contents of the system tables of a file. The other five are
  `PartsTyped`.

## 5. Plan

All parts of §2 are modelled, and all their safety properties are proved but those of the reader.
What could be added, in this order:

1. The edits of drafts that §6 leaves out (product, partner, warehouse), which go through the same
   sessions as price and rate and would need the same invariant.
2. Currencies, sale prices and units of the directory.
3. A composition of `Payments` with `CashBook`, each of which takes the other as possible refusals,
   for the order in which their locks are taken.

## 6. Not modelled, and why

- Configuration, metrics, logging and error tracking do not touch the data. Backups are shell
  scripts around `pg_dump`, `rclone` and the file system; what survives a crash there is decided
  by these programs. The web client sends one request after another.
- Exports, print forms, stock reports and the audit list show rows as they are. Revisions, task
  events and the audit log are only appended to and never read by the operations.
- Of drafts: changes of product, partner and warehouse, which go through the same sessions as price
  and rate; the totals in the document's currency, which are computed beside those in roubles; and the
  checks of partner types. Documents of other types than incoming, which have no foreign prices. Of the directory: currencies, sale
  prices, units, and the rounding of markups.
- Of the migrations: those that add empty tables and columns, downgrades, demonstration data.
- Of the legacy reader: the bytes of cells, of page and record headers; decoding of text, dates
  and numbers; pages that point to pages of a blob; the text filter; record flags beside the six that
  `SKIP_RECORD` and `REC_INCOMPLETE` name.
- A part that is modelled by itself takes the others as possible refusals: `Payments` the cash
  desk, `WarehouseTasks` stock and payments, `DocumentNumbers` posting.
- What no module shows: a user who loses a warehouse while a task of it is in progress, which then only
  a reviewer can complete (`Accounts` changes the warehouses, `WarehouseTasks` takes them as constant);
  and opening debts, which are posted documents without version and movements, so that corrections and
  cancellations are refused by their guards.
- Money and quantities are integers. The `Decimal` columns have fixed scales and PostgreSQL rounds what
  is written to them; the program itself rounds amounts of lines. What this leaves out: a quantity of
  more than three decimals, which an import does not refuse, is rounded in the balance and, as a
  difference, in the movement separately, so that the two can differ by a thousandth; and a price
  converted at a rate is rounded before it is multiplied by the quantity.
