------------------------------- MODULE Payments -------------------------------
(***************************************************************************)
(* Payments and what they are allocated to (services/payments_service.py), *)
(* beside the cancelling and correcting of documents                       *)
(* (services/documents_service.py).                                        *)
(*                                                                         *)
(* A posted payment settles posted documents.  Posting and reallocating    *)
(* lock the payment row, load it with its allocations and their documents, *)
(* lock the documents in the order of their ids, and compare with the sum  *)
(* of what other posted payments settle.  SELECT ... FOR UPDATE does not   *)
(* refresh the objects a session has, so a document loaded with the old    *)
(* allocations is judged as it was before it was locked.  Drafts are       *)
(* created, edited and deleted without locks of their own.                 *)
(*                                                                         *)
(* One partner and one type of payment are modelled, so that every payment *)
(* may settle every document.  The cash desk is the row each payment       *)
(* writes there; that it is never overdrawn is a reason to refuse.         *)
(***************************************************************************)
EXTENDS Integers, FiniteSetsExt

CONSTANTS Txn,       \* request handlers
          NoTxn,     \* the owner of a free lock
          Payment,   \* payments that may come to exist
          Document,  \* documents.id, all posted at first
          Amount,    \* amounts of payments
          Total,     \* totals of documents
          Ask        \* allocations that users submit: what each document gets

Allocation == [Document -> Nat]   \* 0 where there is no row
DocumentRow == [status : {"posted", "cancelled"}, total : Nat]

PaymentOperation  == {"create", "update", "delete", "post", "replace", "cancel"}
DocumentOperation == {"cancel_document", "repost_document"}

\* What a handler keeps while it serves a payment: the amount it has read and the
\* one asked for, the allocations asked for, the documents whose allocation rows it
\* has read and that are still those rows, the documents as its session holds them
\* (NotViewed where it has none), whether it has read a cash operation of the payment,
\* and the documents still to be locked.
PaymentSession  == [pc : {"load", "documents", "commit"}, op : PaymentOperation,
                    payment : Payment, amount : Amount, new : Amount, ask : Allocation,
                    seen : SUBSET Document, view : [Document -> DocumentRow],
                    linked : BOOLEAN, wanted : SUBSET Document]
DocumentSession == [pc : {"load", "commit"}, op : DocumentOperation,
                    document : Document, total : Nat]
Closed          == [pc |-> "closed"]
NotViewed       == [status |-> "posted", total |-> 0]
Unseen          == [d \in Document |-> NotViewed]

ASSUME Nobody == NoTxn \notin Txn
ASSUME Ids == Document \subseteq Nat
ASSUME Positive == Amount \subseteq Nat \ {0} /\ Total \subseteq Nat \ {0} /\ Amount # {}
ASSUME Submitted == Ask \subseteq Allocation
ASSUME Tables == IsFiniteSet(Payment) /\ IsFiniteSet(Document)   \* tables have finitely many rows

VARIABLES
    document,   \* documents: status and total_amount
    status,     \* payments.status, "none" before, "deleted" after
    amount,     \* payments.amount
    allocation, \* payment_allocations
    cash,       \* the cash operation of a payment: status and amount
    docLock,    \* the transaction that holds a document row FOR UPDATE
    payLock,    \* the transaction that holds a payment row FOR UPDATE
    session,    \* what the handlers keep
    outdated,   \* history: a payment was judged by a document that had changed
    late,       \* history: a draft's edit was committed after it was posted
    unlinked    \* history: a payment was deleted with its cash operation left behind

rows    == <<document, status, amount, allocation, cash>>
locks   == <<docLock, payLock>>
history == <<outdated, late, unlinked>>
vars    == <<rows, locks, session, history>>

NoAmount == CHOOSE a \in Amount : TRUE   \* where there is no payment
Nothing  == [d \in Document |-> 0]
Rows(a)  == {d \in Document : a[d] > 0}
Sum(a)   == SumFunctionOnSet(a, Rows(a))

\* _posted_allocated_amount, over the posted payments of a set.
Settled(d, payments) ==
    SumFunctionOnSet([p \in Payment |-> allocation[p][d]],
                     {p \in payments : status[p] = "posted"})

TypeOK ==
    /\ document \in [Document -> DocumentRow]
    /\ status \in [Payment -> {"none", "draft", "posted", "cancelled", "deleted"}]
    /\ amount \in [Payment -> Amount]
    /\ allocation \in [Payment -> Allocation]
    /\ cash \in [Payment -> [status : {"none", "posted", "cancelled"}, amount : Nat]]
    /\ docLock \in [Document -> Txn \cup {NoTxn}]
    /\ payLock \in [Payment -> Txn \cup {NoTxn}]
    /\ session \in [Txn -> PaymentSession \cup DocumentSession \cup {Closed}]
    /\ <<outdated, late, unlinked>> \in BOOLEAN \X BOOLEAN \X BOOLEAN

Init ==
    /\ document \in [Document -> [status : {"posted"}, total : Total]]
    /\ status = [p \in Payment |-> "none"]
    /\ amount = [p \in Payment |-> NoAmount]
    /\ allocation = [p \in Payment |-> Nothing]
    /\ cash = [p \in Payment |-> [status |-> "none", amount |-> 0]]
    /\ docLock = [d \in Document |-> NoTxn]
    /\ payLock = [p \in Payment |-> NoTxn]
    /\ session = [t \in Txn |-> Closed]
    /\ outdated = FALSE /\ late = FALSE /\ unlinked = FALSE
-----------------------------------------------------------------------------
(* Helpers *)

At(t, place)  == session[t].pc = place
Doing(t, S)   == ~At(t, "closed") /\ session[t].op \in S
Free(lock, t) == lock \in {t, NoTxn}

\* The status an operation asks of its payment.
Eligible(operation, p) ==
    status[p] = CASE operation = "create" -> "none"
                  [] operation \in {"update", "delete", "post"} -> "draft"
                  [] operation \in {"replace", "cancel"} -> "posted"

\* The session after the first SELECT of the payment.
Opened(place, operation, p) ==
    [pc |-> place, op |-> operation, payment |-> p, amount |-> amount[p], new |-> amount[p],
     ask |-> Nothing, seen |-> {}, view |-> Unseen, linked |-> FALSE, wanted |-> {}]

\* What _load_payment brings into the session with the allocations of a payment: the
\* rows and their documents, as far as they matter to what is asked for.
Seen(p) == Rows(allocation[p])
View(p, ask) ==
    [d \in Document |-> IF d \in Seen(p) \cap Rows(ask) THEN document[d] ELSE NotViewed]

\* The document the handler judges by: the object of the session if there is one.
Judged(t, d) ==
    IF session[t].view[d] = NotViewed THEN document[d] ELSE session[t].view[d]

\* What is still to be paid of a document, as the handler sees it.
Outstanding(t, d) ==
    Judged(t, d).total
      - Settled(d, IF Doing(t, {"replace"}) THEN Payment \ {session[t].payment} ELSE Payment)

\* Mutant of Acceptable: the amount of the payment is forgotten.
AcceptableUnlimited(t) ==
    \A d \in Rows(session[t].ask) :
        /\ Judged(t, d).status = "posted"
        /\ session[t].ask[d] <= Outstanding(t, d)

\* _validate_allocations.
Acceptable(t) ==
    /\ Sum(session[t].ask) <= session[t].new
    /\ \A d \in Rows(session[t].ask) :
         /\ Judged(t, d).status = "posted"
         /\ session[t].ask[d] <= Outstanding(t, d)

\* _replace_allocations: DELETE the rows that were read, INSERT the new ones.  The
\* pair of payment and document is unique.
NoDuplicate(t) ==
    \A d \in Rows(session[t].ask) :
        d \in session[t].seen \/ allocation[session[t].payment][d] = 0

\* Mutant of Replaced: what is asked for is taken as a change of what there is.
ReplacedByDifference(t) ==
    [d \in Document |-> session[t].ask[d] - allocation[session[t].payment][d]]
Replaced(t) ==
    [d \in Document |-> IF session[t].ask[d] > 0 THEN session[t].ask[d]
                        ELSE IF d \in session[t].seen THEN 0
                        ELSE allocation[session[t].payment][d]]

\* The rows t has deleted are no longer there for others who have read them.
Forget(t) ==
    session' = [other \in Txn |->
        IF other = t THEN Closed
        ELSE IF Doing(other, PaymentOperation) /\ session[other].payment = session[t].payment
        THEN [session[other] EXCEPT !.seen = @ \ session[t].seen]
        ELSE session[other]]

Close(t) ==
    /\ session' = [session EXCEPT ![t] = Closed]
    /\ docLock' = [d \in Document |-> IF docLock[d] = t THEN NoTxn ELSE docLock[d]]
    /\ payLock' = [p \in Payment |-> IF payLock[p] = t THEN NoTxn ELSE payLock[p]]
-----------------------------------------------------------------------------
(* Drafts *)

\* create_payment, update_payment and delete_draft_payment read without locks; this is
\* the SELECT of the payment and the check of its status.
ReadDraft(t, operation, p) ==
    /\ At(t, "closed")
    /\ Eligible(operation, p)
    /\ session' = [session EXCEPT ![t] = Opened("load", operation, p)]
    /\ UNCHANGED <<rows, locks, history>>

\* The SELECT of the cash operations that follows in delete_draft_payment.
LoadCash(t) ==
    /\ Doing(t, {"delete"}) /\ At(t, "load")
    /\ session' = [session EXCEPT ![t].pc = "commit",
                                  ![t].linked = cash[session[t].payment].status # "none"]
    /\ UNCHANGED <<rows, locks, history>>

\* The draft's flush and commit.  UPDATE of the payment waits for FOR UPDATE of its
\* row, and so do the foreign keys of new allocations, for that of their documents
\* too.  If only rows are deleted, and payments.document_id, the document of an only
\* allocation, stays empty, nothing is waited for.
Unhindered(t) ==
    LET s == session[t] IN
    /\ (s.new = s.amount /\ s.ask = Nothing /\ Cardinality(s.seen) # 1) \/ Free(payLock[s.payment], t)
    /\ \A d \in Rows(s.ask) : Free(docLock[d], t)

CommitDraft(t) ==
    LET s == session[t]
        p == s.payment
    IN
    /\ Doing(t, {"create", "update"}) /\ At(t, "commit")
    /\ IF s.op = "create" THEN status[p] = "none" ELSE status[p] # "deleted"
    /\ Unhindered(t)
    /\ NoDuplicate(t)
    /\ status' = IF s.op = "create" THEN [status EXCEPT ![p] = "draft"] ELSE status
    /\ amount' = IF s.op = "create" \/ s.new # s.amount THEN [amount EXCEPT ![p] = s.new]
                 ELSE amount
    /\ allocation' = [allocation EXCEPT ![p] = Replaced(t)]
    /\ late' = (late \/ status[p] \in {"posted", "cancelled"})
    /\ Forget(t)
    /\ UNCHANGED <<document, cash, locks, outdated, unlinked>>

\* Mutant of Deletable: no row refers to the payment.
DeletableAlways(t) == TRUE

\* The row of the cash operation refers to its payment and stops the DELETE, unless
\* the session has read that row: then it sets the reference to NULL.
Deletable(t) == session[t].linked \/ cash[session[t].payment].status = "none"

\* DELETE of the payment; its allocations go with it.
CommitDelete(t) ==
    LET p == session[t].payment IN
    /\ Doing(t, {"delete"}) /\ At(t, "commit")
    /\ status[p] # "deleted"
    /\ Free(payLock[p], t)
    /\ Deletable(t)
    /\ status' = [status EXCEPT ![p] = "deleted"]
    /\ amount' = [amount EXCEPT ![p] = NoAmount]
    /\ allocation' = [allocation EXCEPT ![p] = Nothing]
    /\ unlinked' = (unlinked \/ session[t].linked)
    /\ Forget(t)
    /\ UNCHANGED <<document, cash, locks, outdated, late>>
-----------------------------------------------------------------------------
(* Posting, reallocating and cancelling a payment *)

\* _load_payment(for_update=True), its first SELECT, and the check of the status.  A
\* request that waits for the row has read nothing yet.
LockPayment(t, operation, p) ==
    /\ At(t, "closed")
    /\ payLock[p] = NoTxn
    /\ Eligible(operation, p)
    /\ payLock' = [payLock EXCEPT ![p] = t]
    /\ session' = [session EXCEPT ![t] =
         Opened(IF operation = "cancel" THEN "commit" ELSE "load", operation, p)]
    /\ UNCHANGED <<rows, docLock, history>>

\* The amount and the allocations a payment is to have: what it has, or what the
\* request says.
Requested(t) ==
    CASE Doing(t, {"post"})    -> {session[t].amount} \X {allocation[session[t].payment]}
      [] Doing(t, {"replace"}) -> {session[t].amount} \X Ask
      [] Doing(t, {"create"})  -> Amount \X Ask
      [] OTHER -> Amount \X (Ask \cup {allocation[session[t].payment]})

\* Mutant of Load: the documents are not locked.
LoadUnlocked(t) ==
    LET p == session[t].payment IN
    /\ Doing(t, {"create", "update", "post", "replace"}) /\ At(t, "load")
    /\ \E r \in Requested(t) :
         session' = [session EXCEPT ![t].pc = "documents", ![t].new = r[1], ![t].ask = r[2],
                                    ![t].seen = Seen(p), ![t].view = View(p, r[2])]
    /\ UNCHANGED <<rows, locks, history>>

\* The SELECTs that follow: the allocations and their documents.  Posting and
\* reallocating then lock the documents.
Load(t) ==
    LET p == session[t].payment IN
    /\ Doing(t, {"create", "update", "post", "replace"}) /\ At(t, "load")
    /\ \E r \in Requested(t) :
         session' = [session EXCEPT ![t].pc = "documents", ![t].new = r[1], ![t].ask = r[2],
                                    ![t].seen = Seen(p), ![t].view = View(p, r[2]),
                                    ![t].wanted = IF Doing(t, {"post", "replace"})
                                                  THEN Rows(r[2]) ELSE {}]
    /\ UNCHANGED <<rows, locks, history>>

\* SELECT ... ORDER BY id FOR UPDATE locks the next document.
LockNextDocument(t) ==
    /\ Doing(t, {"post", "replace"}) /\ At(t, "documents")
    /\ \E d \in session[t].wanted :
         /\ \A other \in session[t].wanted : d <= other
         /\ docLock[d] = NoTxn
         /\ docLock' = [docLock EXCEPT ![d] = t]
         /\ session' = [session EXCEPT ![t].wanted = @ \ {d}]
    /\ UNCHANGED <<rows, payLock, history>>

\* The allocations asked for pass _validate_allocations.
Judge(t) ==
    /\ Doing(t, {"create", "update", "post", "replace"}) /\ At(t, "documents")
    /\ session[t].wanted = {}
    /\ Acceptable(t)
    /\ session' = [session EXCEPT ![t].pc = "commit",
                                  ![t].view = IF Doing(t, {"post", "replace"}) THEN @ ELSE Unseen]
    /\ UNCHANGED <<rows, locks, history>>

\* The rest of post_payment, with the row for the cash desk.
CommitPost(t) ==
    LET p == session[t].payment IN
    /\ Doing(t, {"post"}) /\ At(t, "commit")
    /\ status' = [status EXCEPT ![p] = "posted"]
    /\ cash' = [cash EXCEPT ![p] = [status |-> "posted", amount |-> session[t].amount]]
    /\ outdated' = (outdated \/ \E d \in Rows(session[t].ask) : Judged(t, d) # document[d])
    /\ Close(t)
    /\ UNCHANGED <<document, amount, allocation, late, unlinked>>

\* The rest of replace_posted_payment_allocations.
CommitReplace(t) ==
    LET p == session[t].payment IN
    /\ Doing(t, {"replace"}) /\ At(t, "commit")
    /\ NoDuplicate(t)
    /\ allocation' = [allocation EXCEPT ![p] = Replaced(t)]
    /\ outdated' = (outdated \/ \E d \in Rows(session[t].ask) : Judged(t, d) # document[d])
    /\ Forget(t)
    /\ docLock' = [d \in Document |-> IF docLock[d] = t THEN NoTxn ELSE docLock[d]]
    /\ payLock' = [payLock EXCEPT ![p] = NoTxn]
    /\ UNCHANGED <<document, status, amount, cash, late, unlinked>>

\* Mutant of CommitCancel: the cash operation stays.
CommitCancelButCash(t) ==
    /\ Doing(t, {"cancel"}) /\ At(t, "commit")
    /\ status' = [status EXCEPT ![session[t].payment] = "cancelled"]
    /\ Close(t)
    /\ UNCHANGED <<document, amount, allocation, cash, history>>

\* The rest of cancel_payment: cancel_payment_cash_operations and the status.
CommitCancel(t) ==
    /\ Doing(t, {"cancel"}) /\ At(t, "commit")
    /\ status' = [status EXCEPT ![session[t].payment] = "cancelled"]
    /\ cash' = [cash EXCEPT ![session[t].payment].status = "cancelled"]
    /\ Close(t)
    /\ UNCHANGED <<document, amount, allocation, history>>

\* cancel_cash_operation: the cash desk takes back the row of a payment.
CancelCash(p) ==
    /\ cash[p].status = "posted"
    /\ cash' = [cash EXCEPT ![p].status = "cancelled"]
    /\ UNCHANGED <<document, status, amount, allocation, locks, session, history>>
-----------------------------------------------------------------------------
(* Cancelling and correcting a document *)

\* Mutant of LockDocument: the document is read without FOR UPDATE.
LockDocumentNot(t, operation, d, total) ==
    /\ At(t, "closed")
    /\ document[d].status = "posted"
    /\ session' = [session EXCEPT ![t] = [pc |-> "load", op |-> operation,
                                         document |-> d, total |-> total]]
    /\ UNCHANGED <<rows, locks, history>>

\* _load_document(for_update=True) and the check of the status.
LockDocument(t, operation, d, total) ==
    /\ At(t, "closed")
    /\ docLock[d] = NoTxn
    /\ document[d].status = "posted"
    /\ docLock' = [docLock EXCEPT ![d] = t]
    /\ session' = [session EXCEPT ![t] = [pc |-> "load", op |-> operation,
                                         document |-> d, total |-> total]]
    /\ UNCHANGED <<rows, payLock, history>>

\* _active_document_allocations, and _validate_repost_allocations of a new total.
JudgeDocument(t) ==
    LET d == session[t].document IN
    /\ Doing(t, DocumentOperation) /\ At(t, "load")
    /\ Settled(d, Payment) <= IF session[t].op = "cancel_document" THEN 0 ELSE session[t].total
    /\ session' = [session EXCEPT ![t].pc = "commit"]
    /\ UNCHANGED <<rows, locks, history>>

CommitDocument(t) ==
    LET d == session[t].document IN
    /\ Doing(t, DocumentOperation) /\ At(t, "commit")
    /\ document' = [document EXCEPT ![d] =
         IF session[t].op = "cancel_document" THEN [@ EXCEPT !.status = "cancelled"]
         ELSE [@ EXCEPT !.total = session[t].total]]
    /\ Close(t)
    /\ UNCHANGED <<status, amount, allocation, cash, history>>

\* The end without a trace, of either kind of request: 404, 409 or 422, an
\* IntegrityError, a row that is gone, a refusal of the cash desk or of the stock, a
\* deadlock, a lost worker.
Abandon(t) ==
    /\ ~At(t, "closed")
    /\ Close(t)
    /\ UNCHANGED <<rows, history>>

Next ==
    \/ \E t \in Txn :
        \/ \E p \in Payment :
             \/ \E operation \in {"create", "update", "delete"} : ReadDraft(t, operation, p)
             \/ \E operation \in {"post", "replace", "cancel"} : LockPayment(t, operation, p)
        \/ CommitDraft(t)
        \/ CommitDelete(t)
        \/ Load(t)
        \/ LoadCash(t)
        \/ LockNextDocument(t)
        \/ Judge(t)
        \/ CommitPost(t)
        \/ CommitReplace(t)
        \/ CommitCancel(t)
        \/ \E d \in Document : \/ LockDocument(t, "cancel_document", d, 0)
                              \/ \E total \in Total : LockDocument(t, "repost_document", d, total)
        \/ JudgeDocument(t)
        \/ CommitDocument(t)
        \/ Abandon(t)
    \/ \E p \in Payment : CancelCash(p)

Spec == Init /\ [][Next]_vars
-----------------------------------------------------------------------------
(* Correctness *)

\* As long as no payment was judged by a document that had changed and no late edit
\* reached a posted payment, documents are never settled beyond their total, however
\* many payments are posted and reallocated at once, and what is cancelled is not
\* settled at all.
NeverOverpaid ==
    ~outdated /\ ~late =>
      \A d \in Document :
          Settled(d, Payment) <= IF document[d].status = "posted" THEN document[d].total ELSE 0

\* A posted payment gives away no more than its amount, whatever edits of the draft
\* overlapped before it was posted.
WithinAmount ==
    ~late => \A p \in Payment : status[p] = "posted" => Sum(allocation[p]) <= amount[p]

\* The cash desk follows the payments: nothing of a draft, one row of a posted
\* payment and of its amount, nothing left of a cancelled one.
CashFollows ==
    \A p \in Payment :
        /\ status[p] \in {"none", "draft"} => cash[p].status = "none"
        /\ status[p] = "deleted" => cash[p].status = "none" \/ unlinked
        /\ status[p] \in {"posted", "cancelled"} => cash[p].status # "none"
        /\ status[p] = "posted" /\ ~late => cash[p].amount = amount[p]
        /\ status[p] = "cancelled" => cash[p].status = "cancelled"

\* Money that was received stays on record: no request that found a draft deletes a
\* payment that has been posted, or makes it a draft again; but for a deletion that
\* read the payment before it was posted and the cash operation after.
PostedIsKept ==
    [][\A p \in Payment : status[p] \in {"posted", "cancelled"} =>
         \/ status'[p] \in {"posted", "cancelled"}
         \/ \E t \in Txn : Doing(t, {"delete"}) /\ session[t].payment = p /\ session[t].linked]_vars

\* "A posted document with active allocations cannot be cancelled ... and cannot
\* reduce its total below the posted allocated amount": whatever payments do at the
\* same time.
DocumentsRespectPayments ==
    [][\A d \in Document : document'[d] # document[d] =>
         Settled(d, Payment) <= IF document'[d].status = "posted" THEN document'[d].total ELSE 0]_vars

\* "Posting revalidates allocations while locking the affected documents": a payment
\* is posted only to documents that are posted then and owe as much.
RevalidationSeesChanges ==
    [][\A p \in Payment : status[p] = "draft" /\ status'[p] = "posted" =>
         \A d \in Rows(allocation'[p]) :
             /\ document[d].status = "posted"
             /\ allocation'[p][d] <= document[d].total]_vars
=============================================================================
