------------------------------- MODULE Reports -------------------------------
(* What the program tells of a partner is worked out anew for every question: *)
(* the balance by two sums in SQL, the statement row by row in Python, the    *)
(* open items document by document, the totals and the purchase price by other *)
(* queries again. Each takes several statements, and others commit in between. *)
EXTENDS Integers, Sequences, Functions

CONSTANTS Day,          \* dates, numbers
          Amount,       \* amounts of money
          MaxRows,      \* bound: documents and payments
          NoDocument    \* document_id is NULL

VARIABLES documents,    \* the partner's documents, one line each, by id
          payments,     \* and payments, each allocated as a whole or not at all
          visit         \* a reader, and what it has been told

vars == <<documents, payments, visit>>
-----------------------------------------------------------------------------
Document == [type : {"incoming", "outgoing"}, status : {"draft", "posted", "cancelled"},
             day : Day, amount : Amount]
Payment == [type : {"customer_payment", "supplier_payment", "refund"},
            status : {"posted", "cancelled"}, day : Day, amount : Amount,
            document : Nat \cup {NoDocument}]

Posted(rows) == {i \in DOMAIN rows : rows[i].status = "posted"}

\* Positive: the partner owes us.
DocumentEffect(d) ==
  IF d.status # "posted" THEN 0 ELSE IF d.type = "outgoing" THEN d.amount ELSE - d.amount
PaymentEffect(p) ==
  CASE p.status # "posted" -> 0
    [] p.status = "posted" /\ p.type = "customer_payment" -> - p.amount
    [] p.status = "posted" /\ p.type \in {"supplier_payment", "refund"} -> p.amount

Signed(d) == IF d.type = "outgoing" THEN d.amount ELSE - d.amount
Total(rows, ids) == SumFunctionOnSet([i \in DOMAIN rows |-> rows[i].amount], ids)

\* As if cancelled documents still counted.
DocumentSumOfAll(rows) ==
  SumFunctionOnSet([i \in DOMAIN rows |-> Signed(rows[i])],
                   {i \in DOMAIN rows : rows[i].status # "draft"})
\* The two sums of get_partner_balance_values.
DocumentSum(rows) ==
  Total(rows, {i \in Posted(rows) : rows[i].type = "outgoing"})
  - Total(rows, {i \in Posted(rows) : rows[i].type = "incoming"})
PaymentSum(rows) ==
  Total(rows, {i \in Posted(rows) : rows[i].type \in {"supplier_payment", "refund"}})
  - Total(rows, {i \in Posted(rows) : rows[i].type = "customer_payment"})

DocumentTypeOf(p) == IF p = "customer_payment" THEN "outgoing" ELSE "incoming"
Allocated(d, rows) == Total(rows, {i \in Posted(rows) : rows[i].document = d})
\* Never below zero.
Outstanding(d) ==
  LET left == documents[d].amount - Allocated(d, payments) IN IF left > 0 THEN left ELSE 0
-----------------------------------------------------------------------------
NoVisit == [pc |-> "start", rows |-> <<>>, balance |-> 0,
            items |-> {}, open |-> <<>>, turnover |-> 0, cost |-> 0]

TypeOK == /\ documents \in Seq(Document) /\ payments \in Seq(Payment)
          /\ Len(documents) + Len(payments) <= MaxRows
          /\ visit.pc \in {"start", "statement payments", "balance documents", "balance payments",
                           "options", "outstanding", "turnover", "register", "pricing", "done",
                           "torn"}
          /\ visit.balance \in Int

Init == documents = <<>> /\ payments = <<>> /\ visit = NoVisit

\* A transaction of another request commits. What a visit shows that is under
\* way mixes two states of the tables then, and the model forgets it.
Commit == /\ Len(documents') + Len(payments') <= MaxRows
          /\ visit' = IF visit.pc = "start" THEN visit ELSE [NoVisit EXCEPT !.pc = "torn"]

CreateDocument(d) ==
  documents' = Append(documents, [d EXCEPT !.status = "draft"]) /\ UNCHANGED payments /\ Commit
PostDocument(i) ==
  /\ documents[i].status = "draft"
  /\ documents' = [documents EXCEPT ![i].status = "posted"] /\ UNCHANGED payments /\ Commit
\* Refused while a posted payment is allocated to it.
CancelDocument(i) ==
  /\ documents[i].status = "posted" /\ Allocated(i, payments) = 0
  /\ documents' = [documents EXCEPT ![i].status = "cancelled"] /\ UNCHANGED payments /\ Commit
PostPayment(p) ==
  /\ p.document # NoDocument =>
       /\ p.type # "refund" /\ p.document \in Posted(documents)
       /\ documents[p.document].type = DocumentTypeOf(p.type)
       /\ p.amount <= Outstanding(p.document)
  /\ payments' = Append(payments, p) /\ UNCHANGED documents /\ Commit
CancelPayment(i) ==
  /\ payments[i].status = "posted"
  /\ payments' = [payments EXCEPT ![i].status = "cancelled"] /\ UNCHANGED documents /\ Commit
-----------------------------------------------------------------------------
Read(pc, next) == visit.pc = pc /\ visit' = next /\ UNCHANGED <<documents, payments>>

\* get_partner_statement: documents (0), then payments (1), sorted by date,
\* documents before payments, by id; debit less credit is the effect.
StatementDocuments ==
  Read("start", [NoVisit EXCEPT !.pc = "statement payments",
    !.rows = [e \in {0} \X DOMAIN documents |->
                [day |-> documents[e[2]].day, effect |-> DocumentEffect(documents[e[2]])]]])

Before(rows, e, f) ==
  \/ rows[e].day < rows[f].day
  \/ rows[e].day = rows[f].day /\ (e[1] < f[1] \/ (e[1] = f[1] /\ e[2] < f[2]))
UpTo(rows, e) == {f \in DOMAIN rows : f = e \/ Before(rows, f, e)}
\* The balance is counted on from row to row.
StatementPayments ==
  LET all == [e \in DOMAIN visit.rows \cup ({1} \X DOMAIN payments) |->
                IF e \in DOMAIN visit.rows THEN visit.rows[e]
                ELSE [day |-> payments[e[2]].day, effect |-> PaymentEffect(payments[e[2]])]]
      effect == [e \in DOMAIN all |-> all[e].effect]
  IN  Read("statement payments", [visit EXCEPT !.pc = "balance documents",
        !.rows = [e \in DOMAIN all |->
                    [day |-> all[e].day, balance |-> SumFunctionOnSet(effect, UpTo(all, e))]]])

\* get_partner_balance, get_partner_balances, partner_debts_report.
BalanceDocuments ==
  Read("balance documents",
       [visit EXCEPT !.pc = "balance payments", !.balance = DocumentSum(documents)])
BalancePayments ==
  Read("balance payments",
       [visit EXCEPT !.pc = "options", !.balance = visit.balance + PaymentSum(payments)])

\* get_payment_allocation_options, for either type of payment: the posted
\* documents, then what is allocated to each, in any order.
Options ==
  Read("options", [visit EXCEPT !.pc = "outstanding", !.items = Posted(documents)])
NextOption(d) ==
  LET rest == [visit EXCEPT !.items = @ \ {d}]
  IN  Read("outstanding",
           IF Outstanding(d) = 0 THEN rest
           ELSE [rest EXCEPT !.open = [e \in DOMAIN @ \cup {d} |->
                                         IF e = d THEN Outstanding(d) ELSE @[e]]])
OptionsEnd == visit.items = {} /\ Read("outstanding", [visit EXCEPT !.pc = "turnover"])

\* get_dashboard_summary: what went out less what came in, a sum for each.
Turnover ==
  Read("turnover", [visit EXCEPT !.pc = "register", !.turnover = DocumentSum(documents)])

\* documents_register_report, for posted documents: its rows are added up.
Register ==
  LET total == SumFunctionOnSet([i \in DOMAIN documents |-> Signed(documents[i])],
                                Posted(documents))
  IN  Read("register", [visit EXCEPT !.pc = "pricing", !.turnover = @ - total])

Purchases == {i \in Posted(documents) : documents[i].type = "incoming"}
\* The last purchase: the latest date, among those the greatest id.
Pricing ==
  LET last == CHOOSE i \in Purchases : \A j \in Purchases :
                \/ documents[j].day < documents[i].day
                \/ documents[j].day = documents[i].day /\ j <= i
  IN  Read("pricing", [visit EXCEPT !.pc = "done",
                         !.cost = IF Purchases = {} THEN 0 ELSE documents[last].amount])

Leave == visit.pc # "start" /\ visit' = NoVisit /\ UNCHANGED <<documents, payments>>

Next ==
  \/ \E d \in Document : CreateDocument(d)
  \/ \E i \in DOMAIN documents : PostDocument(i) \/ CancelDocument(i)
  \/ \E type \in {"customer_payment", "supplier_payment", "refund"}, day \in Day, a \in Amount,
        d \in DOMAIN documents \cup {NoDocument} :
       PostPayment([type |-> type, status |-> "posted", day |-> day, amount |-> a, document |-> d])
  \/ \E i \in DOMAIN payments : CancelPayment(i)
  \/ StatementDocuments \/ StatementPayments \/ BalanceDocuments \/ BalancePayments
  \/ Options \/ (\E d \in visit.items : NextOption(d)) \/ OptionsEnd
  \/ Turnover \/ Register \/ Pricing \/ Leave

Spec == Init /\ [][Next]_vars
-----------------------------------------------------------------------------
\* What was posted up to a day.
DueOn(day) ==
  SumFunctionOnSet([i \in DOMAIN documents |-> DocumentEffect(documents[i])],
                   {i \in DOMAIN documents : documents[i].day <= day})
  + SumFunctionOnSet([i \in DOMAIN payments |-> PaymentEffect(payments[i])],
                     {i \in DOMAIN payments : payments[i].day <= day})

\* The balance after the last row of a day is what was posted up to that day; the
\* last balance of all is the balance.
StatementAgrees ==
  LET rows == visit.rows
      last(e, S) == e \in S /\ \A f \in S : f \in UpTo(rows, e)
  IN  /\ \A e \in DOMAIN rows :
           last(e, {f \in DOMAIN rows : rows[f].day = rows[e].day})
             => rows[e].balance = DueOn(rows[e].day)
      /\ IF DOMAIN rows = {} THEN visit.balance = 0
         ELSE \E e \in DOMAIN rows : last(e, DOMAIN rows) /\ visit.balance = rows[e].balance

\* What the open items leave to pay is the balance, if no payment is without document.
OpenItemsAgree ==
  (\A i \in Posted(payments) : payments[i].document # NoDocument) =>
    visit.balance = SumFunctionOnSet([d \in DOMAIN visit.open |->
                                        IF documents[d].type = "outgoing" THEN visit.open[d]
                                        ELSE - visit.open[d]], DOMAIN visit.open)

\* What a reader is told of a partner in one visit, during which nothing was
\* committed, agrees: statement, balance, open items, dashboard and register;
\* and the purchase price is that of a purchase no other is later than.
ReportsAgree ==
  visit.pc = "done" =>
    /\ StatementAgrees /\ OpenItemsAgree /\ visit.turnover = 0
    /\ Purchases # {} =>
         \E i \in Purchases : /\ visit.cost = documents[i].amount
                              /\ \A j \in Purchases : documents[j].day <= documents[i].day
=============================================================================
