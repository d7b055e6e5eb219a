---------------------------- MODULE PaymentsProofs ----------------------------
(* Payments for any handlers, payments, documents, amounts and allocations:   *)
(* what is locked while a payment is posted or reallocated keeps the payment  *)
(* as it was read, and nothing more is settled of a document while somebody   *)
(* else holds its row.                                                        *)
EXTENDS Payments, SumLemmas, TLAPS

\* Posting, reallocating and cancelling hold the payment: it is what it was when read.
HoldsPayment(t) ==
    Doing(t, {"post", "replace", "cancel"}) =>
        /\ payLock[session[t].payment] = t
        /\ status[session[t].payment] = IF Doing(t, {"post"}) THEN "draft" ELSE "posted"
        /\ session[t].amount = amount[session[t].payment]

\* Its allocations may lose rows meanwhile and win none: the edit of a draft that only
\* deletes rows waits for nothing.
CoversRows(t) ==
    Doing(t, {"post", "replace"}) /\ ~At(t, "load") =>
        /\ session[t].new = session[t].amount
        /\ Doing(t, {"post"}) =>
             \A d \in Document : allocation[session[t].payment][d] <= session[t].ask[d]
        /\ Doing(t, {"replace"}) => Rows(allocation[session[t].payment]) \subseteq session[t].seen

\* The documents asked for are locked, and the judgement on them stands.
HoldsDocuments(t) ==
    Doing(t, {"post", "replace"}) /\ ~At(t, "load") =>
        /\ \A d \in Rows(session[t].ask) \ session[t].wanted : docLock[d] = t
        /\ At(t, "commit") => session[t].wanted = {} /\ Acceptable(t)

\* Cancelling and correcting hold a posted document, of which no more is settled than
\* was found.
HoldsDocument(t) ==
    Doing(t, DocumentOperation) =>
        /\ docLock[session[t].document] = t
        /\ document[session[t].document].status = "posted"
        /\ At(t, "commit") =>
             Settled(session[t].document, Payment)
               <= IF session[t].op = "cancel_document" THEN 0 ELSE session[t].total

\* The inductive invariant.
PaymentInv ==
    /\ TypeOK /\ CashFollows /\ WithinAmount /\ NeverOverpaid
    /\ \A t \in Txn : /\ HoldsPayment(t) /\ CoversRows(t)
                      /\ HoldsDocuments(t) /\ HoldsDocument(t)
-----------------------------------------------------------------------------
(* What is settled *)

\* What is settled of d in the payments of S, as the payments st and allocations al say.
Owed(st, al, d, S) ==
    SumFunctionOnSet([p \in Payment |-> al[p][d]], {p \in S : st[p] = "posted"})

\* What each payment settles of d.
Paid(st, al, d) == [p \in Payment |-> IF st[p] = "posted" THEN al[p][d] ELSE 0]

LEMMA OwedIsPaid ==
  ASSUME NEW st, NEW al \in [Payment -> Allocation], NEW d \in Document, NEW S \in SUBSET Payment
  PROVE  /\ Owed(st, al, d, S) = SumFunctionOnSet(Paid(st, al, d), S)
         /\ Owed(st, al, d, S) \in Nat
         /\ IsFiniteSet(S)
         /\ \A p \in S : Paid(st, al, d)[p] \in Nat
<1> DEFINE f == [p \in Payment |-> al[p][d]]
           g == Paid(st, al, d)
           R == {p \in S : st[p] = "posted"}
<1>1. IsFiniteSet(S) /\ IsFiniteSet(R) /\ R \subseteq S
  <2>1. IsFiniteSet(S)
    BY Tables, FS_Subset
  <2>2. QED
    BY <2>1, FS_Subset
<1>2. \A p \in Payment : al[p][d] \in Nat
  BY DEF Allocation
<1>3. \A p \in R : f[p] \in Int /\ f[p] = g[p]
  BY <1>2 DEF Paid
<1>4. \A p \in S : g[p] \in Nat /\ (p \notin R => g[p] = 0)
  BY <1>2 DEF Paid
<1>5. Owed(st, al, d, S) = SumFunctionOnSet(f, R)
  BY DEF Owed
<1> HIDE DEF f, g, R
<1>6. SumFunctionOnSet(f, R) = SumFunctionOnSet(g, R)
  BY <1>1, <1>3, SumSame
<1>7. SumFunctionOnSet(g, R) = SumFunctionOnSet(g, S)
  BY <1>1, <1>4, SumSupport
<1>8. SumFunctionOnSet(g, S) \in Nat
  BY <1>1, <1>4, SumNat
<1>9. QED
  BY <1>1, <1>4, <1>5, <1>6, <1>7, <1>8 DEF g

\* As long as no payment settles more of a document than before, no more of it is
\* settled in any set of payments.
LEMMA OwedLess ==
  ASSUME NEW st, NEW st2, NEW al \in [Payment -> Allocation], NEW al2 \in [Payment -> Allocation],
         NEW d \in Document, NEW S \in SUBSET Payment,
         \A p \in Payment : Paid(st2, al2, d)[p] <= Paid(st, al, d)[p]
  PROVE  Owed(st2, al2, d, S) <= Owed(st, al, d, S)
<1> DEFINE f == Paid(st2, al2, d)
           g == Paid(st, al, d)
<1>1. /\ IsFiniteSet(S) /\ \A p \in S : f[p] \in Nat /\ g[p] \in Nat
      /\ Owed(st2, al2, d, S) = SumFunctionOnSet(f, S) /\ Owed(st, al, d, S) = SumFunctionOnSet(g, S)
  BY OwedIsPaid
<1> HIDE DEF f, g
<1>2. \A p \in S : f[p] \in Int /\ g[p] \in Int /\ f[p] <= g[p]
  BY <1>1 DEF f, g
<1>3. SumFunctionOnSet(f, S) <= SumFunctionOnSet(g, S)
  BY <1>1, <1>2, SumLess
<1>4. QED
  BY <1>1, <1>3

\* What the payments but one settle, and what all settle.
LEMMA OwedButOne ==
  ASSUME NEW st, NEW al \in [Payment -> Allocation], NEW d \in Document, NEW p \in Payment
  PROVE  Owed(st, al, d, Payment)
           = Owed(st, al, d, Payment \ {p}) + (IF st[p] = "posted" THEN al[p][d] ELSE 0)
<1> DEFINE f == Paid(st, al, d)
<1>1. f[p] = (IF st[p] = "posted" THEN al[p][d] ELSE 0)
  BY DEF Paid
<1>2. /\ Owed(st, al, d, Payment) = SumFunctionOnSet(f, Payment)
      /\ Owed(st, al, d, Payment \ {p}) = SumFunctionOnSet(f, Payment \ {p})
      /\ Owed(st, al, d, Payment \ {p}) \in Nat
      /\ \A q \in Payment : f[q] \in Nat
  BY OwedIsPaid
<1> HIDE DEF f
<1>3. \A q \in Payment : f[q] \in Int
  BY <1>2
<1>4. SumFunctionOnSet(f, Payment) = f[p] + SumFunctionOnSet(f, Payment \ {p})
  BY <1>3, Tables, SumRemove
<1>5. f[p] \in Nat
  BY <1>2
<1>6. QED
  BY <1>1, <1>2, <1>4, <1>5

\* What one payment settles when only its own row and allocations change.
LEMMA OwedChange ==
  ASSUME NEW st, NEW st2, NEW al \in [Payment -> Allocation], NEW al2 \in [Payment -> Allocation],
         NEW d \in Document, NEW p \in Payment,
         \A q \in Payment \ {p} : Paid(st2, al2, d)[q] = Paid(st, al, d)[q]
  PROVE  Owed(st2, al2, d, Payment)
           = Owed(st, al, d, Payment \ {p}) + (IF st2[p] = "posted" THEN al2[p][d] ELSE 0)
<1> DEFINE f == Paid(st, al, d)
           g == Paid(st2, al2, d)
           S == Payment \ {p}
<1>1. \A q \in S : f[q] \in Int /\ f[q] = g[q]
  <2>1. \A q \in Payment : f[q] \in Nat
    BY OwedIsPaid
  <2> HIDE DEF f
  <2>2. QED
    BY <2>1 DEF f
<1>2. IsFiniteSet(S)
  BY Tables, FS_Subset
<1>3. S \in SUBSET Payment
  OBVIOUS
<1>4. /\ Owed(st, al, d, S) = SumFunctionOnSet(f, S)
      /\ Owed(st2, al2, d, S) = SumFunctionOnSet(g, S)
  BY <1>3, OwedIsPaid
<1>5. SumFunctionOnSet(f, S) = SumFunctionOnSet(g, S)
  <2> HIDE DEF f, g, S
  <2>1. QED
    BY <1>1, <1>2, SumSame
<1>6. Owed(st2, al2, d, Payment) = Owed(st2, al2, d, S) + (IF st2[p] = "posted" THEN al2[p][d] ELSE 0)
  BY OwedButOne
<1> HIDE DEF f, g
<1>7. QED
  BY <1>4, <1>5, <1>6

\* It moves its allocations, or is posted with them.
LEMMA OwedMoved ==
  ASSUME NEW st, NEW al \in [Payment -> Allocation], NEW al2 \in [Payment -> Allocation],
         NEW d \in Document, NEW p \in Payment, st[p] = "posted",
         \A q \in Payment \ {p} : al2[q] = al[q]
  PROVE  Owed(st, al2, d, Payment) = Owed(st, al, d, Payment \ {p}) + al2[p][d]
<1>1. \A q \in Payment \ {p} : Paid(st, al2, d)[q] = Paid(st, al, d)[q]
  BY DEF Paid
<1>2. Owed(st, al2, d, Payment)
        = Owed(st, al, d, Payment \ {p}) + (IF st[p] = "posted" THEN al2[p][d] ELSE 0)
  BY <1>1, OwedChange
<1>3. QED
  BY <1>2

LEMMA OwedPosted ==
  ASSUME NEW st, NEW st2, NEW al \in [Payment -> Allocation],
         NEW d \in Document, NEW p \in Payment, st2[p] = "posted",
         \A q \in Payment \ {p} : st2[q] = st[q]
  PROVE  Owed(st2, al, d, Payment) = Owed(st, al, d, Payment \ {p}) + al[p][d]
<1>1. \A q \in Payment \ {p} : Paid(st2, al, d)[q] = Paid(st, al, d)[q]
  BY DEF Paid
<1>2. Owed(st2, al, d, Payment)
        = Owed(st, al, d, Payment \ {p}) + (IF st2[p] = "posted" THEN al[p][d] ELSE 0)
  BY <1>1, OwedChange
<1>3. QED
  BY <1>2

\* The sum of allocations, and of fewer of them.
LEMMA SumOfRows ==
  ASSUME NEW a \in Allocation, NEW b \in Allocation, \A d \in Document : a[d] <= b[d]
  PROVE  Sum(a) <= Sum(b) /\ Sum(a) \in Nat
<1>1. IsFiniteSet(Document) /\ IsFiniteSet(Rows(a)) /\ IsFiniteSet(Rows(b))
  BY Tables, FS_Subset DEF Rows
<1>2. /\ \A d \in Document : /\ a[d] \in Int /\ (d \notin Rows(a) => a[d] = 0)
                             /\ b[d] \in Int /\ (d \notin Rows(b) => b[d] = 0)
                             /\ a[d] \in Nat
      /\ Rows(a) \subseteq Document /\ Rows(b) \subseteq Document
  BY DEF Allocation, Rows
<1>3. /\ SumFunctionOnSet(a, Rows(a)) = SumFunctionOnSet(a, Document)
      /\ SumFunctionOnSet(b, Rows(b)) = SumFunctionOnSet(b, Document)
  <2>1. SumFunctionOnSet(a, Rows(a)) = SumFunctionOnSet(a, Document)
    BY <1>1, <1>2, SumSupport
  <2>2. SumFunctionOnSet(b, Rows(b)) = SumFunctionOnSet(b, Document)
    BY <1>1, <1>2, SumSupport
  <2>3. QED
    BY <2>1, <2>2
<1>4. SumFunctionOnSet(a, Document) <= SumFunctionOnSet(b, Document)
  BY <1>1, <1>2, SumLess
<1>5. SumFunctionOnSet(a, Document) \in Nat
  BY <1>1, <1>2, SumNat
<1>6. QED
  BY <1>3, <1>4, <1>5 DEF Sum
-----------------------------------------------------------------------------
(* What a step of one handler leaves to the others *)

\* The judgement of a session on the documents and what is settled of them.
JudgedBy(s, doc, d) == IF s.view[d] = NotViewed THEN doc[d] ELSE s.view[d]
Counted(s) == IF s.op = "replace" THEN Payment \ {s.payment} ELSE Payment
Fits(s, doc, st, al) ==
    /\ Sum(s.ask) <= s.new
    /\ \A d \in Rows(s.ask) :
         /\ JudgedBy(s, doc, d).status = "posted"
         /\ s.ask[d] <= JudgedBy(s, doc, d).total - Owed(st, al, d, Counted(s))

LEMMA FitsNow ==
  ASSUME NEW t \in Txn, ~At(t, "closed")
  PROVE  Acceptable(t) <=> Fits(session[t], document, status, allocation)
<1>1. Doing(t, {"replace"}) <=> session[t].op = "replace"
  BY DEF Doing
<1>2. \A d : /\ Judged(t, d) = JudgedBy(session[t], document, d)
             /\ Outstanding(t, d) = JudgedBy(session[t], document, d).total
                                      - Owed(status, allocation, d, Counted(session[t]))
  BY <1>1 DEF Judged, JudgedBy, Outstanding, Settled, Owed, Counted
<1>3. QED
  BY <1>2 DEF Acceptable, Fits

LEMMA FitsNext ==
  ASSUME NEW t \in Txn, ~At(t, "closed")'
  PROVE  Acceptable(t)' <=> Fits(session'[t], document', status', allocation')
<1>1. Doing(t, {"replace"})' <=> session'[t].op = "replace"
  BY DEF Doing
<1>2. \A d : /\ Judged(t, d)' = JudgedBy(session'[t], document', d)
             /\ Outstanding(t, d)' = JudgedBy(session'[t], document', d).total
                                       - Owed(status', allocation', d, Counted(session'[t]))
  BY <1>1 DEF Judged, JudgedBy, Outstanding, Settled, Owed, Counted
<1>3. QED
  BY <1>2 DEF Acceptable, Fits, Sum, Rows

\* A session that at most forgets rows it has seen.
Alike(s, r) ==
    \/ r = s
    \/ s \in PaymentSession /\ \E x \in SUBSET Document : r = [s EXCEPT !.seen = x]

LEMMA AlikeFields ==
  ASSUME TypeOK, NEW t \in Txn, Alike(session[t], session'[t])
  PROVE  /\ \A place : At(t, place)' <=> At(t, place)
         /\ \A S : Doing(t, S)' <=> Doing(t, S)
         /\ Doing(t, DocumentOperation) => session'[t] = session[t]
         /\ Doing(t, PaymentOperation) =>
              /\ session[t] \in PaymentSession
              /\ session'[t].op = session[t].op /\ session'[t].payment = session[t].payment
              /\ session'[t].amount = session[t].amount /\ session'[t].new = session[t].new
              /\ session'[t].ask = session[t].ask /\ session'[t].view = session[t].view
              /\ session'[t].wanted = session[t].wanted
<1>1. session[t] \in PaymentSession => session[t].op \in PaymentOperation
  BY DEF PaymentSession
<1>2. session[t] \in DocumentSession => session[t].op \in DocumentOperation
  BY DEF DocumentSession
<1>3. session[t] \in PaymentSession \cup DocumentSession \cup {Closed}
  BY DEF TypeOK
<1>4. PaymentOperation \cap DocumentOperation = {}
  BY DEF PaymentOperation, DocumentOperation
<1>5. Doing(t, PaymentOperation) => session[t] \in PaymentSession
  BY <1>2, <1>3, <1>4 DEF Doing, At, Closed
<1>6. CASE session'[t] = session[t]
  BY <1>5, <1>6 DEF At, Doing
<1>7. CASE session[t] \in PaymentSession /\ \E x \in SUBSET Document : session'[t] = [session[t] EXCEPT !.seen = x]
  <2> PICK x \in SUBSET Document : session'[t] = [session[t] EXCEPT !.seen = x]
    BY <1>7
  <2> DEFINE s == session[t]
             r == session'[t]
  <2>1. /\ r.pc = s.pc /\ r.op = s.op /\ r.payment = s.payment /\ r.amount = s.amount
        /\ r.new = s.new /\ r.ask = s.ask /\ r.view = s.view /\ r.wanted = s.wanted
    BY <1>7 DEF PaymentSession
  <2>2. ~Doing(t, DocumentOperation)
    BY <1>1, <1>4, <1>7 DEF Doing
  <2>3. QED
    BY <1>5, <2>1, <2>2 DEF At, Doing
<1>8. QED
  BY <1>6, <1>7 DEF Alike

\* The payments that others hold stay as they are, but that allocations may go.
SparesPayments(u) ==
    \A p \in Payment : payLock[p] \in Txn \ {u} /\ status[p] # "none" =>
        /\ status'[p] = status[p] /\ amount'[p] = amount[p]
        /\ \A d \in Document : allocation'[p][d] <= allocation[p][d]

\* The documents that others hold stay as they are, and nothing more is settled of them.
SparesDocuments(u) ==
    \A d \in Document : docLock[d] \in Txn \ {u} =>
        /\ document'[d] = document[d]
        /\ \A p \in Payment : Paid(status', allocation', d)[p] <= Paid(status, allocation, d)[p]

\* What a step of u has to show for the invariant to hold after it.
LEMMA Kept ==
  ASSUME PaymentInv, TypeOK', NEW u \in Txn,
         \A t \in Txn \ {u} : Alike(session[t], session'[t]),
         \A t \in Txn \ {u} : /\ \A p \in Payment : payLock[p] = t => payLock'[p] = t
                              /\ \A d \in Document : docLock[d] = t => docLock'[d] = t,
         SparesPayments(u), SparesDocuments(u),
         \A t \in Txn \ {u} : Doing(t, {"replace"}) /\ ~At(t, "load")
            => (Rows(allocation[session[t].payment]) \subseteq session[t].seen
                  => Rows(allocation'[session[t].payment]) \subseteq session'[t].seen),
         CashFollows', WithinAmount', NeverOverpaid',
         HoldsPayment(u)', CoversRows(u)', HoldsDocuments(u)', HoldsDocument(u)'
  PROVE  PaymentInv'
<1>0. TypeOK /\ TypeOK'
  BY DEF PaymentInv
<1> SUFFICES ASSUME NEW t \in Txn \ {u}
             PROVE  HoldsPayment(t)' /\ CoversRows(t)' /\ HoldsDocuments(t)' /\ HoldsDocument(t)'
  BY DEF PaymentInv
<1>1. /\ \A place : At(t, place)' <=> At(t, place)
      /\ \A S : Doing(t, S)' <=> Doing(t, S)
      /\ Doing(t, DocumentOperation) => session'[t] = session[t]
  BY <1>0, AlikeFields
<1>2. Doing(t, PaymentOperation) =>
        /\ session[t] \in PaymentSession
        /\ session'[t].op = session[t].op /\ session'[t].payment = session[t].payment
        /\ session'[t].amount = session[t].amount /\ session'[t].new = session[t].new
        /\ session'[t].ask = session[t].ask /\ session'[t].view = session[t].view
        /\ session'[t].wanted = session[t].wanted
  BY <1>0, AlikeFields
<1>3. Doing(t, {"post"}) \/ Doing(t, {"replace"}) \/ Doing(t, {"cancel"})
        \/ Doing(t, {"post", "replace"}) \/ Doing(t, {"post", "replace", "cancel"})
        => Doing(t, PaymentOperation) /\ Doing(t, {"post", "replace", "cancel"})
  BY DEF Doing, PaymentOperation
<1>4. HoldsPayment(t) /\ CoversRows(t) /\ HoldsDocuments(t) /\ HoldsDocument(t)
  BY DEF PaymentInv
<1>5. Doing(t, PaymentOperation) => /\ session[t].payment \in Payment
                                    /\ session[t].ask \in Allocation
                                    /\ session[t].view \in [Document -> DocumentRow]
  BY <1>2 DEF PaymentSession
<1>6. Doing(t, {"post", "replace", "cancel"}) =>
        /\ payLock[session[t].payment] = t /\ status[session[t].payment] # "none"
  BY <1>4 DEF HoldsPayment
<1>7. HoldsPayment(t)'
  <2> SUFFICES ASSUME Doing(t, {"post", "replace", "cancel"})
               PROVE  /\ payLock'[session'[t].payment] = t
                      /\ status'[session'[t].payment] = IF Doing(t, {"post"}) THEN "draft" ELSE "posted"
                      /\ session'[t].amount = amount'[session'[t].payment]
    BY <1>1 DEF HoldsPayment
  <2>1. QED
    BY <1>2, <1>3, <1>4, <1>5, <1>6 DEF HoldsPayment, SparesPayments
<1>8. CoversRows(t)'
  <2> DEFINE p == session[t].payment
  <2> SUFFICES ASSUME Doing(t, {"post", "replace"}), ~At(t, "load")
               PROVE  /\ session'[t].new = session'[t].amount
                      /\ Doing(t, {"post"}) =>
                           \A d \in Document : allocation'[p][d] <= session[t].ask[d]
                      /\ Doing(t, {"replace"}) => Rows(allocation'[p]) \subseteq session'[t].seen
    BY <1>1, <1>2, <1>3 DEF CoversRows, Rows
  <2>1. session[t].new = session[t].amount
    BY <1>4 DEF CoversRows
  <2>2. p \in Payment /\ \A d \in Document : allocation'[p][d] <= allocation[p][d]
    BY <1>3, <1>5, <1>6 DEF SparesPayments
  <2>3. ASSUME Doing(t, {"post"}), NEW d \in Document PROVE allocation'[p][d] <= session[t].ask[d]
    <3>1. allocation[p][d] \in Nat /\ allocation'[p][d] \in Nat /\ session[t].ask[d] \in Nat
      BY <1>0, <1>3, <1>5, <2>2, <2>3 DEF TypeOK, Allocation
    <3>2. allocation[p][d] <= session[t].ask[d]
      BY <1>4, <2>3 DEF CoversRows
    <3>3. QED
      BY <2>2, <3>1, <3>2
  <2>4. Doing(t, {"replace"}) => Rows(allocation[p]) \subseteq session[t].seen
    BY <1>4 DEF CoversRows
  <2>5. QED
    BY <1>2, <1>3, <2>1, <2>3, <2>4
<1>9. HoldsDocuments(t)'
  <2> DEFINE s == session[t]
             r == session'[t]
  <2> SUFFICES ASSUME Doing(t, {"post", "replace"}), ~At(t, "load")
               PROVE  /\ \A d \in Rows(s.ask) \ s.wanted : docLock'[d] = t
                      /\ At(t, "commit") => s.wanted = {} /\ Acceptable(t)'
    BY <1>1, <1>2, <1>3 DEF HoldsDocuments, Rows
  <2>1. /\ \A d \in Rows(s.ask) \ s.wanted : docLock[d] = t
        /\ At(t, "commit") => s.wanted = {} /\ Acceptable(t)
    BY <1>4 DEF HoldsDocuments
  <2>2. Rows(s.ask) \subseteq Document
    BY DEF Rows
  <2>3. ASSUME At(t, "commit") PROVE Acceptable(t)'
    <3>1. ~At(t, "closed") /\ ~At(t, "closed")'
      BY <1>1 DEF Doing
    <3>2. Fits(s, document, status, allocation)
      BY <2>1, <2>3, <3>1, FitsNow
    <3>3. r.ask = s.ask /\ r.new = s.new /\ r.view = s.view /\ r.op = s.op /\ r.payment = s.payment
      BY <1>2, <1>3
    <3>4. ASSUME NEW d \in Rows(s.ask)
          PROVE  /\ document'[d] = document[d]
                 /\ Owed(status', allocation', d, Counted(s)) <= Owed(status, allocation, d, Counted(s))
                 /\ Owed(status', allocation', d, Counted(s)) \in Nat
                 /\ Owed(status, allocation, d, Counted(s)) \in Nat
                 /\ s.ask[d] \in Nat /\ JudgedBy(s, document, d).total \in Nat
      <4>1. docLock[d] = t /\ d \in Document
        BY <2>1, <2>2, <2>3
      <4>2. allocation \in [Payment -> Allocation] /\ allocation' \in [Payment -> Allocation]
        BY <1>0 DEF TypeOK
      <4>3. Counted(s) \in SUBSET Payment
        BY DEF Counted
      <4>4. Owed(status', allocation', d, Counted(s)) <= Owed(status, allocation, d, Counted(s))
        BY <4>1, <4>2, <4>3, OwedLess DEF SparesDocuments
      <4>5. /\ Owed(status', allocation', d, Counted(s)) \in Nat
            /\ Owed(status, allocation, d, Counted(s)) \in Nat
        BY <4>1, <4>2, <4>3, OwedIsPaid
      <4>6. s.ask[d] \in Nat
        BY <1>3, <1>5, <4>1 DEF Allocation
      <4>7. document[d] \in DocumentRow /\ s.view[d] \in DocumentRow
        BY <1>0, <1>3, <1>5, <4>1 DEF TypeOK
      <4>8. JudgedBy(s, document, d).total \in Nat
        BY <4>7 DEF JudgedBy, DocumentRow
      <4>9. QED
        BY <4>1, <4>4, <4>5, <4>6, <4>8 DEF SparesDocuments
    <3>5. Counted(r) = Counted(s) /\ \A d : JudgedBy(r, document', d) = JudgedBy(s, document', d)
      BY <3>3 DEF Counted, JudgedBy
    <3>6. \A d \in Rows(s.ask) : JudgedBy(s, document', d) = JudgedBy(s, document, d)
      BY <3>4 DEF JudgedBy
    <3> HIDE DEF s, r
    <3>7. ASSUME NEW d \in Rows(s.ask)
          PROVE  /\ JudgedBy(r, document', d).status = "posted"
                 /\ s.ask[d] <= JudgedBy(r, document', d).total - Owed(status', allocation', d, Counted(r))
      <4>1. /\ JudgedBy(s, document, d).status = "posted"
            /\ s.ask[d] <= JudgedBy(s, document, d).total - Owed(status, allocation, d, Counted(s))
        BY <3>2 DEF Fits
      <4>2. QED
        BY <3>4, <3>5, <3>6, <4>1
    <3>8. Sum(r.ask) <= r.new
      BY <3>2, <3>3 DEF Fits
    <3>9. Fits(r, document', status', allocation')
      BY <3>3, <3>7, <3>8 DEF Fits
    <3>10. QED
      BY <3>1, <3>9, FitsNext DEF r
  <2>4. QED
    BY <2>1, <2>2, <2>3
<1>10. HoldsDocument(t)'
  <2> DEFINE d == session[t].document
             limit == IF session[t].op = "cancel_document" THEN 0 ELSE session[t].total
  <2> SUFFICES ASSUME Doing(t, DocumentOperation)
               PROVE  /\ docLock'[d] = t /\ document'[d].status = "posted"
                      /\ At(t, "commit") => Owed(status', allocation', d, Payment) <= limit
    BY <1>1 DEF HoldsDocument, Settled, Owed
  <2>1. /\ docLock[d] = t /\ document[d].status = "posted"
        /\ At(t, "commit") => Owed(status, allocation, d, Payment) <= limit
    BY <1>4 DEF HoldsDocument, Settled, Owed
  <2>2. session[t] \in DocumentSession
    <3>1. session[t] \in PaymentSession => session[t].op \notin DocumentOperation
      BY DEF PaymentSession, PaymentOperation, DocumentOperation
    <3>2. QED
      BY <1>0, <3>1 DEF TypeOK, Doing, At, Closed
  <2>3. d \in Document /\ limit \in Nat
    BY <2>2 DEF DocumentSession
  <2>4. allocation \in [Payment -> Allocation] /\ allocation' \in [Payment -> Allocation]
    BY <1>0 DEF TypeOK
  <2> HIDE DEF d, limit
  <2>5. /\ Owed(status', allocation', d, Payment) <= Owed(status, allocation, d, Payment)
        /\ Owed(status', allocation', d, Payment) \in Nat /\ Owed(status, allocation, d, Payment) \in Nat
    <3>1. \A p \in Payment : Paid(status', allocation', d)[p] <= Paid(status, allocation, d)[p]
      BY <2>1, <2>3 DEF SparesDocuments
    <3>2. QED
      BY <2>3, <2>4, <3>1, OwedLess, OwedIsPaid
  <2>6. QED
    BY <2>1, <2>3, <2>5 DEF SparesDocuments
<1>11. QED
  BY <1>7, <1>8, <1>9, <1>10
-----------------------------------------------------------------------------
(* The steps that change no row *)

\* A step of u that changes nothing but its own session and takes or leaves locks.
LEMMA Quiet ==
  ASSUME PaymentInv, TypeOK', NEW u \in Txn, UNCHANGED <<rows, history>>,
         \A t \in Txn \ {u} : session'[t] = session[t],
         \A t \in Txn \ {u} : /\ \A p \in Payment : payLock[p] = t => payLock'[p] = t
                              /\ \A d \in Document : docLock[d] = t => docLock'[d] = t,
         HoldsPayment(u)', CoversRows(u)', HoldsDocuments(u)', HoldsDocument(u)'
  PROVE  PaymentInv'
<1>1. TypeOK /\ UNCHANGED <<document, status, amount, allocation, cash, outdated, late, unlinked>>
  BY DEF PaymentInv, rows, history
<1>2. CashFollows'
  BY <1>1 DEF PaymentInv, CashFollows
<1>3. WithinAmount'
  BY <1>1 DEF PaymentInv, WithinAmount, Sum, Rows
<1>4. NeverOverpaid'
  BY <1>1 DEF PaymentInv, NeverOverpaid, Settled
<1>5. \A p \in Payment, d \in Document : allocation[p][d] <= allocation[p][d]
  BY <1>1 DEF TypeOK, Allocation
<1>6. \A t \in Txn \ {u} : Alike(session[t], session'[t])
  BY DEF Alike
<1>7. \A t \in Txn \ {u} : Rows(allocation[session[t].payment]) \subseteq session[t].seen
        => Rows(allocation'[session[t].payment]) \subseteq session'[t].seen
  BY <1>1
<1>8. SparesPayments(u)
  BY <1>1, <1>5 DEF SparesPayments
<1>9. SparesDocuments(u)
  <2>1. ASSUME NEW d \in Document, NEW p \in Payment
        PROVE  Paid(status, allocation, d)[p] \in Nat
    BY <1>1, OwedIsPaid DEF TypeOK
  <2>2. \A d \in Document, p \in Payment :
          Paid(status', allocation', d)[p] <= Paid(status, allocation, d)[p]
    BY <1>1, <2>1
  <2>3. QED
    BY <1>1, <2>2 DEF SparesDocuments
<1>10. QED
  BY <1>2, <1>3, <1>4, <1>6, <1>7, <1>8, <1>9, Kept

\* A session is replaced by another of its type.
LEMMA OneSession ==
  ASSUME TypeOK, NEW t \in Txn, NEW s \in PaymentSession \cup DocumentSession \cup {Closed},
         session' = [session EXCEPT ![t] = s]
  PROVE  /\ session'[t] = s /\ \A u \in Txn \ {t} : session'[u] = session[u]
         /\ session' \in [Txn -> PaymentSession \cup DocumentSession \cup {Closed}]
BY DEF TypeOK

\* What a session is, by what it does.
LEMMA Sessions ==
  ASSUME TypeOK, NEW t \in Txn
  PROVE  /\ Doing(t, PaymentOperation) => session[t] \in PaymentSession
         /\ Doing(t, DocumentOperation) => session[t] \in DocumentSession
         /\ \A S \in SUBSET PaymentOperation : Doing(t, S) => Doing(t, PaymentOperation)
<1>1. session[t] \in PaymentSession => session[t].op \in PaymentOperation
  BY DEF PaymentSession
<1>2. session[t] \in DocumentSession => session[t].op \in DocumentOperation
  BY DEF DocumentSession
<1>3. PaymentOperation \cap DocumentOperation = {}
  BY DEF PaymentOperation, DocumentOperation
<1>4. QED
  BY <1>1, <1>2, <1>3 DEF TypeOK, Doing, At, Closed

\* The end of a request.
LEMMA Ended ==
  ASSUME TypeOK, NEW t \in Txn, Close(t)
  PROVE  /\ session' \in [Txn -> PaymentSession \cup DocumentSession \cup {Closed}]
         /\ docLock' \in [Document -> Txn \cup {NoTxn}] /\ payLock' \in [Payment -> Txn \cup {NoTxn}]
         /\ \A u \in Txn \ {t} : session'[u] = session[u]
         /\ \A u \in Txn \ {t} : /\ \A p \in Payment : payLock[p] = u => payLock'[p] = u
                                 /\ \A d \in Document : docLock[d] = u => docLock'[d] = u
         /\ HoldsPayment(t)' /\ CoversRows(t)' /\ HoldsDocuments(t)' /\ HoldsDocument(t)'
<1>1. At(t, "closed")'
  BY DEF TypeOK, Close, Closed, At
<1>2. HoldsPayment(t)' /\ CoversRows(t)' /\ HoldsDocuments(t)' /\ HoldsDocument(t)'
  BY <1>1 DEF Doing, HoldsPayment, CoversRows, HoldsDocuments, HoldsDocument
<1>3. QED
  BY <1>2 DEF TypeOK, Close

LEMMA AbandonKeeps ==
  ASSUME PaymentInv, NEW t \in Txn, Abandon(t) PROVE PaymentInv'
<1>1. TypeOK /\ Close(t) /\ UNCHANGED <<rows, history>>
  BY DEF PaymentInv, Abandon
<1>2. TypeOK'
  BY <1>1, Ended DEF TypeOK, rows, history
<1>3. QED
  BY <1>1, <1>2, Ended, Quiet

\* A payment's row is read.
LEMMA OpenedSession ==
  ASSUME TypeOK, NEW p \in Payment, NEW place \in {"load", "commit"},
         NEW operation \in PaymentOperation
  PROVE  Opened(place, operation, p) \in PaymentSession
<1>1. Nothing \in Allocation /\ Unseen \in [Document -> DocumentRow]
  BY DEF Nothing, Allocation, Unseen, NotViewed, DocumentRow
<1>2. amount[p] \in Amount
  BY DEF TypeOK
<1>3. QED
  BY <1>1, <1>2 DEF Opened, PaymentSession

LEMMA ReadDraftKeeps ==
  ASSUME PaymentInv, NEW t \in Txn, NEW p \in Payment, NEW operation \in {"create", "update", "delete"},
         ReadDraft(t, operation, p)
  PROVE  PaymentInv'
<1> DEFINE s == Opened("load", operation, p)
<1>1. TypeOK /\ UNCHANGED <<rows, locks, history>> /\ session' = [session EXCEPT ![t] = s]
  BY DEF PaymentInv, ReadDraft
<1>2. s \in PaymentSession /\ s.op = operation
  BY <1>1, OpenedSession DEF Opened, PaymentOperation
<1> HIDE DEF s
<1>3. /\ session'[t] = s /\ \A u \in Txn \ {t} : session'[u] = session[u]
      /\ session' \in [Txn -> PaymentSession \cup DocumentSession \cup {Closed}]
  BY <1>1, <1>2, OneSession
<1>4. TypeOK'
  BY <1>1, <1>3 DEF TypeOK, rows, locks, history
<1>5. HoldsPayment(t)' /\ CoversRows(t)' /\ HoldsDocuments(t)' /\ HoldsDocument(t)'
  BY <1>2, <1>3 DEF Doing, DocumentOperation, HoldsPayment, CoversRows, HoldsDocuments, HoldsDocument
<1>6. QED
  BY <1>1, <1>3, <1>4, <1>5, Quiet DEF locks

LEMMA LockPaymentKeeps ==
  ASSUME PaymentInv, NEW t \in Txn, NEW p \in Payment, NEW operation \in {"post", "replace", "cancel"},
         LockPayment(t, operation, p)
  PROVE  PaymentInv'
<1> DEFINE place == IF operation = "cancel" THEN "commit" ELSE "load"
           s == Opened(place, operation, p)
<1>1. /\ TypeOK /\ UNCHANGED <<rows, docLock, history>> /\ session' = [session EXCEPT ![t] = s]
      /\ payLock[p] = NoTxn /\ payLock' = [payLock EXCEPT ![p] = t] /\ Eligible(operation, p)
  BY DEF PaymentInv, LockPayment
<1>2. /\ s \in PaymentSession /\ s.op = operation /\ s.payment = p /\ s.amount = amount[p]
      /\ s.pc = place
  BY <1>1, OpenedSession DEF Opened, PaymentOperation
<1> HIDE DEF s
<1>3. /\ session'[t] = s /\ \A u \in Txn \ {t} : session'[u] = session[u]
      /\ session' \in [Txn -> PaymentSession \cup DocumentSession \cup {Closed}]
  BY <1>1, <1>2, OneSession
<1>4. TypeOK'
  BY <1>1, <1>3 DEF TypeOK, rows, history
<1>5. status[p] = IF operation = "post" THEN "draft" ELSE "posted"
  BY <1>1 DEF Eligible
<1>6. payLock'[p] = t
  BY <1>1 DEF TypeOK
<1>7. HoldsPayment(t)'
  BY <1>1, <1>2, <1>3, <1>5, <1>6 DEF Doing, HoldsPayment, rows
<1>8. CoversRows(t)' /\ HoldsDocuments(t)' /\ HoldsDocument(t)'
  BY <1>2, <1>3 DEF Doing, At, DocumentOperation, CoversRows, HoldsDocuments, HoldsDocument
<1>9. \A u \in Txn \ {t} : /\ \A q \in Payment : payLock[q] = u => payLock'[q] = u
                           /\ \A d \in Document : docLock[d] = u => docLock'[d] = u
  BY <1>1, Nobody DEF TypeOK
<1>10. QED
  BY <1>1, <1>3, <1>4, <1>7, <1>8, <1>9, Quiet

LEMMA LoadCashKeeps ==
  ASSUME PaymentInv, NEW t \in Txn, LoadCash(t) PROVE PaymentInv'
<1> DEFINE s == [session[t] EXCEPT !.pc = "commit", !.linked = cash[session[t].payment].status # "none"]
<1>1. TypeOK /\ Doing(t, {"delete"}) /\ UNCHANGED <<rows, locks, history>>
  BY DEF PaymentInv, LoadCash
<1>2. session[t] \in PaymentSession
  BY <1>1, Sessions DEF PaymentOperation
<1>3. s \in PaymentSession /\ s.op = "delete"
  BY <1>1, <1>2 DEF PaymentSession, Doing
<1>4. session' = [session EXCEPT ![t] = s]
  BY <1>1, <1>2 DEF LoadCash, TypeOK
<1> HIDE DEF s
<1>5. /\ session'[t] = s /\ \A u \in Txn \ {t} : session'[u] = session[u]
      /\ session' \in [Txn -> PaymentSession \cup DocumentSession \cup {Closed}]
  BY <1>1, <1>3, <1>4, OneSession
<1>6. TypeOK'
  BY <1>1, <1>5 DEF TypeOK, rows, locks, history
<1>7. HoldsPayment(t)' /\ CoversRows(t)' /\ HoldsDocuments(t)' /\ HoldsDocument(t)'
  BY <1>3, <1>5 DEF Doing, DocumentOperation, HoldsPayment, CoversRows, HoldsDocuments, HoldsDocument
<1>8. QED
  BY <1>1, <1>5, <1>6, <1>7, Quiet DEF locks

\* What can be asked for is an amount and allocations.
LEMMA RequestedTypes ==
  ASSUME TypeOK, NEW t \in Txn, Doing(t, {"create", "update", "post", "replace"}), NEW r \in Requested(t)
  PROVE  /\ r[1] \in Amount /\ r[2] \in Allocation
         /\ Doing(t, {"post", "replace"}) => r[1] = session[t].amount
         /\ Doing(t, {"post"}) => r[2] = allocation[session[t].payment]
<1>1. session[t] \in PaymentSession
  BY Sessions DEF PaymentOperation
<1>2. session[t].amount \in Amount /\ session[t].payment \in Payment
  BY <1>1 DEF PaymentSession
<1>3. allocation[session[t].payment] \in Allocation
  BY <1>2 DEF TypeOK
<1>4. CASE Doing(t, {"post"})
  BY <1>2, <1>3, <1>4 DEF Requested, Doing
<1>5. CASE Doing(t, {"replace"})
  <2>1. r \in {session[t].amount} \X Ask
    BY <1>5 DEF Requested, Doing
  <2>2. QED
    BY <1>2, <1>5, <2>1, Submitted DEF Doing
<1>6. CASE Doing(t, {"create", "update"})
  <2>1. r \in Amount \X (Ask \cup {allocation[session[t].payment]})
    BY <1>6 DEF Requested, Doing
  <2>2. QED
    BY <1>3, <1>6, <2>1, Submitted DEF Doing
<1>7. QED
  BY <1>4, <1>5, <1>6 DEF Doing

\* The allocations and their documents are read: all of them, as the payment is held.
LEMMA LoadKeeps ==
  ASSUME PaymentInv, NEW t \in Txn, Load(t) PROVE PaymentInv'
<1> DEFINE p == session[t].payment
<1>1. /\ TypeOK /\ Doing(t, {"create", "update", "post", "replace"}) /\ At(t, "load")
      /\ UNCHANGED <<rows, locks, history>>
  BY DEF PaymentInv, Load
<1>2. session[t] \in PaymentSession /\ p \in Payment
  <2>1. session[t] \in PaymentSession
    BY <1>1, Sessions DEF PaymentOperation
  <2>2. QED
    BY <2>1 DEF PaymentSession
<1>3. PICK r \in Requested(t) :
        session' = [session EXCEPT ![t].pc = "documents", ![t].new = r[1], ![t].ask = r[2],
                                   ![t].seen = Seen(p), ![t].view = View(p, r[2]),
                                   ![t].wanted = IF Doing(t, {"post", "replace"})
                                                 THEN Rows(r[2]) ELSE {}]
  BY DEF Load
<1>4. /\ r[1] \in Amount /\ r[2] \in Allocation
      /\ Doing(t, {"post", "replace"}) => r[1] = session[t].amount
      /\ Doing(t, {"post"}) => r[2] = allocation[p]
  BY <1>1, RequestedTypes
<1> DEFINE wanted == IF Doing(t, {"post", "replace"}) THEN Rows(r[2]) ELSE {}
           s == [session[t] EXCEPT !.pc = "documents", !.new = r[1], !.ask = r[2], !.seen = Seen(p),
                                   !.view = View(p, r[2]), !.wanted = wanted]
<1>5. Seen(p) \in SUBSET Document /\ wanted \in SUBSET Document
  BY DEF Seen, Rows
<1>6. View(p, r[2]) \in [Document -> DocumentRow]
  BY <1>1 DEF View, TypeOK, NotViewed, DocumentRow
<1>7. session' = [session EXCEPT ![t] = s]
  BY <1>1, <1>2, <1>3 DEF TypeOK
<1>8. wanted = Rows(r[2]) \/ ~Doing(t, {"post", "replace"})
  OBVIOUS
<1> HIDE DEF wanted
<1>9. /\ s \in PaymentSession /\ s.pc = "documents" /\ s.op = session[t].op /\ s.payment = p
      /\ s.amount = session[t].amount /\ s.new = r[1] /\ s.ask = r[2] /\ s.seen = Seen(p)
      /\ s.wanted = wanted
  BY <1>2, <1>4, <1>5, <1>6 DEF PaymentSession
<1> HIDE DEF s
<1>10. /\ session'[t] = s /\ \A u \in Txn \ {t} : session'[u] = session[u]
       /\ session' \in [Txn -> PaymentSession \cup DocumentSession \cup {Closed}]
  BY <1>1, <1>7, <1>9, OneSession
<1>11. TypeOK'
  BY <1>1, <1>10 DEF TypeOK, rows, locks, history
<1>12. \A S : Doing(t, S)' => Doing(t, S)
  BY <1>1, <1>9, <1>10 DEF Doing, At
<1>13. HoldsPayment(t)'
  <2>1. Doing(t, {"post"})' <=> Doing(t, {"post"})
    BY <1>1, <1>9, <1>10 DEF Doing, At
  <2>2. HoldsPayment(t)
    BY DEF PaymentInv
  <2>3. QED
    BY <1>1, <1>9, <1>10, <1>12, <2>1, <2>2 DEF HoldsPayment, rows, locks
<1>14. CoversRows(t)'
  <2> SUFFICES ASSUME Doing(t, {"post", "replace"})
               PROVE  /\ s.new = s.amount
                      /\ Doing(t, {"post"}) => \A d \in Document : allocation'[p][d] <= s.ask[d]
                      /\ Doing(t, {"replace"}) => Rows(allocation'[p]) \subseteq s.seen
    BY <1>9, <1>10, <1>12 DEF CoversRows, Rows
  <2>1. allocation' = allocation /\ allocation[p] \in Allocation
    BY <1>1, <1>2 DEF TypeOK, rows
  <2>2. QED
    BY <1>4, <1>9, <2>1 DEF Seen, Allocation
<1>15. HoldsDocuments(t)'
  <2>1. ~At(t, "commit")'
    BY <1>9, <1>10 DEF At
  <2>2. Doing(t, {"post", "replace"})' => Rows(s.ask) = s.wanted
    BY <1>8, <1>9, <1>12
  <2>3. QED
    BY <1>10, <2>1, <2>2 DEF HoldsDocuments, Rows
<1>16. HoldsDocument(t)'
  <2>1. ~Doing(t, DocumentOperation)
    BY <1>1 DEF Doing, DocumentOperation
  <2>2. ~Doing(t, DocumentOperation)'
    BY <1>12, <2>1
  <2>3. QED
    BY <2>2 DEF HoldsDocument
<1>17. QED
  BY <1>1, <1>10, <1>11, <1>13, <1>14, <1>15, <1>16, Quiet DEF locks

\* The next document is locked.
LEMMA LockNextDocumentKeeps ==
  ASSUME PaymentInv, NEW t \in Txn, LockNextDocument(t) PROVE PaymentInv'
<1>1. /\ TypeOK /\ Doing(t, {"post", "replace"}) /\ At(t, "documents")
      /\ UNCHANGED <<rows, payLock, history>>
  BY DEF PaymentInv, LockNextDocument
<1>2. PICK d \in session[t].wanted :
        /\ docLock[d] = NoTxn /\ docLock' = [docLock EXCEPT ![d] = t]
        /\ session' = [session EXCEPT ![t].wanted = @ \ {d}]
  BY DEF LockNextDocument
<1> DEFINE s == [session[t] EXCEPT !.wanted = @ \ {d}]
<1>3. session[t] \in PaymentSession
  BY <1>1, Sessions DEF PaymentOperation
<1>4. d \in Document
  BY <1>3 DEF PaymentSession
<1>5. session' = [session EXCEPT ![t] = s]
  BY <1>1, <1>2, <1>3 DEF TypeOK
<1>6. /\ s \in PaymentSession /\ s.pc = session[t].pc /\ s.op = session[t].op
      /\ s.payment = session[t].payment /\ s.amount = session[t].amount /\ s.new = session[t].new
      /\ s.ask = session[t].ask /\ s.seen = session[t].seen
      /\ s.wanted = session[t].wanted \ {d}
  BY <1>3 DEF PaymentSession
<1> HIDE DEF s
<1>7. /\ session'[t] = s /\ \A u \in Txn \ {t} : session'[u] = session[u]
      /\ session' \in [Txn -> PaymentSession \cup DocumentSession \cup {Closed}]
  BY <1>1, <1>5, <1>6, OneSession
<1>8. TypeOK'
  BY <1>1, <1>2, <1>4, <1>7 DEF TypeOK, rows, history
<1>9. (\A place : At(t, place)' <=> At(t, place)) /\ \A S : Doing(t, S)' <=> Doing(t, S)
  BY <1>6, <1>7 DEF At, Doing
<1>10. HoldsPayment(t) /\ CoversRows(t) /\ HoldsDocuments(t)
  BY DEF PaymentInv
<1>11. HoldsPayment(t)'
  BY <1>1, <1>6, <1>7, <1>9, <1>10 DEF HoldsPayment, rows
<1>12. CoversRows(t)'
  BY <1>1, <1>6, <1>7, <1>9, <1>10 DEF CoversRows, rows, Rows
<1>13. HoldsDocuments(t)'
  <2>1. \A e \in Rows(s.ask) \ s.wanted : docLock'[e] = t
    <3> SUFFICES ASSUME NEW e \in Rows(s.ask) \ s.wanted PROVE docLock'[e] = t
      OBVIOUS
    <3>1. e \in Document
      BY DEF Rows
    <3>2. CASE e = d
      BY <1>1, <1>2, <3>1, <3>2 DEF TypeOK
    <3>3. CASE e # d
      <4>1. e \in Rows(session[t].ask) \ session[t].wanted
        BY <1>6, <3>3
      <4>2. docLock[e] = t
        BY <1>1, <1>10, <4>1 DEF HoldsDocuments, At
      <4>3. QED
        BY <1>1, <1>2, <3>1, <3>3, <4>2 DEF TypeOK
    <3>4. QED
      BY <3>2, <3>3
  <2>2. ~At(t, "commit")'
    BY <1>1, <1>9 DEF At
  <2>3. QED
    BY <1>7, <2>1, <2>2 DEF HoldsDocuments, Rows
<1>14. HoldsDocument(t)'
  <2>1. ~Doing(t, DocumentOperation)
    BY <1>1 DEF Doing, DocumentOperation
  <2>2. ~Doing(t, DocumentOperation)'
    BY <1>9, <2>1
  <2>3. QED
    BY <2>2 DEF HoldsDocument
<1>15. \A u \in Txn \ {t} : /\ \A p \in Payment : payLock[p] = u => payLock'[p] = u
                            /\ \A e \in Document : docLock[e] = u => docLock'[e] = u
  BY <1>1, <1>2, Nobody DEF TypeOK
<1>16. QED
  BY <1>1, <1>7, <1>8, <1>11, <1>12, <1>13, <1>14, <1>15, Quiet

\* The allocations pass.
LEMMA JudgeKeeps ==
  ASSUME PaymentInv, NEW t \in Txn, Judge(t) PROVE PaymentInv'
<1> DEFINE view == IF Doing(t, {"post", "replace"}) THEN session[t].view ELSE Unseen
           s == [session[t] EXCEPT !.pc = "commit", !.view = view]
<1>1. /\ TypeOK /\ Doing(t, {"create", "update", "post", "replace"}) /\ At(t, "documents")
      /\ session[t].wanted = {} /\ Acceptable(t) /\ UNCHANGED <<rows, locks, history>>
  BY DEF PaymentInv, Judge
<1>2. session[t] \in PaymentSession
  BY <1>1, Sessions DEF PaymentOperation
<1>3. session' = [session EXCEPT ![t] = s]
  BY <1>1, <1>2 DEF Judge, TypeOK
<1>4. view \in [Document -> DocumentRow] /\ (Doing(t, {"post", "replace"}) => view = session[t].view)
  BY <1>2 DEF PaymentSession, Unseen, NotViewed, DocumentRow
<1> HIDE DEF view
<1>5. /\ s \in PaymentSession /\ s.pc = "commit" /\ s.op = session[t].op
      /\ s.payment = session[t].payment /\ s.amount = session[t].amount /\ s.new = session[t].new
      /\ s.ask = session[t].ask /\ s.seen = session[t].seen /\ s.wanted = session[t].wanted
      /\ s.view = view
  BY <1>2, <1>4 DEF PaymentSession
<1> HIDE DEF s
<1>6. /\ session'[t] = s /\ \A u \in Txn \ {t} : session'[u] = session[u]
      /\ session' \in [Txn -> PaymentSession \cup DocumentSession \cup {Closed}]
  BY <1>1, <1>3, <1>5, OneSession
<1>7. TypeOK'
  BY <1>1, <1>6 DEF TypeOK, rows, locks, history
<1>8. (\A S : Doing(t, S)' <=> Doing(t, S)) /\ ~At(t, "closed") /\ ~At(t, "closed")' /\ ~At(t, "load")
  BY <1>1, <1>5, <1>6 DEF At, Doing
<1>9. HoldsPayment(t) /\ CoversRows(t) /\ HoldsDocuments(t)
  BY DEF PaymentInv
<1>10. HoldsPayment(t)'
  BY <1>1, <1>5, <1>6, <1>8, <1>9 DEF HoldsPayment, rows, locks
<1>11. CoversRows(t)'
  BY <1>1, <1>5, <1>6, <1>8, <1>9 DEF CoversRows, rows, Rows
<1>12. HoldsDocuments(t)'
  <2> SUFFICES ASSUME Doing(t, {"post", "replace"})
               PROVE  /\ \A d \in Rows(s.ask) \ s.wanted : docLock'[d] = t
                      /\ s.wanted = {} /\ Acceptable(t)'
    BY <1>6, <1>8 DEF HoldsDocuments, Rows
  <2>1. Fits(session[t], document, status, allocation)
    BY <1>1, <1>8, FitsNow
  <2>2. s.view = session[t].view
    BY <1>4, <1>5
  <2>3. Fits(s, document', status', allocation')
    BY <1>1, <1>5, <2>1, <2>2 DEF Fits, JudgedBy, Counted, rows
  <2>4. Acceptable(t)'
    BY <1>6, <1>8, <2>3, FitsNext
  <2>5. \A d \in Rows(session[t].ask) \ session[t].wanted : docLock[d] = t
    BY <1>8, <1>9 DEF HoldsDocuments
  <2>6. QED
    BY <1>1, <1>5, <2>4, <2>5 DEF locks
<1>13. HoldsDocument(t)'
  BY <1>1, <1>8 DEF HoldsDocument, Doing, DocumentOperation
<1>14. QED
  BY <1>1, <1>6, <1>7, <1>10, <1>11, <1>12, <1>13, Quiet DEF locks

\* A document is locked, and what is settled of it compared.
LEMMA LockDocumentKeeps ==
  ASSUME PaymentInv, NEW t \in Txn, NEW operation \in DocumentOperation, NEW d \in Document,
         NEW limit \in Nat, LockDocument(t, operation, d, limit)
  PROVE  PaymentInv'
<1> DEFINE s == [pc |-> "load", op |-> operation, document |-> d, total |-> limit]
<1>1. /\ TypeOK /\ UNCHANGED <<rows, payLock, history>> /\ session' = [session EXCEPT ![t] = s]
      /\ docLock[d] = NoTxn /\ docLock' = [docLock EXCEPT ![d] = t] /\ document[d].status = "posted"
  BY DEF PaymentInv, LockDocument
<1>2. s \in DocumentSession /\ s.op \in DocumentOperation /\ s.pc = "load" /\ s.document = d
  BY DEF DocumentSession
<1> HIDE DEF s
<1>3. /\ session'[t] = s /\ \A u \in Txn \ {t} : session'[u] = session[u]
      /\ session' \in [Txn -> PaymentSession \cup DocumentSession \cup {Closed}]
  BY <1>1, <1>2, OneSession
<1>4. TypeOK'
  BY <1>1, <1>3 DEF TypeOK, rows, history
<1>5. HoldsPayment(t)' /\ CoversRows(t)' /\ HoldsDocuments(t)'
  BY <1>2, <1>3 DEF Doing, DocumentOperation, HoldsPayment, CoversRows, HoldsDocuments
<1>6. HoldsDocument(t)'
  <2>1. docLock'[d] = t /\ document'[d].status = "posted"
    BY <1>1 DEF TypeOK, rows
  <2>2. QED
    BY <1>2, <1>3, <2>1 DEF HoldsDocument, At
<1>7. \A u \in Txn \ {t} : /\ \A p \in Payment : payLock[p] = u => payLock'[p] = u
                           /\ \A e \in Document : docLock[e] = u => docLock'[e] = u
  BY <1>1, Nobody DEF TypeOK
<1>8. QED
  BY <1>1, <1>3, <1>4, <1>5, <1>6, <1>7, Quiet

LEMMA JudgeDocumentKeeps ==
  ASSUME PaymentInv, NEW t \in Txn, JudgeDocument(t) PROVE PaymentInv'
<1> DEFINE s == [session[t] EXCEPT !.pc = "commit"]
           d == session[t].document
           limit == IF session[t].op = "cancel_document" THEN 0 ELSE session[t].total
<1>1. /\ TypeOK /\ Doing(t, DocumentOperation) /\ UNCHANGED <<rows, locks, history>>
      /\ Settled(d, Payment) <= limit
  BY DEF PaymentInv, JudgeDocument
<1>2. session[t] \in DocumentSession
  BY <1>1, Sessions
<1>3. session' = [session EXCEPT ![t] = s]
  BY <1>1, <1>2 DEF JudgeDocument, TypeOK
<1>4. /\ s \in DocumentSession /\ s.op = session[t].op /\ s.document = d /\ s.total = session[t].total
      /\ s.op \in DocumentOperation
  BY <1>2 DEF DocumentSession
<1>5. HoldsDocument(t)
  BY DEF PaymentInv
<1> HIDE DEF s
<1>6. /\ session'[t] = s /\ \A u \in Txn \ {t} : session'[u] = session[u]
      /\ session' \in [Txn -> PaymentSession \cup DocumentSession \cup {Closed}]
  BY <1>1, <1>3, <1>4, OneSession
<1>7. TypeOK'
  BY <1>1, <1>6 DEF TypeOK, rows, locks, history
<1>8. HoldsPayment(t)' /\ CoversRows(t)' /\ HoldsDocuments(t)'
  BY <1>4, <1>6 DEF Doing, DocumentOperation, HoldsPayment, CoversRows, HoldsDocuments
<1>9. HoldsDocument(t)'
  BY <1>1, <1>4, <1>5, <1>6 DEF HoldsDocument, Settled, rows, locks
<1>10. QED
  BY <1>1, <1>6, <1>7, <1>8, <1>9, Quiet DEF locks
-----------------------------------------------------------------------------
(* The steps that change rows *)

\* If no payment settles more than before and no document changes, none is overpaid.
LEMMA LessOwed ==
  ASSUME PaymentInv, TypeOK', document' = document, ~outdated' /\ ~late' => ~outdated /\ ~late,
         ~late' => \A d \in Document, p \in Payment :
                     Paid(status', allocation', d)[p] <= Paid(status, allocation, d)[p]
  PROVE  NeverOverpaid'
<1> SUFFICES ASSUME ~outdated', ~late', NEW d \in Document
             PROVE  Owed(status', allocation', d, Payment)
                      <= IF document'[d].status = "posted" THEN document'[d].total ELSE 0
  BY DEF NeverOverpaid, Settled, Owed
<1>1. /\ document[d] \in DocumentRow
      /\ allocation \in [Payment -> Allocation] /\ allocation' \in [Payment -> Allocation]
  BY DEF PaymentInv, TypeOK
<1>2. Owed(status', allocation', d, Payment) <= Owed(status, allocation, d, Payment)
  BY <1>1, OwedLess
<1>3. Owed(status', allocation', d, Payment) \in Nat /\ Owed(status, allocation, d, Payment) \in Nat
  BY <1>1, OwedIsPaid
<1>4. Owed(status, allocation, d, Payment)
        <= IF document[d].status = "posted" THEN document[d].total ELSE 0
  BY DEF PaymentInv, NeverOverpaid, Settled, Owed
<1>5. document[d].total \in Nat
  BY <1>1 DEF DocumentRow
<1>6. QED
  BY <1>2, <1>3, <1>4, <1>5

\* A document is cancelled or corrected: no more of it is settled than it now owes.
LEMMA CommitDocumentKeeps ==
  ASSUME PaymentInv, NEW t \in Txn, CommitDocument(t)
  PROVE  /\ PaymentInv'
         /\ \A d \in Document : document'[d] # document[d] =>
              Settled(d, Payment) <= IF document'[d].status = "posted" THEN document'[d].total ELSE 0
<1> DEFINE e == session[t].document
<1>1. /\ TypeOK /\ Doing(t, DocumentOperation) /\ At(t, "commit") /\ Close(t)
      /\ UNCHANGED <<status, amount, allocation, cash, history>>
      /\ document' = [document EXCEPT ![e] =
           IF session[t].op = "cancel_document" THEN [@ EXCEPT !.status = "cancelled"]
           ELSE [@ EXCEPT !.total = session[t].total]]
  BY DEF PaymentInv, CommitDocument
<1>2. session[t] \in DocumentSession
  BY <1>1, Sessions
<1>3. e \in Document /\ session[t].total \in Nat
  BY <1>2 DEF DocumentSession
<1>4. /\ docLock[e] = t /\ document[e].status = "posted" /\ document[e] \in DocumentRow
      /\ Settled(e, Payment) <= IF session[t].op = "cancel_document" THEN 0 ELSE session[t].total
  BY <1>1, <1>3 DEF PaymentInv, HoldsDocument, TypeOK
<1>5. /\ \A d \in Document \ {e} : document'[d] = document[d]
      /\ document' \in [Document -> DocumentRow]
      /\ session[t].op = "cancel_document" => document'[e].status = "cancelled"
      /\ session[t].op # "cancel_document" =>
           document'[e].status = "posted" /\ document'[e].total = session[t].total
  BY <1>1, <1>3, <1>4 DEF TypeOK, DocumentRow
<1>6. Settled(e, Payment) <= IF document'[e].status = "posted" THEN document'[e].total ELSE 0
  BY <1>4, <1>5
<1>7. TypeOK'
  BY <1>1, <1>5, Ended DEF TypeOK, history
<1>8. CashFollows' /\ WithinAmount'
  BY <1>1 DEF PaymentInv, CashFollows, WithinAmount, Sum, Rows, history
<1>9. NeverOverpaid'
  <2> SUFFICES ASSUME ~outdated, ~late, NEW d \in Document
               PROVE  Settled(d, Payment)
                        <= IF document'[d].status = "posted" THEN document'[d].total ELSE 0
    BY <1>1 DEF NeverOverpaid, Settled, history
  <2>1. QED
    BY <1>5, <1>6 DEF PaymentInv, NeverOverpaid
<1>10. SparesPayments(t) /\ SparesDocuments(t)
  <2>1. allocation \in [Payment -> Allocation]
    BY <1>1 DEF TypeOK
  <2>2. \A p \in Payment, d \in Document : allocation[p][d] <= allocation[p][d]
    BY <2>1 DEF Allocation
  <2>3. \A p \in Payment, d \in Document : Paid(status, allocation, d)[p] \in Nat
    BY <2>1, OwedIsPaid
  <2>4. \A d \in Document : docLock[d] \in Txn \ {t} => d # e
    BY <1>4
  <2>5. QED
    BY <1>1, <1>5, <2>2, <2>3, <2>4 DEF SparesPayments, SparesDocuments
<1>11. \A u \in Txn \ {t} : Alike(session[u], session'[u])
  BY <1>1, Ended DEF Alike
<1>12. \A u \in Txn \ {t} : Rows(allocation[session[u].payment]) \subseteq session[u].seen
         => Rows(allocation'[session[u].payment]) \subseteq session'[u].seen
  BY <1>1, Ended
<1>13. PaymentInv'
  BY <1>1, <1>7, <1>8, <1>9, <1>10, <1>11, <1>12, Ended, Kept
<1>14. QED
  BY <1>5, <1>6, <1>13

\* What is known when a payment is posted or reallocated: it is held, and so are the
\* documents of what was asked for.
LEMMA AtCommit ==
  ASSUME PaymentInv, NEW t \in Txn, Doing(t, {"post", "replace"}), At(t, "commit")
  PROVE  /\ session[t] \in PaymentSession /\ session[t].payment \in Payment
         /\ session[t].ask \in Allocation /\ session[t].new \in Nat
         /\ payLock[session[t].payment] = t
         /\ Doing(t, {"post"}) => status[session[t].payment] = "draft"
         /\ Doing(t, {"replace"}) => status[session[t].payment] = "posted"
         /\ session[t].amount = amount[session[t].payment] /\ session[t].new = session[t].amount
         /\ Doing(t, {"post"}) =>
              \A d \in Document : allocation[session[t].payment][d] <= session[t].ask[d]
         /\ Doing(t, {"replace"}) => Rows(allocation[session[t].payment]) \subseteq session[t].seen
         /\ \A d \in Document : docLock[d] # t => session[t].ask[d] = 0
         /\ Acceptable(t) /\ Fits(session[t], document, status, allocation)
<1>1. TypeOK /\ HoldsPayment(t) /\ CoversRows(t) /\ HoldsDocuments(t)
  BY DEF PaymentInv
<1>2. ~At(t, "load") /\ ~At(t, "closed") /\ Doing(t, {"post", "replace", "cancel"})
  BY DEF At, Doing
<1>3. session[t] \in PaymentSession
  BY <1>1, Sessions DEF PaymentOperation
<1>4. session[t].payment \in Payment /\ session[t].ask \in Allocation /\ session[t].new \in Nat
  BY <1>3, Positive DEF PaymentSession
<1>5. Doing(t, {"replace"}) => ~Doing(t, {"post"})
  BY DEF Doing
<1>6. /\ payLock[session[t].payment] = t
      /\ status[session[t].payment] = IF Doing(t, {"post"}) THEN "draft" ELSE "posted"
      /\ session[t].amount = amount[session[t].payment]
  BY <1>1, <1>2 DEF HoldsPayment
<1>7. /\ session[t].new = session[t].amount
      /\ Doing(t, {"post"}) =>
           \A d \in Document : allocation[session[t].payment][d] <= session[t].ask[d]
      /\ Doing(t, {"replace"}) => Rows(allocation[session[t].payment]) \subseteq session[t].seen
  BY <1>1, <1>2 DEF CoversRows
<1>8. /\ \A d \in Rows(session[t].ask) : docLock[d] = t
      /\ Acceptable(t)
  BY <1>1, <1>2 DEF HoldsDocuments
<1>9. \A d \in Document : docLock[d] # t => session[t].ask[d] = 0
  BY <1>4, <1>8 DEF Rows, Allocation
<1>10. Fits(session[t], document, status, allocation)
  BY <1>2, <1>8, FitsNow
<1>11. QED
  BY <1>3, <1>4, <1>5, <1>6, <1>7, <1>8, <1>9, <1>10

\* Unless a document had changed, no more of it is settled, with what was asked for,
\* than it owes.
LEMMA StillFits ==
  ASSUME PaymentInv, NEW t \in Txn, Doing(t, {"post", "replace"}), At(t, "commit"),
         NEW d \in Document, session[t].ask[d] > 0, Judged(t, d) = document[d]
  PROVE  /\ document[d].status = "posted"
         /\ session[t].ask[d] + Owed(status, allocation, d, Counted(session[t])) <= document[d].total
<1>1. d \in Rows(session[t].ask) /\ JudgedBy(session[t], document, d) = document[d]
  BY DEF Rows, Judged, JudgedBy
<1>2. /\ document[d].status = "posted"
      /\ session[t].ask[d] <= document[d].total - Owed(status, allocation, d, Counted(session[t]))
  BY <1>1, AtCommit DEF Fits
<1>3. document[d].total \in Nat /\ allocation \in [Payment -> Allocation]
  BY DEF PaymentInv, TypeOK, DocumentRow
<1>4. Owed(status, allocation, d, Counted(session[t])) \in Nat
  BY <1>3, OwedIsPaid DEF Counted
<1>5. session[t].ask[d] \in Nat
  BY AtCommit DEF Allocation
<1>6. QED
  BY <1>2, <1>3, <1>4, <1>5

\* A step that changes only the rows of one payment, which nobody else holds, and what
\* it settles of documents that nobody else holds, spares the rest.
LEMMA SparesRest ==
  ASSUME PaymentInv, TypeOK', NEW u \in Txn, NEW p \in Payment, document' = document,
         \A q \in Payment \ {p} : /\ status'[q] = status[q] /\ amount'[q] = amount[q]
                                  /\ allocation'[q] = allocation[q],
         payLock[p] \notin Txn \ {u},
         \A d \in Document : docLock[d] \in Txn \ {u} =>
            Paid(status', allocation', d)[p] <= Paid(status, allocation, d)[p]
  PROVE  SparesPayments(u) /\ SparesDocuments(u)
<1>1. allocation \in [Payment -> Allocation] /\ allocation' \in [Payment -> Allocation]
  BY DEF PaymentInv, TypeOK
<1>2. SparesPayments(u)
  BY <1>1 DEF SparesPayments, Allocation
<1>3. \A d \in Document, q \in Payment \ {p} :
        Paid(status', allocation', d)[q] <= Paid(status, allocation, d)[q]
  <2> SUFFICES ASSUME NEW d \in Document, NEW q \in Payment \ {p}
               PROVE  Paid(status', allocation', d)[q] <= Paid(status, allocation, d)[q]
    OBVIOUS
  <2>1. Paid(status', allocation', d)[q] = Paid(status, allocation, d)[q]
    BY DEF Paid
  <2>2. Paid(status, allocation, d)[q] \in Nat
    BY <1>1, OwedIsPaid
  <2>3. QED
    BY <2>1, <2>2
<1>4. SparesDocuments(u)
  BY <1>3 DEF SparesDocuments
<1>5. QED
  BY <1>2, <1>4

\* A payment is posted.
LEMMA CommitPostKeeps ==
  ASSUME PaymentInv, NEW t \in Txn, CommitPost(t)
  PROVE  /\ PaymentInv' /\ UNCHANGED document
         /\ \A q \in Payment : status'[q] = status[q] \/ status'[q] = "posted"
<1> DEFINE p == session[t].payment
           a == allocation[p]
<1>1. /\ TypeOK /\ Doing(t, {"post"}) /\ Doing(t, {"post", "replace"}) /\ At(t, "commit") /\ Close(t)
      /\ UNCHANGED <<document, amount, allocation, late, unlinked>>
      /\ status' = [status EXCEPT ![p] = "posted"]
      /\ cash' = [cash EXCEPT ![p] = [status |-> "posted", amount |-> session[t].amount]]
      /\ outdated' = (outdated \/ \E d \in Rows(session[t].ask) : Judged(t, d) # document[d])
  BY DEF PaymentInv, CommitPost, Doing
<1>2. /\ p \in Payment /\ status[p] = "draft" /\ payLock[p] = t
      /\ session[t].amount = amount[p] /\ session[t].new = amount[p]
      /\ session[t].ask \in Allocation /\ \A d \in Document : a[d] <= session[t].ask[d]
      /\ Sum(session[t].ask) <= session[t].new
      /\ \A d \in Document : docLock[d] # t => session[t].ask[d] = 0
  BY <1>1, AtCommit DEF Acceptable
<1>3. a \in Allocation /\ amount[p] \in Nat /\ allocation \in [Payment -> Allocation]
  BY <1>1, <1>2, Positive DEF TypeOK
<1>4. TypeOK'
  <2>1. cash' \in [Payment -> [status : {"none", "posted", "cancelled"}, amount : Nat]]
    BY <1>1, <1>2, <1>3 DEF TypeOK
  <2>2. status' \in [Payment -> {"none", "draft", "posted", "cancelled", "deleted"}]
    BY <1>1 DEF TypeOK
  <2>3. outdated' \in BOOLEAN
    BY <1>1 DEF TypeOK
  <2>4. QED
    BY <1>1, <2>1, <2>2, <2>3, Ended DEF TypeOK
<1>5. CashFollows'
  BY <1>1, <1>2 DEF PaymentInv, CashFollows, TypeOK
<1>6. WithinAmount'
  <2>1. Sum(a) <= amount[p]
    <3>1. Sum(a) <= Sum(session[t].ask) /\ Sum(a) \in Nat /\ Sum(session[t].ask) \in Nat
      <4>1. \A d \in Document : session[t].ask[d] <= session[t].ask[d]
        BY <1>2 DEF Allocation
      <4>2. QED
        BY <1>2, <1>3, <4>1, SumOfRows
    <3>2. QED
      BY <1>2, <1>3, <3>1
  <2> HIDE DEF a
  <2> SUFFICES ASSUME ~late, NEW q \in Payment, status'[q] = "posted"
               PROVE  Sum(allocation[q]) <= amount[q]
    BY <1>1 DEF WithinAmount, Sum, Rows
  <2>2. CASE q = p
    BY <2>1, <2>2 DEF a
  <2>3. CASE q # p
    BY <1>1, <1>2, <2>3 DEF PaymentInv, WithinAmount, TypeOK
  <2>4. QED
    BY <2>2, <2>3
<1>7. NeverOverpaid'
  <2> SUFFICES ASSUME ~outdated', ~late, NEW d \in Document
               PROVE  Owed(status', allocation, d, Payment)
                        <= IF document[d].status = "posted" THEN document[d].total ELSE 0
    BY <1>1 DEF NeverOverpaid, Settled, Owed
  <2>1. /\ Owed(status', allocation, d, Payment) = Owed(status, allocation, d, Payment \ {p}) + a[d]
        /\ Owed(status, allocation, d, Payment) = Owed(status, allocation, d, Payment \ {p})
        /\ Owed(status, allocation, d, Payment) \in Nat
    <3>1. \A q \in Payment \ {p} : status'[q] = status[q]
      BY <1>1 DEF TypeOK
    <3>2. status'[p] = "posted"
      BY <1>1, <1>2 DEF TypeOK
    <3>3. Owed(status', allocation, d, Payment) = Owed(status, allocation, d, Payment \ {p}) + a[d]
      BY <1>2, <1>3, <3>1, <3>2, OwedPosted
    <3>4. Owed(status, allocation, d, Payment) = Owed(status, allocation, d, Payment \ {p}) + 0
      BY <1>2, <1>3, OwedButOne
    <3>5. Owed(status, allocation, d, Payment) \in Nat /\ Owed(status, allocation, d, Payment \ {p}) \in Nat
      BY <1>3, OwedIsPaid
    <3>6. QED
      BY <3>3, <3>4, <3>5
  <2>2. a[d] \in Nat /\ session[t].ask[d] \in Nat /\ a[d] <= session[t].ask[d]
    BY <1>2, <1>3 DEF Allocation
  <2>3. ~outdated /\ \A e \in Rows(session[t].ask) : Judged(t, e) = document[e]
    BY <1>1 DEF TypeOK
  <2>4. document[d].total \in Nat
    BY <1>1 DEF TypeOK, DocumentRow
  <2>5. CASE session[t].ask[d] > 0
    <3>1. d \in Rows(session[t].ask)
      BY <2>5 DEF Rows
    <3>2. Counted(session[t]) = Payment
      BY <1>1 DEF Counted, Doing
    <3>3. /\ document[d].status = "posted"
          /\ session[t].ask[d] + Owed(status, allocation, d, Payment) <= document[d].total
      BY <1>1, <2>3, <2>5, <3>1, <3>2, StillFits
    <3> HIDE DEF a, p
    <3>4. QED
      BY <2>1, <2>2, <2>4, <3>3
  <2>6. CASE session[t].ask[d] = 0
    <3>1. Owed(status, allocation, d, Payment)
            <= IF document[d].status = "posted" THEN document[d].total ELSE 0
      BY <2>3 DEF PaymentInv, NeverOverpaid, Settled, Owed
    <3> HIDE DEF a, p
    <3>2. a[d] = 0
      BY <2>2, <2>6
    <3>3. QED
      BY <2>1, <3>1, <3>2
  <2>7. QED
    BY <2>2, <2>5, <2>6
<1>8. SparesPayments(t) /\ SparesDocuments(t)
  <2>1. ASSUME NEW d \in Document, docLock[d] \in Txn \ {t}
        PROVE  Paid(status', allocation', d)[p] <= Paid(status, allocation, d)[p]
    <3>1. a[d] = 0
      BY <1>2, <1>3, <2>1 DEF Allocation
    <3>2. QED
      BY <1>1, <1>2, <3>1 DEF Paid
  <2>2. \A q \in Payment \ {p} : status'[q] = status[q]
    BY <1>1 DEF TypeOK
  <2> HIDE DEF p
  <2>3. QED
    BY <1>1, <1>2, <1>4, <2>1, <2>2, SparesRest
<1>9. \A u \in Txn \ {t} : Alike(session[u], session'[u])
  BY <1>1, Ended DEF Alike
<1>10. \A u \in Txn \ {t} : Rows(allocation[session[u].payment]) \subseteq session[u].seen
         => Rows(allocation'[session[u].payment]) \subseteq session'[u].seen
  BY <1>1, Ended
<1>11. PaymentInv'
  BY <1>1, <1>4, <1>5, <1>6, <1>7, <1>8, <1>9, <1>10, Ended, Kept
<1>12. QED
  BY <1>1, <1>11 DEF TypeOK

\* A payment is cancelled, and its row at the cash desk.
LEMMA CommitCancelKeeps ==
  ASSUME PaymentInv, NEW t \in Txn, CommitCancel(t)
  PROVE  /\ PaymentInv' /\ UNCHANGED document
         /\ \A q \in Payment : status'[q] = status[q] \/ status'[q] = "cancelled"
<1> DEFINE p == session[t].payment
<1>1. /\ TypeOK /\ Doing(t, {"cancel"}) /\ Close(t) /\ UNCHANGED <<document, amount, allocation, history>>
      /\ status' = [status EXCEPT ![p] = "cancelled"]
      /\ cash' = [cash EXCEPT ![p].status = "cancelled"]
  BY DEF PaymentInv, CommitCancel
<1>2. p \in Payment
  <2>1. session[t] \in PaymentSession
    BY <1>1, Sessions DEF PaymentOperation
  <2>2. QED
    BY <2>1 DEF PaymentSession
<1>3. payLock[p] = t /\ status[p] = "posted"
  <2>1. Doing(t, {"post", "replace", "cancel"}) /\ ~Doing(t, {"post"})
    BY <1>1 DEF Doing
  <2>2. QED
    BY <2>1 DEF PaymentInv, HoldsPayment
<1>4. allocation \in [Payment -> Allocation]
  BY <1>1 DEF TypeOK
<1>5. TypeOK'
  <2>1. cash' \in [Payment -> [status : {"none", "posted", "cancelled"}, amount : Nat]]
    <3>1. [cash[p] EXCEPT !.status = "cancelled"] \in [status : {"none", "posted", "cancelled"}, amount : Nat]
      BY <1>1, <1>2 DEF TypeOK
    <3>2. QED
      BY <1>1, <1>2, <3>1 DEF TypeOK
  <2>2. status' \in [Payment -> {"none", "draft", "posted", "cancelled", "deleted"}]
    BY <1>1 DEF TypeOK
  <2>3. QED
    BY <1>1, <2>1, <2>2, Ended DEF TypeOK, history
<1>6. CashFollows'
  BY <1>1, <1>2, <1>3 DEF PaymentInv, CashFollows, TypeOK, history
<1>7. WithinAmount'
  BY <1>1, <1>2 DEF PaymentInv, WithinAmount, TypeOK, Sum, Rows, history
<1>8. \A d \in Document, q \in Payment :
        Paid(status', allocation', d)[q] <= Paid(status, allocation, d)[q]
  <2> SUFFICES ASSUME NEW d \in Document, NEW q \in Payment
               PROVE  Paid(status', allocation', d)[q] <= Paid(status, allocation, d)[q]
    OBVIOUS
  <2>1. Paid(status, allocation, d)[q] \in Nat
    BY <1>4, OwedIsPaid
  <2>2. /\ Paid(status, allocation, d)[q] = IF status[q] = "posted" THEN allocation[q][d] ELSE 0
        /\ Paid(status', allocation', d)[q] = IF status'[q] = "posted" THEN allocation[q][d] ELSE 0
    BY <1>1 DEF Paid
  <2>3. status'[q] = "posted" => status[q] = "posted"
    BY <1>1 DEF TypeOK
  <2>4. QED
    BY <2>1, <2>2, <2>3
<1>9. NeverOverpaid'
  BY <1>1, <1>5, <1>8, LessOwed DEF history
<1>10. SparesPayments(t) /\ SparesDocuments(t)
  <2>1. \A q \in Payment \ {p} : status'[q] = status[q]
    BY <1>1 DEF TypeOK
  <2> HIDE DEF p
  <2>2. QED
    BY <1>1, <1>2, <1>3, <1>5, <1>8, <2>1, SparesRest
<1>11. \A u \in Txn \ {t} : Alike(session[u], session'[u])
  BY <1>1, Ended DEF Alike
<1>12. \A u \in Txn \ {t} : Rows(allocation[session[u].payment]) \subseteq session[u].seen
         => Rows(allocation'[session[u].payment]) \subseteq session'[u].seen
  BY <1>1, Ended
<1>13. PaymentInv'
  BY <1>1, <1>5, <1>6, <1>7, <1>9, <1>10, <1>11, <1>12, Ended, Kept
<1>14. QED
  BY <1>1, <1>13 DEF TypeOK

\* The rows t has deleted are gone for the other sessions of its payment too.
LEMMA Forgotten ==
  ASSUME TypeOK, NEW t \in Txn, session[t] \in PaymentSession, Forget(t)
  PROVE  /\ session' \in [Txn -> PaymentSession \cup DocumentSession \cup {Closed}]
         /\ \A u \in Txn \ {t} :
              /\ Alike(session[u], session'[u])
              /\ Doing(u, PaymentOperation) =>
                   session'[u].seen = IF session[u].payment = session[t].payment
                                      THEN session[u].seen \ session[t].seen ELSE session[u].seen
         /\ HoldsPayment(t)' /\ CoversRows(t)' /\ HoldsDocuments(t)' /\ HoldsDocument(t)'
<1> DEFINE same(u) == Doing(u, PaymentOperation) /\ session[u].payment = session[t].payment
           r(u) == [session[u] EXCEPT !.seen = @ \ session[t].seen]
<1>1. session' = [u \in Txn |-> IF u = t THEN Closed ELSE IF same(u) THEN r(u) ELSE session[u]]
  BY DEF Forget
<1>2. ASSUME NEW u \in Txn, same(u)
      PROVE  /\ session[u] \in PaymentSession /\ r(u) \in PaymentSession
             /\ session[u].seen \ session[t].seen \in SUBSET Document
             /\ r(u).seen = session[u].seen \ session[t].seen
  <2>1. session[u] \in PaymentSession
    BY <1>2, Sessions
  <2>2. QED
    BY <2>1 DEF PaymentSession
<1>3. session' \in [Txn -> PaymentSession \cup DocumentSession \cup {Closed}]
  <2>1. \A u \in Txn : session[u] \in PaymentSession \cup DocumentSession \cup {Closed}
    BY DEF TypeOK
  <2> HIDE DEF r, same
  <2>2. QED
    BY <1>1, <1>2, <2>1
<1>4. ASSUME NEW u \in Txn \ {t}
      PROVE  /\ Alike(session[u], session'[u])
             /\ Doing(u, PaymentOperation) =>
                  session'[u].seen = IF session[u].payment = session[t].payment
                                     THEN session[u].seen \ session[t].seen ELSE session[u].seen
  <2>1. CASE same(u)
    <3>1. session'[u] = r(u)
      BY <1>1, <2>1
    <3>2. session[u] \in PaymentSession /\ session[u].seen \ session[t].seen \in SUBSET Document
      BY <1>2, <2>1
    <3>3. Alike(session[u], session'[u])
      BY <3>1, <3>2 DEF Alike
    <3>4. session'[u].seen = session[u].seen \ session[t].seen
      BY <1>2, <2>1, <3>1
    <3>5. QED
      BY <2>1, <3>3, <3>4
  <2>2. CASE ~same(u)
    <3>1. session'[u] = session[u]
      BY <1>1, <2>2
    <3>2. QED
      BY <2>2, <3>1 DEF Alike
  <2>3. QED
    BY <2>1, <2>2
<1>5. At(t, "closed")'
  BY <1>1 DEF At, Closed
<1>6. HoldsPayment(t)' /\ CoversRows(t)' /\ HoldsDocuments(t)' /\ HoldsDocument(t)'
  BY <1>5 DEF Doing, HoldsPayment, CoversRows, HoldsDocuments, HoldsDocument
<1>7. QED
  BY <1>3, <1>4, <1>6

\* The allocations of a payment after its rows are replaced.
LEMMA ReplacedRows ==
  ASSUME TypeOK, NEW t \in Txn, session[t] \in PaymentSession
  PROVE  /\ Replaced(t) \in Allocation /\ session[t].ask \in Allocation
         /\ \A d \in Document :
              /\ session[t].ask[d] > 0 => Replaced(t)[d] = session[t].ask[d]
              /\ session[t].ask[d] = 0 /\ d \in session[t].seen => Replaced(t)[d] = 0
              /\ session[t].ask[d] = 0 /\ d \notin session[t].seen =>
                   Replaced(t)[d] = allocation[session[t].payment][d]
              /\ session[t].ask[d] = 0 => Replaced(t)[d] <= allocation[session[t].payment][d]
<1> DEFINE a == allocation[session[t].payment]
           ask == session[t].ask
<1>1. ask \in Allocation /\ a \in Allocation
  BY DEF PaymentSession, TypeOK
<1>2. Replaced(t) = [d \in Document |-> IF ask[d] > 0 THEN ask[d]
                                        ELSE IF d \in session[t].seen THEN 0 ELSE a[d]]
  BY DEF Replaced
<1> HIDE DEF a, ask
<1>3. Replaced(t) \in Allocation
  BY <1>1, <1>2 DEF Allocation
<1>4. \A d \in Document : ask[d] \in Nat /\ a[d] \in Nat
  BY <1>1 DEF Allocation
<1>5. \A d \in Document : /\ ask[d] > 0 => Replaced(t)[d] = ask[d]
                          /\ ask[d] = 0 /\ d \in session[t].seen => Replaced(t)[d] = 0
                          /\ ask[d] = 0 /\ d \notin session[t].seen => Replaced(t)[d] = a[d]
                          /\ ask[d] = 0 => Replaced(t)[d] <= a[d]
  BY <1>2, <1>4
<1>6. QED
  BY <1>1, <1>3, <1>5 DEF a, ask

\* What only deletes rows leaves the others in the sessions that have seen them.
LEMMA SeenStays ==
  ASSUME PaymentInv, NEW t \in Txn, session[t] \in PaymentSession, Forget(t),
         NEW a \in Allocation, allocation' = [allocation EXCEPT ![session[t].payment] = a],
         \/ payLock[session[t].payment] \notin Txn \ {t}
         \/ \A d \in Document : a[d] > 0 =>
              d \notin session[t].seen /\ allocation[session[t].payment][d] > 0
  PROVE  \A u \in Txn \ {t} : Doing(u, {"replace"}) /\ ~At(u, "load") =>
            (Rows(allocation[session[u].payment]) \subseteq session[u].seen
               => Rows(allocation'[session[u].payment]) \subseteq session'[u].seen)
<1> DEFINE p == session[t].payment
<1> SUFFICES ASSUME NEW u \in Txn \ {t}, Doing(u, {"replace"}),
                    Rows(allocation[session[u].payment]) \subseteq session[u].seen
             PROVE  Rows(allocation'[session[u].payment]) \subseteq session'[u].seen
  OBVIOUS
<1>1. TypeOK /\ Doing(u, PaymentOperation) /\ Doing(u, {"post", "replace", "cancel"})
  BY DEF PaymentInv, Doing, PaymentOperation
<1>2. session[u].payment \in Payment /\ p \in Payment
  BY <1>1, Sessions DEF PaymentSession
<1>3. session'[u].seen = IF session[u].payment = p THEN session[u].seen \ session[t].seen
                         ELSE session[u].seen
  BY <1>1, Forgotten
<1>4. payLock[session[u].payment] = u
  BY <1>1 DEF PaymentInv, HoldsPayment
<1>5. allocation \in [Payment -> Allocation]
  BY <1>1 DEF TypeOK
<1>6. CASE session[u].payment = p
  <2>1. \A d \in Document : a[d] > 0 => d \notin session[t].seen /\ allocation[p][d] > 0
    BY <1>4, <1>6
  <2>2. allocation'[p] = a
    BY <1>2, <1>5
  <2>3. QED
    BY <1>3, <1>6, <2>1, <2>2 DEF Rows
<1>7. CASE session[u].payment # p
  BY <1>2, <1>3, <1>5, <1>7
<1>8. QED
  BY <1>6, <1>7

\* A payment is reallocated.
LEMMA CommitReplaceKeeps ==
  ASSUME PaymentInv, NEW t \in Txn, CommitReplace(t)
  PROVE  PaymentInv' /\ UNCHANGED <<document, status>>
<1> DEFINE p == session[t].payment
           a == Replaced(t)
           ask == session[t].ask
<1>1. /\ TypeOK /\ Doing(t, {"replace"}) /\ Doing(t, {"post", "replace"}) /\ At(t, "commit") /\ Forget(t)
      /\ UNCHANGED <<document, status, amount, cash, late, unlinked>>
      /\ allocation' = [allocation EXCEPT ![p] = a]
      /\ outdated' = (outdated \/ \E d \in Rows(session[t].ask) : Judged(t, d) # document[d])
      /\ docLock' = [d \in Document |-> IF docLock[d] = t THEN NoTxn ELSE docLock[d]]
      /\ payLock' = [payLock EXCEPT ![p] = NoTxn]
  BY DEF PaymentInv, CommitReplace, Doing
<1>2. /\ session[t] \in PaymentSession /\ p \in Payment /\ status[p] = "posted" /\ payLock[p] = t
      /\ session[t].new = amount[p] /\ Rows(allocation[p]) \subseteq session[t].seen
      /\ Sum(ask) <= session[t].new
      /\ \A d \in Document : docLock[d] # t => ask[d] = 0
  BY <1>1, AtCommit DEF Acceptable
<1>3. /\ a \in Allocation /\ ask \in Allocation /\ allocation \in [Payment -> Allocation]
      /\ amount[p] \in Nat
  BY <1>1, <1>2, ReplacedRows, Positive DEF TypeOK
<1>4. \A d \in Document : a[d] = ask[d] /\ (ask[d] = 0 => a[d] <= allocation[p][d])
  <2> SUFFICES ASSUME NEW d \in Document PROVE a[d] = ask[d] /\ (ask[d] = 0 => a[d] <= allocation[p][d])
    OBVIOUS
  <2>1. ask[d] \in Nat /\ allocation[p][d] \in Nat
    BY <1>2, <1>3 DEF Allocation
  <2>2. d \notin session[t].seen => allocation[p][d] = 0
    BY <1>2, <2>1 DEF Rows
  <2>3. QED
    BY <1>1, <1>2, <2>1, <2>2, ReplacedRows
<1> HIDE DEF a
<1>5. allocation' \in [Payment -> Allocation] /\ allocation'[p] = a
      /\ \A q \in Payment \ {p} : allocation'[q] = allocation[q]
  BY <1>1, <1>2, <1>3
<1>6. TypeOK'
  <2>1. outdated' \in BOOLEAN
    BY <1>1 DEF TypeOK
  <2>2. docLock' \in [Document -> Txn \cup {NoTxn}] /\ payLock' \in [Payment -> Txn \cup {NoTxn}]
    BY <1>1 DEF TypeOK
  <2>3. session' \in [Txn -> PaymentSession \cup DocumentSession \cup {Closed}]
    BY <1>1, <1>2, Forgotten
  <2>4. QED
    BY <1>1, <1>5, <2>1, <2>2, <2>3 DEF TypeOK
<1>7. CashFollows'
  BY <1>1 DEF PaymentInv, CashFollows
<1>8. WithinAmount'
  <2>1. Sum(a) <= amount[p]
    <3>1. \A d \in Document : a[d] <= ask[d] /\ ask[d] <= ask[d]
      BY <1>3, <1>4 DEF Allocation
    <3>2. Sum(a) <= Sum(ask) /\ Sum(a) \in Nat /\ Sum(ask) \in Nat
      BY <1>3, <3>1, SumOfRows
    <3>3. QED
      BY <1>2, <1>3, <3>2
  <2> SUFFICES ASSUME ~late, NEW q \in Payment, status[q] = "posted"
               PROVE  Sum(allocation'[q]) <= amount[q]
    BY <1>1 DEF WithinAmount, Sum, Rows
  <2>2. QED
    BY <1>5, <2>1 DEF PaymentInv, WithinAmount
<1>9. NeverOverpaid'
  <2> SUFFICES ASSUME ~outdated', ~late, NEW d \in Document
               PROVE  Owed(status, allocation', d, Payment)
                        <= IF document[d].status = "posted" THEN document[d].total ELSE 0
    BY <1>1 DEF NeverOverpaid, Settled, Owed
  <2>1. ~outdated /\ \A e \in Rows(ask) : Judged(t, e) = document[e]
    BY <1>1 DEF TypeOK
  <2>2. document[d].total \in Nat /\ ask[d] \in Nat /\ a[d] = ask[d] /\ allocation[p][d] \in Nat
    BY <1>1, <1>2, <1>3, <1>4 DEF TypeOK, DocumentRow, Allocation
  <2>3. /\ Owed(status, allocation', d, Payment) = Owed(status, allocation, d, Payment \ {p}) + a[d]
        /\ Owed(status, allocation, d, Payment)
             = Owed(status, allocation, d, Payment \ {p}) + allocation[p][d]
        /\ Owed(status, allocation, d, Payment) \in Nat
        /\ Owed(status, allocation, d, Payment \ {p}) \in Nat
    <3>1. Owed(status, allocation', d, Payment) = Owed(status, allocation, d, Payment \ {p}) + a[d]
      BY <1>2, <1>3, <1>5, OwedMoved
    <3>2. Owed(status, allocation, d, Payment)
            = Owed(status, allocation, d, Payment \ {p}) + allocation[p][d]
      BY <1>2, <1>3, OwedButOne
    <3>3. Owed(status, allocation, d, Payment) \in Nat /\ Owed(status, allocation, d, Payment \ {p}) \in Nat
      BY <1>3, OwedIsPaid
    <3>4. QED
      BY <3>1, <3>2, <3>3
  <2>4. CASE ask[d] > 0
    <3>1. d \in Rows(ask) /\ Counted(session[t]) = Payment \ {p}
      BY <1>1, <2>4 DEF Rows, Counted, Doing
    <3>2. /\ document[d].status = "posted"
          /\ ask[d] + Owed(status, allocation, d, Payment \ {p}) <= document[d].total
      BY <1>1, <2>1, <2>4, <3>1, StillFits
    <3> HIDE DEF p, ask
    <3>3. QED
      BY <2>2, <2>3, <3>2
  <2>5. CASE ask[d] = 0
    <3>1. Owed(status, allocation, d, Payment)
            <= IF document[d].status = "posted" THEN document[d].total ELSE 0
      BY <2>1 DEF PaymentInv, NeverOverpaid, Settled, Owed
    <3> HIDE DEF p, ask
    <3>2. QED
      BY <2>2, <2>3, <2>5, <3>1
  <2>6. QED
    BY <2>2, <2>4, <2>5
<1>10. SparesPayments(t) /\ SparesDocuments(t)
  <2>1. ASSUME NEW d \in Document, docLock[d] \in Txn \ {t}
        PROVE  Paid(status', allocation', d)[p] <= Paid(status, allocation, d)[p]
    BY <1>1, <1>2, <1>4, <1>5, <2>1 DEF Paid
  <2> HIDE DEF p
  <2>2. QED
    BY <1>1, <1>2, <1>5, <1>6, <2>1, SparesRest
<1>11. \A u \in Txn \ {t} : Doing(u, {"replace"}) /\ ~At(u, "load") =>
            (Rows(allocation[session[u].payment]) \subseteq session[u].seen
               => Rows(allocation'[session[u].payment]) \subseteq session'[u].seen)
  BY <1>1, <1>2, <1>3, SeenStays
<1>12. \A u \in Txn \ {t} : /\ \A q \in Payment : payLock[q] = u => payLock'[q] = u
                            /\ \A d \in Document : docLock[d] = u => docLock'[d] = u
  BY <1>1, <1>2 DEF TypeOK
<1>13. PaymentInv'
  BY <1>1, <1>2, <1>6, <1>7, <1>8, <1>9, <1>10, <1>11, <1>12, Forgotten, Kept
<1>14. QED
  BY <1>1, <1>13

\* A payment is deleted.
LEMMA CommitDeleteKeeps ==
  ASSUME PaymentInv, NEW t \in Txn, CommitDelete(t)
  PROVE  /\ PaymentInv' /\ UNCHANGED document
         /\ Doing(t, {"delete"}) /\ \A q \in Payment \ {session[t].payment} : status'[q] = status[q]
         /\ session[t].linked \/ cash[session[t].payment].status = "none"
<1> DEFINE p == session[t].payment
<1>1. /\ TypeOK /\ Doing(t, {"delete"}) /\ payLock[p] \in {t, NoTxn} /\ Forget(t)
      /\ session[t].linked \/ cash[p].status = "none"
      /\ UNCHANGED <<document, cash, locks, outdated, late>>
      /\ status' = [status EXCEPT ![p] = "deleted"]
      /\ amount' = [amount EXCEPT ![p] = NoAmount]
      /\ allocation' = [allocation EXCEPT ![p] = Nothing]
      /\ unlinked' = (unlinked \/ session[t].linked)
  BY DEF PaymentInv, CommitDelete, Deletable, Free
<1>2. session[t] \in PaymentSession /\ p \in Payment /\ session[t].linked \in BOOLEAN
  <2>1. session[t] \in PaymentSession
    BY <1>1, Sessions DEF PaymentOperation
  <2>2. QED
    BY <2>1 DEF PaymentSession
<1>3. Nothing \in Allocation /\ NoAmount \in Amount /\ allocation \in [Payment -> Allocation]
  BY <1>1, Positive DEF TypeOK, Nothing, Allocation, NoAmount
<1>4. allocation' \in [Payment -> Allocation] /\ allocation'[p] = Nothing
      /\ \A q \in Payment \ {p} : /\ allocation'[q] = allocation[q] /\ status'[q] = status[q]
                                  /\ amount'[q] = amount[q]
  BY <1>1, <1>2, <1>3 DEF TypeOK
<1>5. TypeOK'
  <2>1. /\ amount' \in [Payment -> Amount]
        /\ status' \in [Payment -> {"none", "draft", "posted", "cancelled", "deleted"}]
    BY <1>1, <1>3 DEF TypeOK
  <2>2. unlinked' \in BOOLEAN
    BY <1>1, <1>2 DEF TypeOK
  <2>3. session' \in [Txn -> PaymentSession \cup DocumentSession \cup {Closed}]
    BY <1>1, <1>2, Forgotten
  <2>4. QED
    BY <1>1, <1>4, <2>1, <2>2, <2>3 DEF TypeOK, locks
<1>6. CashFollows'
  <2> SUFFICES ASSUME NEW q \in Payment
               PROVE  /\ status'[q] \in {"none", "draft"} => cash[q].status = "none"
                      /\ status'[q] = "deleted" => cash[q].status = "none" \/ unlinked'
                      /\ status'[q] \in {"posted", "cancelled"} => cash[q].status # "none"
                      /\ status'[q] = "posted" /\ ~late => cash[q].amount = amount'[q]
                      /\ status'[q] = "cancelled" => cash[q].status = "cancelled"
    BY <1>1 DEF CashFollows
  <2>1. CASE q = p
    <3>1. status'[p] = "deleted"
      BY <1>1, <1>2 DEF TypeOK
    <3>2. QED
      BY <1>1, <1>2, <2>1, <3>1
  <2>2. CASE q # p
    BY <1>1, <1>4, <2>2 DEF PaymentInv, CashFollows
  <2>3. QED
    BY <2>1, <2>2
<1>7. status'[p] = "deleted"
  BY <1>1, <1>2 DEF TypeOK
<1>8. WithinAmount'
  <2> SUFFICES ASSUME ~late, NEW q \in Payment, status'[q] = "posted"
               PROVE  Sum(allocation'[q]) <= amount'[q]
    BY <1>1 DEF WithinAmount, Sum, Rows
  <2>1. QED
    BY <1>4, <1>7 DEF PaymentInv, WithinAmount
<1>9. \A d \in Document : Paid(status', allocation', d)[p] <= Paid(status, allocation, d)[p]
  <2>1. \A d \in Document : Paid(status, allocation, d)[p] \in Nat
    BY <1>2, <1>3, OwedIsPaid
  <2>2. \A d \in Document : Paid(status', allocation', d)[p] = 0
    BY <1>2, <1>7 DEF Paid
  <2>3. QED
    BY <2>1, <2>2
<1>10. \A d \in Document, q \in Payment :
         Paid(status', allocation', d)[q] <= Paid(status, allocation, d)[q]
  <2>1. \A d \in Document, q \in Payment \ {p} :
          Paid(status', allocation', d)[q] = Paid(status, allocation, d)[q]
    BY <1>4 DEF Paid
  <2>2. \A d \in Document, q \in Payment : Paid(status, allocation, d)[q] \in Nat
    BY <1>3, OwedIsPaid
  <2>3. QED
    BY <1>9, <2>1, <2>2
<1>11. NeverOverpaid'
  BY <1>1, <1>5, <1>10, LessOwed
<1>12. SparesPayments(t) /\ SparesDocuments(t)
  <2>1. payLock[p] \notin Txn \ {t}
    BY <1>1, Nobody
  <2> HIDE DEF p
  <2>2. QED
    BY <1>1, <1>2, <1>4, <1>5, <1>9, <2>1, SparesRest
<1>13. \A u \in Txn \ {t} : Doing(u, {"replace"}) /\ ~At(u, "load") =>
            (Rows(allocation[session[u].payment]) \subseteq session[u].seen
               => Rows(allocation'[session[u].payment]) \subseteq session'[u].seen)
  <2>1. payLock[p] \notin Txn \ {t}
    BY <1>1, Nobody
  <2>2. QED
    BY <1>1, <1>2, <1>3, <2>1, SeenStays
<1>14. PaymentInv'
  BY <1>1, <1>2, <1>5, <1>6, <1>8, <1>11, <1>12, <1>13, Forgotten, Kept DEF locks
<1>15. QED
  BY <1>1, <1>4, <1>14

\* A draft is created or edited: a payment that is held keeps its amount and loses rows
\* at most, and unless the edit is late, nothing that is posted changes.
LEMMA CommitDraftKeeps ==
  ASSUME PaymentInv, NEW t \in Txn, CommitDraft(t)
  PROVE  /\ PaymentInv' /\ UNCHANGED document
         /\ \A q \in Payment : status'[q] = status[q] \/ (status[q] = "none" /\ status'[q] = "draft")
<1> DEFINE p == session[t].payment
           a == Replaced(t)
           creates == session[t].op = "create"
<1>1. /\ TypeOK /\ Doing(t, {"create", "update"}) /\ Forget(t) /\ Unhindered(t)
      /\ IF creates THEN status[p] = "none" ELSE status[p] # "deleted"
      /\ status' = IF creates THEN [status EXCEPT ![p] = "draft"] ELSE status
      /\ amount' = IF creates \/ session[t].new # session[t].amount
                   THEN [amount EXCEPT ![p] = session[t].new] ELSE amount
      /\ allocation' = [allocation EXCEPT ![p] = a]
      /\ late' = (late \/ status[p] \in {"posted", "cancelled"})
      /\ UNCHANGED <<document, cash, locks, outdated, unlinked>>
  BY DEF PaymentInv, CommitDraft
<1>2. session[t] \in PaymentSession /\ p \in Payment /\ session[t].new \in Amount
  <2>1. session[t] \in PaymentSession
    BY <1>1, Sessions DEF PaymentOperation
  <2>2. QED
    BY <2>1 DEF PaymentSession
<1>3. a \in Allocation /\ session[t].ask \in Allocation /\ allocation \in [Payment -> Allocation]
  BY <1>1, <1>2, ReplacedRows DEF TypeOK
<1>4. /\ \A d \in Document : session[t].ask[d] = 0 => a[d] <= allocation[p][d]
      /\ \A d \in Document : session[t].ask[d] = 0 /\ d \in session[t].seen => a[d] = 0
      /\ \A d \in Document : session[t].ask[d] = 0 /\ d \notin session[t].seen => a[d] = allocation[p][d]
  BY <1>1, <1>2, ReplacedRows
<1>5. /\ \A d \in Document : docLock[d] \in Txn \ {t} => session[t].ask[d] = 0
      /\ payLock[p] \in Txn \ {t} => /\ session[t].new = session[t].amount
                                     /\ \A d \in Document : session[t].ask[d] = 0
  <2>1. /\ \A d \in Rows(session[t].ask) : docLock[d] \in {t, NoTxn}
        /\ (session[t].new = session[t].amount /\ session[t].ask = Nothing)
             \/ payLock[p] \in {t, NoTxn}
    BY <1>1 DEF Unhindered, Free
  <2>2. ASSUME NEW d \in Document, docLock[d] \in Txn \ {t} PROVE session[t].ask[d] = 0
    <3>1. d \notin Rows(session[t].ask)
      BY <2>1, <2>2, Nobody
    <3>2. session[t].ask[d] \in Nat
      BY <1>3 DEF Allocation
    <3>3. QED
      BY <3>1, <3>2 DEF Rows
  <2>3. QED
    BY <2>1, <2>2, Nobody DEF Nothing
<1> HIDE DEF a
<1>6. /\ allocation' \in [Payment -> Allocation] /\ allocation'[p] = a
      /\ \A q \in Payment \ {p} : /\ allocation'[q] = allocation[q] /\ status'[q] = status[q]
                                  /\ amount'[q] = amount[q]
      /\ status'[p] = IF creates THEN "draft" ELSE status[p]
      /\ amount'[p] = amount[p] \/ creates \/ session[t].new # session[t].amount
  BY <1>1, <1>2, <1>3 DEF TypeOK
<1>7. TypeOK'
  <2>1. amount' \in [Payment -> Amount]
    BY <1>1, <1>2 DEF TypeOK
  <2>2. status' \in [Payment -> {"none", "draft", "posted", "cancelled", "deleted"}]
    BY <1>1 DEF TypeOK
  <2>3. late' \in BOOLEAN
    BY <1>1 DEF TypeOK
  <2>4. session' \in [Txn -> PaymentSession \cup DocumentSession \cup {Closed}]
    BY <1>1, <1>2, Forgotten
  <2>5. QED
    BY <1>1, <1>6, <2>1, <2>2, <2>3, <2>4 DEF TypeOK, locks
<1>8. ~late' => ~late /\ status[p] \notin {"posted", "cancelled"} /\ status'[p] # "posted"
  <2>1. ~late' => ~late /\ status[p] \notin {"posted", "cancelled"}
    BY <1>1 DEF TypeOK
  <2>2. status[p] # "posted" => status'[p] # "posted"
    BY <1>6
  <2>3. QED
    BY <2>1, <2>2
<1>9. CashFollows'
  <2> SUFFICES ASSUME NEW q \in Payment
               PROVE  /\ status'[q] \in {"none", "draft"} => cash[q].status = "none"
                      /\ status'[q] = "deleted" => cash[q].status = "none" \/ unlinked
                      /\ status'[q] \in {"posted", "cancelled"} => cash[q].status # "none"
                      /\ status'[q] = "posted" /\ ~late' => cash[q].amount = amount'[q]
                      /\ status'[q] = "cancelled" => cash[q].status = "cancelled"
    BY <1>1 DEF CashFollows
  <2>1. CASE q = p
    <3>1. /\ status[p] \in {"none", "draft"} => cash[p].status = "none"
          /\ status[p] = "deleted" => cash[p].status = "none" \/ unlinked
          /\ status[p] \in {"posted", "cancelled"} => cash[p].status # "none"
          /\ status[p] = "cancelled" => cash[p].status = "cancelled"
      BY <1>2 DEF PaymentInv, CashFollows
    <3> HIDE DEF p, creates
    <3>2. CASE creates
      BY <1>1, <1>6, <2>1, <3>1, <3>2
    <3>3. CASE ~creates
      BY <1>6, <1>8, <2>1, <3>1, <3>3
    <3>4. QED
      BY <3>2, <3>3
  <2>2. CASE q # p
    BY <1>6, <1>8, <2>2 DEF PaymentInv, CashFollows
  <2>3. QED
    BY <2>1, <2>2
<1>10. WithinAmount'
  <2> SUFFICES ASSUME ~late', NEW q \in Payment, status'[q] = "posted"
               PROVE  Sum(allocation'[q]) <= amount'[q]
    BY DEF WithinAmount, Sum, Rows
  <2>1. q # p /\ ~late
    BY <1>8
  <2>2. QED
    BY <1>6, <2>1 DEF PaymentInv, WithinAmount
<1>11. \A d \in Document, q \in Payment \ {p} :
         Paid(status', allocation', d)[q] <= Paid(status, allocation, d)[q]
  <2>1. \A d \in Document, q \in Payment \ {p} :
          Paid(status', allocation', d)[q] = Paid(status, allocation, d)[q]
    BY <1>6 DEF Paid
  <2>2. \A d \in Document, q \in Payment : Paid(status, allocation, d)[q] \in Nat
    BY <1>3, OwedIsPaid
  <2>3. QED
    BY <2>1, <2>2
<1>12. ASSUME NEW d \in Document, session[t].ask[d] = 0 \/ ~late'
       PROVE  Paid(status', allocation', d)[p] <= Paid(status, allocation, d)[p]
  <2>1. Paid(status, allocation, d)[p] \in Nat
    BY <1>2, <1>3, OwedIsPaid
  <2>2. /\ Paid(status', allocation', d)[p] = IF status'[p] = "posted" THEN a[d] ELSE 0
        /\ Paid(status, allocation, d)[p] = IF status[p] = "posted" THEN allocation[p][d] ELSE 0
    BY <1>2, <1>6 DEF Paid
  <2>3. CASE status'[p] # "posted"
    BY <2>1, <2>2, <2>3
  <2>4. CASE status'[p] = "posted"
    <3>1. status[p] = "posted" /\ session[t].ask[d] = 0
      BY <1>6, <1>8, <1>12, <2>4
    <3>2. QED
      BY <1>4, <2>2, <2>4, <3>1
  <2>5. QED
    BY <2>3, <2>4
<1>13. NeverOverpaid'
  <2>1. ~late' => \A d \in Document, q \in Payment :
                    Paid(status', allocation', d)[q] <= Paid(status, allocation, d)[q]
    BY <1>11, <1>12
  <2>2. QED
    BY <1>1, <1>7, <1>8, <2>1, LessOwed
<1>14. SparesPayments(t)
  <2> SUFFICES ASSUME NEW q \in Payment, payLock[q] \in Txn \ {t}, status[q] # "none"
               PROVE  /\ status'[q] = status[q] /\ amount'[q] = amount[q]
                      /\ \A d \in Document : allocation'[q][d] <= allocation[q][d]
    BY DEF SparesPayments
  <2>1. CASE q = p
    BY <1>1, <1>4, <1>5, <1>6, <2>1
  <2>2. CASE q # p
    BY <1>3, <1>6, <2>2 DEF Allocation
  <2>3. QED
    BY <2>1, <2>2
<1>15. SparesDocuments(t)
  BY <1>1, <1>5, <1>11, <1>12 DEF SparesDocuments
<1>16. \A u \in Txn \ {t} : Doing(u, {"replace"}) /\ ~At(u, "load") =>
            (Rows(allocation[session[u].payment]) \subseteq session[u].seen
               => Rows(allocation'[session[u].payment]) \subseteq session'[u].seen)
  <2>1. \/ payLock[p] \notin Txn \ {t}
        \/ \A d \in Document : a[d] > 0 => d \notin session[t].seen /\ allocation[p][d] > 0
    <3> SUFFICES ASSUME payLock[p] \in Txn \ {t}, NEW d \in Document, a[d] > 0
                 PROVE  d \notin session[t].seen /\ allocation[p][d] > 0
      OBVIOUS
    <3>1. session[t].ask[d] = 0 /\ a[d] # 0
      BY <1>5
    <3>2. d \notin session[t].seen
      BY <1>4, <3>1
    <3>3. a[d] = allocation[p][d]
      BY <1>4, <3>1, <3>2
    <3>4. QED
      BY <3>2, <3>3
  <2>2. QED
    BY <1>1, <1>2, <1>3, <2>1, SeenStays
<1>17. PaymentInv'
  BY <1>1, <1>2, <1>7, <1>9, <1>10, <1>13, <1>14, <1>15, <1>16, Forgotten, Kept DEF locks
<1>18. QED
  BY <1>1, <1>6, <1>17

\* The cash desk takes a row back.
LEMMA CancelCashKeeps ==
  ASSUME PaymentInv, NEW p \in Payment, CancelCash(p)
  PROVE  PaymentInv' /\ UNCHANGED <<document, status>>
<1>1. /\ TypeOK /\ cash[p].status = "posted" /\ cash' = [cash EXCEPT ![p].status = "cancelled"]
      /\ UNCHANGED <<document, status, amount, allocation, locks, session, history>>
  BY DEF PaymentInv, CancelCash
<1>2. TypeOK'
  <2>1. [cash[p] EXCEPT !.status = "cancelled"] \in [status : {"none", "posted", "cancelled"}, amount : Nat]
    BY <1>1 DEF TypeOK
  <2>2. cash' \in [Payment -> [status : {"none", "posted", "cancelled"}, amount : Nat]]
    BY <1>1, <2>1 DEF TypeOK
  <2>3. QED
    BY <1>1, <2>2 DEF TypeOK, locks, history
<1>3. CashFollows'
  BY <1>1 DEF PaymentInv, CashFollows, TypeOK, history
<1>4. WithinAmount' /\ NeverOverpaid'
  BY <1>1 DEF PaymentInv, WithinAmount, NeverOverpaid, Settled, Sum, Rows, history
<1>5. ASSUME NEW t \in Txn PROVE HoldsPayment(t)' /\ CoversRows(t)'
  BY <1>1 DEF PaymentInv, HoldsPayment, CoversRows, Doing, At, Rows, locks
<1>6. ASSUME NEW t \in Txn PROVE HoldsDocument(t)'
  BY <1>1 DEF PaymentInv, HoldsDocument, Settled, Doing, At, locks
<1>7. ASSUME NEW t \in Txn PROVE HoldsDocuments(t)'
  <2>1. Acceptable(t)' <=> Acceptable(t)
    BY <1>1 DEF Acceptable, Judged, Outstanding, Settled, Doing, At, Sum, Rows
  <2>2. QED
    BY <1>1, <2>1 DEF PaymentInv, HoldsDocuments, Doing, At, Rows, locks
<1>8. QED
  BY <1>1, <1>2, <1>3, <1>4, <1>5, <1>6, <1>7 DEF PaymentInv
-----------------------------------------------------------------------------
LEMMA PaymentInit == Init => PaymentInv
<1> SUFFICES ASSUME Init PROVE PaymentInv
  OBVIOUS
<1>1. /\ Nothing \in Allocation /\ NoAmount \in Amount
      /\ allocation = [p \in Payment |-> Nothing] /\ status = [p \in Payment |-> "none"]
      /\ document \in [Document -> [status : {"posted"}, total : Total]]
  BY Positive DEF Init, Nothing, Allocation, NoAmount
<1>2. TypeOK
  <2>1. document \in [Document -> DocumentRow]
    BY <1>1, Positive DEF DocumentRow
  <2>2. /\ status \in [Payment -> {"none", "draft", "posted", "cancelled", "deleted"}]
        /\ amount \in [Payment -> Amount] /\ allocation \in [Payment -> Allocation]
    BY <1>1 DEF Init
  <2>3. cash \in [Payment -> [status : {"none", "posted", "cancelled"}, amount : Nat]]
    BY DEF Init
  <2>4. /\ docLock \in [Document -> Txn \cup {NoTxn}] /\ payLock \in [Payment -> Txn \cup {NoTxn}]
        /\ session \in [Txn -> PaymentSession \cup DocumentSession \cup {Closed}]
    BY DEF Init
  <2>5. <<outdated, late, unlinked>> \in BOOLEAN \X BOOLEAN \X BOOLEAN
    BY DEF Init
  <2>6. QED
    BY <2>1, <2>2, <2>3, <2>4, <2>5 DEF TypeOK
<1>3. CashFollows /\ WithinAmount
  BY DEF Init, CashFollows, WithinAmount
<1>4. NeverOverpaid
  <2> SUFFICES ASSUME NEW d \in Document
               PROVE  Owed(status, allocation, d, Payment)
                        <= IF document[d].status = "posted" THEN document[d].total ELSE 0
    BY DEF NeverOverpaid, Settled, Owed
  <2>1. document[d].status = "posted" /\ document[d].total \in Nat
    <3>1. document[d] \in [status : {"posted"}, total : Total]
      BY <1>1
    <3>2. QED
      BY <3>1, Positive
  <2>2. \A p \in Payment : Paid(status, allocation, d)[p] = 0
    <3>1. \A p \in Payment : status[p] # "posted"
      BY <1>1
    <3>2. QED
      BY <3>1 DEF Paid
  <2>3. SumFunctionOnSet(Paid(status, allocation, d), Payment) = 0
    BY <2>2, Tables, SumNothing
  <2>4. Owed(status, allocation, d, Payment) = SumFunctionOnSet(Paid(status, allocation, d), Payment)
    <3>1. allocation \in [Payment -> Allocation] /\ Payment \in SUBSET Payment
      BY <1>2 DEF TypeOK
    <3>2. QED
      BY <3>1, OwedIsPaid
  <2>5. QED
    BY <2>1, <2>3, <2>4
<1>5. \A t \in Txn : At(t, "closed")
  BY DEF Init, At, Closed
<1>6. \A t \in Txn : HoldsPayment(t) /\ CoversRows(t) /\ HoldsDocuments(t) /\ HoldsDocument(t)
  BY <1>5 DEF Doing, HoldsPayment, CoversRows, HoldsDocuments, HoldsDocument
<1>7. QED
  BY <1>2, <1>3, <1>4, <1>6 DEF PaymentInv

\* What a step does to documents, and to payments that have been posted.
Respects == \A d \in Document : document'[d] # document[d] =>
              Settled(d, Payment) <= IF document'[d].status = "posted" THEN document'[d].total ELSE 0
Keeps == \A p \in Payment : status[p] \in {"posted", "cancelled"} =>
           \/ status'[p] \in {"posted", "cancelled"}
           \/ \E t \in Txn : Doing(t, {"delete"}) /\ session[t].payment = p /\ session[t].linked

LEMMA NextKeeps ==
  ASSUME PaymentInv, [Next]_vars PROVE PaymentInv' /\ Respects /\ Keeps
<1>1. CASE UNCHANGED vars
  <2>1. UNCHANGED <<document, status, amount, allocation, cash, docLock, payLock, session,
                    outdated, late, unlinked>>
    BY <1>1 DEF vars, rows, locks, history
  <2>2. TypeOK' /\ CashFollows'
    BY <2>1 DEF PaymentInv, TypeOK, CashFollows
  <2>3. WithinAmount' /\ NeverOverpaid'
    BY <2>1 DEF PaymentInv, WithinAmount, NeverOverpaid, Settled, Sum, Rows
  <2>4. ASSUME NEW t \in Txn PROVE HoldsPayment(t)' /\ CoversRows(t)'
    BY <2>1 DEF PaymentInv, HoldsPayment, CoversRows, Doing, At, Rows
  <2>5. ASSUME NEW t \in Txn PROVE HoldsDocument(t)'
    BY <2>1 DEF PaymentInv, HoldsDocument, Settled, Doing, At
  <2>6. ASSUME NEW t \in Txn PROVE HoldsDocuments(t)'
    <3>1. Acceptable(t)' <=> Acceptable(t)
      BY <2>1 DEF Acceptable, Judged, Outstanding, Settled, Doing, At, Sum, Rows
    <3>2. QED
      BY <2>1, <3>1 DEF PaymentInv, HoldsDocuments, Doing, At, Rows
  <2>7. PaymentInv'
    BY <2>2, <2>3, <2>4, <2>5, <2>6 DEF PaymentInv
  <2>8. QED
    BY <2>1, <2>7 DEF Respects, Keeps
<1>2. ASSUME NEW t \in Txn, NEW p \in Payment, NEW operation \in {"create", "update", "delete"},
             ReadDraft(t, operation, p)
      PROVE  PaymentInv' /\ UNCHANGED <<document, status>>
  BY <1>2, ReadDraftKeeps DEF ReadDraft, rows
<1>3. ASSUME NEW t \in Txn, NEW p \in Payment, NEW operation \in {"post", "replace", "cancel"},
             LockPayment(t, operation, p)
      PROVE  PaymentInv' /\ UNCHANGED <<document, status>>
  BY <1>3, LockPaymentKeeps DEF LockPayment, rows
<1>4. ASSUME NEW t \in Txn, Load(t) \/ LoadCash(t)
      PROVE  PaymentInv' /\ UNCHANGED <<document, status>>
  BY <1>4, LoadKeeps, LoadCashKeeps DEF Load, LoadCash, rows
<1>5. ASSUME NEW t \in Txn, LockNextDocument(t) \/ Judge(t)
      PROVE  PaymentInv' /\ UNCHANGED <<document, status>>
  BY <1>5, LockNextDocumentKeeps, JudgeKeeps DEF LockNextDocument, Judge, rows
<1>6. ASSUME NEW t \in Txn, NEW d \in Document,
             LockDocument(t, "cancel_document", d, 0)
               \/ \E limit \in Total : LockDocument(t, "repost_document", d, limit)
      PROVE  PaymentInv' /\ UNCHANGED <<document, status>>
  <2>1. PICK operation \in DocumentOperation, limit \in Nat : LockDocument(t, operation, d, limit)
    BY <1>6, Positive DEF DocumentOperation
  <2>2. QED
    BY <2>1, LockDocumentKeeps DEF LockDocument, rows
<1>7. ASSUME NEW t \in Txn, JudgeDocument(t) \/ Abandon(t)
      PROVE  PaymentInv' /\ UNCHANGED <<document, status>>
  BY <1>7, JudgeDocumentKeeps, AbandonKeeps DEF JudgeDocument, Abandon, rows
<1>8. ASSUME NEW p \in Payment, CancelCash(p) PROVE PaymentInv' /\ UNCHANGED <<document, status>>
  BY <1>8, CancelCashKeeps
<1>9. ASSUME NEW t \in Txn, CommitReplace(t) PROVE PaymentInv' /\ UNCHANGED <<document, status>>
  BY <1>9, CommitReplaceKeeps
<1>10. ASSUME UNCHANGED <<document, status>> PROVE Respects /\ Keeps
  BY <1>10 DEF Respects, Keeps
<1>11. ASSUME NEW t \in Txn, CommitDocument(t) PROVE PaymentInv' /\ Respects /\ Keeps
  BY <1>11, CommitDocumentKeeps DEF CommitDocument, Respects, Keeps
<1>12. ASSUME NEW t \in Txn, CommitPost(t) PROVE PaymentInv' /\ Respects /\ Keeps
  BY <1>12, CommitPostKeeps DEF Respects, Keeps
<1>13. ASSUME NEW t \in Txn, CommitCancel(t) PROVE PaymentInv' /\ Respects /\ Keeps
  BY <1>13, CommitCancelKeeps DEF Respects, Keeps
<1>14. ASSUME NEW t \in Txn, CommitDraft(t) PROVE PaymentInv' /\ Respects /\ Keeps
  <2>1. PaymentInv' /\ Respects
    BY <1>14, CommitDraftKeeps DEF Respects
  <2>2. Keeps
    BY <1>14, CommitDraftKeeps DEF Keeps
  <2>3. QED
    BY <2>1, <2>2
<1>15. ASSUME NEW t \in Txn, CommitDelete(t) PROVE PaymentInv' /\ Respects /\ Keeps
  <2>1. PaymentInv' /\ Respects
    BY <1>15, CommitDeleteKeeps DEF Respects
  <2>2. Keeps
    <3> SUFFICES ASSUME NEW p \in Payment, status[p] \in {"posted", "cancelled"},
                        status'[p] \notin {"posted", "cancelled"}
                 PROVE  \E u \in Txn : Doing(u, {"delete"}) /\ session[u].payment = p /\ session[u].linked
      BY DEF Keeps
    <3>1. p = session[t].payment
      BY <1>15, CommitDeleteKeeps
    <3>2. cash[p].status # "none"
      BY DEF PaymentInv, CashFollows
    <3>3. Doing(t, {"delete"}) /\ session[t].linked
      BY <1>15, <3>1, <3>2, CommitDeleteKeeps
    <3>4. QED
      BY <3>1, <3>3
  <2>3. QED
    BY <2>1, <2>2
<1>16. QED
  BY <1>1, <1>2, <1>3, <1>4, <1>5, <1>6, <1>7, <1>8, <1>9, <1>10, <1>11, <1>12, <1>13, <1>14, <1>15
  DEF Next

THEOREM PaymentInvariant == Spec => []PaymentInv
<1>1. PaymentInv /\ [Next]_vars => PaymentInv'
  BY NextKeeps
<1>2. QED
  BY PaymentInit, <1>1, PTL DEF Spec

\* Every row, lock and session is of its type: no allocation is ever negative.
THEOREM PaymentTypes == Spec => []TypeOK
<1>1. PaymentInv => TypeOK
  BY DEF PaymentInv
<1>2. QED
  BY PaymentInvariant, <1>1, PTL

\* However many payments are posted and reallocated at once, no document is settled
\* beyond its total, and a cancelled one not at all: but for the two races that the
\* histories name.
THEOREM NoDocumentOverpaid == Spec => []NeverOverpaid
<1>1. PaymentInv => NeverOverpaid
  BY DEF PaymentInv
<1>2. QED
  BY PaymentInvariant, <1>1, PTL

\* A posted payment gives away no more than its amount, whatever edits of the draft
\* overlapped before it was posted.
THEOREM NoMoreThanAmount == Spec => []WithinAmount
<1>1. PaymentInv => WithinAmount
  BY DEF PaymentInv
<1>2. QED
  BY PaymentInvariant, <1>1, PTL

\* The cash desk has nothing of a draft, one row of a posted payment and of its amount,
\* and nothing left of a cancelled one.
THEOREM CashFollowsPayments == Spec => []CashFollows
<1>1. PaymentInv => CashFollows
  BY DEF PaymentInv
<1>2. QED
  BY PaymentInvariant, <1>1, PTL

\* Whatever payments do at the same time, a document is cancelled only when nothing of
\* it is settled, and its total not reduced below what is.
THEOREM DocumentsSeePayments == Spec => DocumentsRespectPayments
<1>1. PaymentInv /\ [Next]_vars =>
        [\A d \in Document : document'[d] # document[d] =>
           Settled(d, Payment) <= IF document'[d].status = "posted" THEN document'[d].total ELSE 0]_vars
  BY NextKeeps DEF Respects
<1>2. QED
  BY PaymentInvariant, <1>1, PTL DEF Spec, DocumentsRespectPayments

\* A payment that was posted is deleted by no request that found a draft, but by one
\* that has also found its row at the cash desk.
THEOREM PostedPaymentsStay == Spec => PostedIsKept
<1>1. PaymentInv /\ [Next]_vars =>
        [\A p \in Payment : status[p] \in {"posted", "cancelled"} =>
           \/ status'[p] \in {"posted", "cancelled"}
           \/ \E t \in Txn : Doing(t, {"delete"}) /\ session[t].payment = p /\ session[t].linked]_vars
  BY NextKeeps DEF Keeps
<1>2. QED
  BY PaymentInvariant, <1>1, PTL DEF Spec, PostedIsKept
=============================================================================
