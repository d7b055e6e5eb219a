------------------------------ MODULE MCPayments ------------------------------
(* Instances of Payments for TLC.                                             *)
EXTENDS Payments, TLC

\* Of one document: nothing, a part, all of it.
MCAskOne == {Nothing, (1 :> 1), (1 :> 2)}

\* Of two documents: nothing, a part or all of the first, a part of both.
MCAskTwo == {Nothing, (1 :> 1) @@ (2 :> 0), (1 :> 2) @@ (2 :> 0), (1 :> 1) @@ (2 :> 1)}

\* What a request is about, and what it asks for.
Concerns(t, p) == Doing(t, PaymentOperation) /\ session[t].payment = p
Changes(t, d)  == Doing(t, DocumentOperation) /\ session[t].document = d

\* One payment of any amount, and any document.
OnePayment ==
    Cardinality({p \in Payment : status[p] # "none" \/ \E t \in Txn : Concerns(t, p)}) <= 1

\* Any payment, of the amount 2, and the first document.
OneDocument ==
    /\ document[2].status = "posted" /\ \A p \in Payment : allocation[p][2] = 0
    /\ \A p \in Payment : status[p] \notin {"none", "deleted"} => amount[p] = 2
    /\ \A t \in Txn :
         /\ ~Changes(t, 2)
         /\ Doing(t, PaymentOperation) =>
              session[t].ask[2] = 0 /\ (session[t].pc = "load" \/ session[t].new = 2)

\* How many kinds of what the code does not exclude have happened.
Exceptions == Cardinality({i \in 1 .. 3 : history[i]})

\* Both at once are more states than TLC visits in a run, and so is what follows a
\* second exception.  The second document, of which at most 1 is asked, has the
\* total 1.
Limited == document[2].total = 1 /\ (OnePayment \/ OneDocument) /\ Exceptions <= 1

Symmetry == Permutations(Txn) \cup Permutations(Payment)
=============================================================================
