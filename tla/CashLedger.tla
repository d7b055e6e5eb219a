------------------------------ MODULE CashLedger ------------------------------
(* What the cash desk promises, without rows, statuses or transactions: every *)
(* day has a net turnover, an accepted operation moves the turnover of one    *)
(* day, and no day ever closes below zero.                                    *)
EXTENDS Integers, Functions

CONSTANT Day           \* the days of the book, numbers

VARIABLE turnover      \* turnover[d] : what came in on day d, less what went out

\* The balance at the end of day d.
Closing(net, d) == SumFunctionOnSet(net, {e \in Day : e <= d})

Solvent(net) == \A d \in Day : Closing(net, d) >= 0

\* The desk opens with nothing in it, or with what older operations left.
Init == turnover \in [Day -> Int] /\ Solvent(turnover)

\* One operation is booked or taken back.
Move == /\ \E d \in Day : \A e \in Day \ {d} : turnover'[e] = turnover[e]
        /\ Solvent(turnover')

Spec == Init /\ [][Move]_turnover
=============================================================================
