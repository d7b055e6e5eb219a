------------------------------ MODULE MCCashBook ------------------------------
(* The cash book with room for three rows, so that rows are booked before,    *)
(* between and after others on two days. Writers are interchangeable.         *)
EXTENDS CashBook, TLC

Symmetry == Permutations(Session)
=============================================================================
