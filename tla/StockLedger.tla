----------------------------- MODULE StockLedger -----------------------------
(***************************************************************************)
(* What posting promises, with every transaction one indivisible step.     *)
(*                                                                         *)
(* A stock document is posted once, may be corrected (reposted) any number *)
(* of times and is cancelled once.  Each of the three writes rows to       *)
(* stock_movements and moves stock_balances by the sum of those rows, and  *)
(* none of them leaves a balance below zero.  Nothing is said about locks, *)
(* sessions or interleavings: StockPosting says how they are arranged and  *)
(* is shown to implement this module.                                      *)
(***************************************************************************)
EXTENDS Integers

CONSTANTS Document,      \* rows of the table documents
          Key,           \* (product, warehouse) pairs
          OpeningStock   \* the quantities the database starts with

VARIABLES status,    \* documents.status
          version,   \* documents.posting_version
          balance,   \* stock_balances.quantity, 0 where there is no row
          ledger     \* sum of stock_movements.quantity_delta of a key

vars == <<status, version, balance, ledger>>

Init ==
    /\ status = [d \in Document |-> "draft"]
    /\ version = [d \in Document |-> 0]
    /\ balance = OpeningStock
    /\ ledger = OpeningStock

\* The balances move by what the new movement rows add up to, and stay at or
\* above zero.
BookMovements ==
    \A k \in Key : /\ balance'[k] - balance[k] = ledger'[k] - ledger[k]
                   /\ balance'[k] >= 0

Post(d) ==
    /\ status[d] = "draft"
    /\ status' = [status EXCEPT ![d] = "posted"]
    /\ version' = [version EXCEPT ![d] = @ + 1]
    /\ BookMovements

Repost(d) ==
    /\ status[d] = "posted"
    /\ version' = [version EXCEPT ![d] = @ + 1]
    /\ BookMovements
    /\ UNCHANGED status

Cancel(d) ==
    /\ status[d] = "posted"
    /\ status' = [status EXCEPT ![d] = "cancelled"]
    /\ BookMovements
    /\ UNCHANGED version

Next == \E d \in Document : Post(d) \/ Repost(d) \/ Cancel(d)

Spec == Init /\ [][Next]_vars
=============================================================================
