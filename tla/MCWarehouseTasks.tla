--------------------------- MODULE MCWarehouseTasks ---------------------------
(* Instances of WarehouseTasks for TLC: a worker in the second warehouse     *)
(* and a reviewer, who works everywhere.                                     *)
EXTENDS WarehouseTasks, TLC

CONSTANTS worker, chief

MCAccess == (worker :> {2}) @@ (chief :> {})

Header(type, from, to) == [type |-> type, warehouse |-> from, destination |-> to]
MCTransferOnly == {Header("transfer", 1, 2)}
MCAllRoutes == MCTransferOnly \cup {Header("outgoing", 1, 1), Header("incoming", 2, 2), Header("adjustment", 1, 1)}

Symmetry == Permutations(Txn)
=============================================================================
