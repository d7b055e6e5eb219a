---------------------------- MODULE MCStockPosting ----------------------------
(* Instances of StockPosting small enough for TLC: two products in two       *)
(* warehouses, so that transfers in both directions contend for their keys.  *)
EXTENDS StockPosting, TLC

Lines(products, q) == [i \in DOMAIN products |-> [product |-> products[i], quantity |-> q]]
OneLine(type, from, to, q) ==
    [type |-> type, warehouse |-> from, destination |-> to, lines |-> Lines(<<1>>, q)]

\* Goods in, goods out, a recount, and transfers both ways.
MCPayload == {OneLine("incoming", 1, 1, 2), OneLine("outgoing", 2, 2, 1),
              OneLine("adjustment", 1, 1, 0), OneLine("transfer", 1, 2, 1),
              [type |-> "transfer", warehouse |-> 2, destination |-> 1,
               lines |-> Lines(<<2, 1>>, 1)]}

\* An adjustment that names the product twice, and a delivery.
MCRecount == [type |-> "adjustment", warehouse |-> 1, destination |-> 1,
              lines |-> <<[product |-> 1, quantity |-> 2], [product |-> 1, quantity |-> 1]>>]
MCRecountPayload == {MCRecount, OneLine("outgoing", 1, 1, 1)}

MCOpening == [k \in Key |-> IF k = <<1, 1>> \/ k = <<2, 2>> THEN 1 ELSE 0]
MCEmpty   == [k \in Key |-> 0]
Symmetry  == Permutations(Txn) \cup Permutations(Document)
=============================================================================
