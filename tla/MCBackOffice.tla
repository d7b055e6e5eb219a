----------------------------- MODULE MCBackOffice -----------------------------
(* The parts of the back office for TLC: edits of accounts, files to import,  *)
(* databases to upgrade, legacy files.                                        *)
EXTENDS BackOffice, TLC

CONSTANTS boss, clerk, p1, w1, c1, r1

\* The modules again, for what old databases and legacy files are made of.
Old == INSTANCE Upgrade WITH
  Document <- OldDocument, Payment <- OldPayment, LegacyDatabase <- {}
Stored == INSTANCE LegacyReader WITH LegacyFile <- {}
-----------------------------------------------------------------------------
\* Edits of one field each, and of a logist who becomes something else.
Body == [active |-> Unset, password |-> FALSE, roles |-> Unset, warehouses |-> Unset]
MCPayload ==
  {[Body EXCEPT !.active = FALSE], [Body EXCEPT !.password = TRUE],
   [Body EXCEPT !.warehouses = {}], [Body EXCEPT !.roles = {"logist"}],
   [Body EXCEPT !.roles = {"viewer"}, !.warehouses = {1}]}
-----------------------------------------------------------------------------
\* Files to import: an empty cell is None.
MCNaN == -100
Cell == [name |-> None, sku |-> None, category |-> None, code |-> None, type |-> "both",
         place |-> None, number |-> None]
Products(rows) == [kind |-> "products", rows |-> rows]
ProductRow(name, sku, category) ==
  [Cell EXCEPT !.name = name, !.sku = sku, !.category = category]
StockRow(product, number) == [Cell EXCEPT !.name = product, !.place = "w", !.number = number]
MCImportFile ==
  {Products(<<ProductRow("b", None, "g"), ProductRow("b", "1", "h")>>),
   Products(<<ProductRow("c", "1", None), ProductRow("b", None, None)>>),
   [kind |-> "partners",
    rows |-> <<[Cell EXCEPT !.name = "q", !.code = "1"], [Cell EXCEPT !.name = "p"]>>],
   [kind |-> "warehouses", rows |-> <<[Cell EXCEPT !.name = "x", !.code = "1"]>>],
   [kind |-> "opening-stock", rows |-> <<StockRow("a", 2), StockRow("a", 1)>>],
   [kind |-> "opening-stock",
    rows |-> <<StockRow("a", 1), [StockRow("b", 1) EXCEPT !.sku = "1"], StockRow("a", 1)>>],
   [kind |-> "opening-stock", rows |-> <<[StockRow("a", 3) EXCEPT !.sku = "1"]>>],
   [kind |-> "opening-partner-balances",
    rows |-> <<[Cell EXCEPT !.name = "p", !.number = 1], [Cell EXCEPT !.name = "q", !.number = -1]>>]}
-----------------------------------------------------------------------------
\* Older databases: every kind of document beside a posted one, with payments of
\* their own and of another partner; and databases that lack roles or break the
\* rules of the present ones.
OldRow(type, status, placed, number, total) ==
  [type |-> type, status |-> status, warehouse |-> placed, number |-> number, total |-> total,
   version |-> 0]
OldMoney(type, status, id, samePartner) ==
  [type |-> type, status |-> status, document |-> id, amount |-> 2, samePartner |-> samePartner]
OldRole == {"admin", "manager", "cashier", "logist", "viewer"}
NoPermissions(roles) == [r \in roles |-> {}]

MCOldDatabase ==
  {Old!Legacy(<<first, second>>, <<p, q>>, FALSE, NoPermissions(OldRole \ {"logist"})) :
     first \in {OldRow(type, status, placed, number, 3) :
                  type \in {"incoming", "outgoing", "adjustment", "transfer"},
                  status \in {"draft", "posted", "cancelled"},
                  placed \in BOOLEAN, number \in {0, -1, 2}},
     second \in {OldRow("incoming", "posted", TRUE, number, 2) : number \in {2, 3}},
     p \in {OldMoney(kind[1], kind[2], id, TRUE) :
              kind \in {<<"refund", "draft">>, <<"customer_payment", "posted">>,
                        <<"supplier_payment", "cancelled">>}, id \in {0, 1}},
     q \in {OldMoney("supplier_payment", "posted", 1, TRUE),
            OldMoney("customer_payment", "posted", 1, FALSE),
            OldMoney("supplier_payment", "posted", 2, TRUE)}}
  \cup {Old!Legacy(<<OldRow("incoming", "posted", TRUE, 0, 3),
                     OldRow("incoming", "draft", TRUE, 0, 3)>>,
                   <<OldMoney("supplier_payment", "draft", 1, TRUE),
                     OldMoney("supplier_payment", "draft", 1, TRUE)>>,
                   negative, NoPermissions(roles)) :
          negative \in BOOLEAN, roles \in {{}, OldRole, OldRole \ {"logist"}}}
-----------------------------------------------------------------------------
\* Legacy files: a table of three rows on two pages. The first row may continue
\* on the other page, and from there back, the last has a blob; among them lie slots
\* that are free or hold no row, also old versions of rows that continue. The pages
\* of the table come before the system tables or after.
Slot(flags, runs, number, line) ==
  [used |-> TRUE, flags |-> flags, runs |-> runs, page |-> number, line |-> line,
   body |-> <<>>, pages |-> <<>>]
FreeSlot == [Slot({}, <<>>, 0, 0) EXCEPT !.used = FALSE]
Literal(cells) == [n |-> Len(cells), cells |-> cells]
Record(cells) == Slot({}, <<Literal(cells)>>, 0, 0)
Blob(body, pages) == [Slot({"blob"}, <<>>, 0, 0) EXCEPT !.body = body, !.pages = pages]
DataPage(relation, number, slots) ==
  [type |-> "data", orphan |-> FALSE, relation |-> relation, sequence |-> number,
   slots |-> slots, body |-> <<>>]
BlobPage(body) == [DataPage(0, 0, <<>>) EXCEPT !.type = "blob", !.body = body]
At(at, blob) == [at |-> at, blob |-> blob]

\* Table 40 has columns 11 and 12; the definition of a third is missing. Of two
\* formats the second is the table's own.
SystemPages ==
  <<DataPage(Stored!Relations, 0, <<Record(<<0, 1, 40, 2>>)>>),
    DataPage(Stored!Fields, 0, <<Record(<<0, 11>>), Record(<<0, 12>>)>>),
    DataPage(Stored!RelationFields, 0,
             <<Record(<<0, 21, 1, 11, 1>>), Record(<<0, 22, 1, 12, 2>>),
               Record(<<0, 23, 1, 99, 3>>)>>),
    DataPage(Stored!Formats, 0,
             <<Record(<<0, 40, 2, 3>>), Record(<<0, 40, 1, 2>>),
               Blob(<<At(3, FALSE), At(2, FALSE)>>, <<>>),
               Blob(<<At(2, FALSE), At(3, TRUE)>>, <<>>)>>)>>
\* The pages of the table, a and b of the file, with the first row in some pieces; the
\* blob's page is c.
FirstPage(other, pieces, null, b) ==
  DataPage(40, 0,
    <<other, CASE pieces = 1 -> Record(<<0, 1, 0>>)
               [] pieces = 2 -> Slot({"incomplete"}, <<Literal(<<0, 1>>)>>, b, 2)
               [] pieces = 3 -> Slot({"incomplete"}, <<Literal(<<0>>)>>, b, 2),
      Slot({}, <<Literal(<<IF null THEN 1 ELSE 0>>), [n |-> -2, cells |-> <<0>>],
                 [n |-> 0, cells |-> <<>>], Literal(<<5>>)>>, 0, 0),
      IF pieces = 3 THEN Slot({"fragment"}, <<Literal(<<0>>)>>, 0, 0) ELSE FreeSlot>>)
SecondPage(other, pieces, long, a, c) ==
  DataPage(40, 1,
    <<other, CASE pieces = 1 -> FreeSlot
               [] pieces = 2 -> Slot({"fragment"}, <<Literal(<<0>>)>>, 0, 0)
               [] pieces = 3 -> Slot({"fragment", "incomplete"}, <<Literal(<<1>>)>>, a, 4),
      Record(<<0, 3, 7>>), Blob(<<7, 8>>, IF long THEN <<c>> ELSE <<>>)>>)
Orphan == [DataPage(40, 0, <<Record(<<0, 6, 0>>)>>) EXCEPT !.orphan = TRUE]
Other == {FreeSlot} \cup {Slot(flags, <<Literal(<<0, 9, 9>>)>>, 1, 2) :
                            flags \in {{"deleted"}, {"chain"}, {"damaged"},
                                       {"incomplete", "deleted"}, {"incomplete", "chain"}}}
MCOldFile ==
  {[pages |-> IF late THEN SystemPages \o <<FirstPage(j, pieces, null, 6),
                                            SecondPage(k, pieces, long, 5, 7), BlobPage(<<7, 8>>)>>
              ELSE <<SecondPage(k, pieces, long, 2, 3), FirstPage(j, pieces, null, 1),
                     BlobPage(<<7, 8>>), Orphan>> \o SystemPages,
    rows |-> <<<< <<1>>, <<0>> >>, <<IF null THEN <<>> ELSE <<0>>, <<0>> >>,
               << <<3>>, <<7, 8>> >> >>,
    torn |-> IF pieces = 3 THEN {1} ELSE {}] :
     j \in Other, k \in Other, pieces \in 1 .. 3, null \in BOOLEAN, long \in BOOLEAN,
     late \in BOOLEAN}
-----------------------------------------------------------------------------
Symmetry == Permutations(Session) \cup Permutations(Group)
=============================================================================
