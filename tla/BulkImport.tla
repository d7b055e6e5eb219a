------------------------------ MODULE BulkImport ------------------------------
(* Bulk import: a file is validated as a whole and applied row by row in one  *)
(* transaction. Rows find their products, partners and warehouses by sku and  *)
(* name; a row that is found is skipped, opening stock overwrites a balance   *)
(* read without a lock, opening debts become posted documents OPEN-<partner>. *)
(* Pending rows are flushed only where the code flushes (autoflush is off),   *)
(* and SQLAlchemy writes, and thereby locks, no balance that is given the     *)
(* quantity it was read with.                                                 *)
EXTENDS Integers, Sequences

CONSTANTS Session,       \* import requests (each worker process runs one at a time)
          File,          \* files: kind and rows
          None,          \* an empty cell
          NaN,           \* a cell that is no number
          MaxRows,       \* import_max_rows
          MaxImports,    \* bound: imports
          MaxQuantity    \* bound: stock that postings build up

VARIABLES products,      \* rows [sku, name, group]; the index of a row is its id
          groups,        \* names of product groups (not unique)
          partners,      \* rows [name, code]
          warehouses,    \* rows [name, code]
          stock,         \* stock_balances: a quantity for the keys that have a row
          moved,         \* history: the sum of the stock movements of a key
          debts,         \* documents OPEN-<partner id>: the signed debt
          session,
          disturbed,     \* history: keys an import has written although others committed
                         \* to them since it read them
          latest,        \* history: the file just applied, if nothing was committed since,
                         \* the keys its rows of opening stock were about, and of these
                         \* the ones it left to what others committed since it read them
          imports

tables == <<products, groups, partners, warehouses, stock, debts>>
vars == <<tables, moved, session, disturbed, latest, imports>>
-----------------------------------------------------------------------------
NoFile == [kind |-> "none", rows |-> <<>>]
Idle == [pc |-> "idle", file |-> NoFile, row |-> 1, pending |-> <<>>, flushed |-> <<>>,
         groups |-> <<>>, base |-> <<>>, local |-> <<>>, delta |-> <<>>, keys |-> <<>>,
         locked |-> {}, overtaken |-> {}, again |-> FALSE]
Nothing == [file |-> NoFile, keys |-> <<>>, spared |-> {}]

\* What f gives with g under it, and what it gives with value v for k.
Over(f, g) == [k \in DOMAIN f \cup DOMAIN g |-> IF k \in DOMAIN f THEN f[k] ELSE g[k]]
Put(f, k, v) == [j \in DOMAIN f \cup {k} |-> IF j = k THEN v ELSE f[j]]
OrZero(f, k) == IF k \in DOMAIN f THEN f[k] ELSE 0
Elements(rows) == {rows[i] : i \in DOMAIN rows}

Key == (1 .. Len(products)) \X (1 .. Len(warehouses))

TypeOK ==
  /\ \A p \in Elements(products) : DOMAIN p = {"sku", "name", "group"}
  /\ \A c \in Elements(partners) \cup Elements(warehouses) : DOMAIN c = {"name", "code"}
  /\ DOMAIN stock \subseteq Key /\ \A k \in DOMAIN stock : stock[k] \in Nat
  /\ DOMAIN moved = DOMAIN stock /\ disturbed \subseteq DOMAIN stock
  /\ DOMAIN debts \subseteq DOMAIN partners
  /\ \A s \in Session : session[s].pc \in {"idle", "apply"}
                        /\ session[s].row \in 1 .. MaxRows + 1

\* One product, partner and warehouse have been entered by hand.
Init ==
  /\ products = <<[sku |-> None, name |-> "a", group |-> None]>>
  /\ groups = <<>>
  /\ partners = <<[name |-> "p", code |-> None]>>
  /\ warehouses = <<[name |-> "w", code |-> None]>>
  /\ stock = <<>> /\ moved = <<>> /\ debts = <<>>
  /\ session = [s \in Session |-> Idle]
  /\ disturbed = {} /\ latest = Nothing /\ imports = 0
-----------------------------------------------------------------------------
\* The row a query without ORDER BY answers with: always the same of several.
FirstOf(ids) == IF ids = {} THEN 0 ELSE CHOOSE i \in ids : \A j \in ids : i <= j

\* Only the sku identifies a product.
FindProductBySku(rows, sku, name) ==
  FirstOf({i \in DOMAIN rows : sku # None /\ rows[i].sku = sku})
\* By sku, and where that finds nothing, by name; 0 when there is none.
FindProduct(rows, sku, name) ==
  LET bySku == {i \in DOMAIN rows : sku # None /\ rows[i].sku = sku}
  IN  FirstOf(IF bySku # {} THEN bySku
              ELSE {i \in DOMAIN rows : name # None /\ rows[i].name = name})
\* _find_partner, _find_warehouse
FindByName(rows, name) == FirstOf({i \in DOMAIN rows : name # None /\ rows[i].name = name})

\* The balance a row of opening stock is about, as things are.
KeyOf(r) == <<FindProduct(products, r.sku, r.name), FindByName(warehouses, r.place)>>
KeysOf(file) ==
  IF file.kind = "opening-stock" THEN [i \in DOMAIN file.rows |-> KeyOf(file.rows[i])] ELSE <<>>

Required(kind) ==
  CASE kind = "products" -> {"name"}
    [] kind = "partners" -> {"name", "type"}
    [] kind = "warehouses" -> {"name"}
    [] kind = "opening-stock" -> {"place", "number"}
    [] kind = "opening-partner-balances" -> {"name", "number"}

\* What the number of a row may be (a price and a debt may be left out or 0).
BadNumber(kind, n) ==
  n = NaN \/ (n # None /\ kind # "opening-partner-balances" /\ n < 0)

\* A row with an error keeps the whole file from being applied.
HasError(kind, row) ==
  \/ \E field \in Required(kind) : row[field] = None
  \/ BadNumber(kind, row.number)
  \/ kind = "partners" /\ row.type \notin {None, "customer", "supplier", "both"}
  \/ /\ kind = "opening-stock"
     /\ KeyOf(row) \notin Key
  \/ kind = "opening-partner-balances" /\ FindByName(partners, row.name) = 0

\* The file is applied as it is.
ValidLengthOnly(file) == Len(file.rows) <= MaxRows
\* validate_import without an error; a longer file is refused while it is read.
Valid(file) ==
  Len(file.rows) <= MaxRows /\ \A i \in DOMAIN file.rows : ~ HasError(file.kind, file.rows[i])

Start(s, file) ==
  /\ session[s].pc = "idle" /\ imports < MaxImports
  /\ Valid(file)
  /\ session' = [session EXCEPT ![s] =
       [Idle EXCEPT !.pc = "apply", !.file = file,
                    !.again = (latest = [file |-> file, keys |-> KeysOf(file), spared |-> {}])]]
  /\ imports' = imports + 1
  /\ UNCHANGED <<tables, moved, disturbed, latest>>

Applying(s, kind) == session[s].pc = "apply" /\ session[s].file.kind = kind
Row(s) == session[s].file.rows[session[s].row]
MoreRows(s) == session[s].row <= Len(session[s].file.rows)

Idles(s) == session' = [session EXCEPT ![s] = Idle]
\* An IntegrityError, a lost connection: nothing of the file stays.
Rollback(s) == session[s].pc = "apply" /\ Idles(s)
               /\ UNCHANGED <<tables, moved, disturbed, latest, imports>>

\* Rows that may be inserted: no two with the same unique value, none taken.
Insertable(rows, new, field) ==
  /\ \A i, j \in DOMAIN new : i # j /\ new[i][field] # None => new[i][field] # new[j][field]
  /\ \A i \in DOMAIN new, j \in DOMAIN rows :
       new[i][field] # None => new[i][field] # rows[j][field]

\* What s sees of the products: what is committed, and what it has flushed.
SeenProducts(s) == products \o session[s].flushed

\* A category without a group inserts the group, and with it all pending rows.
ApplyProduct(s) ==
  /\ Applying(s, "products") /\ MoreRows(s)
  /\ LET v == session[s]  r == Row(s)
         found == FindProduct(SeenProducts(s), r.sku, r.name)
         newGroup == r.category # None /\ r.category \notin Elements(groups \o v.groups)
         row == [sku |-> r.sku, name |-> r.name, group |-> r.category]
     IN  /\ found = 0 /\ newGroup => Insertable(SeenProducts(s), v.pending, "sku")
         /\ session' = [session EXCEPT ![s] =
              IF found # 0 THEN [v EXCEPT !.row = @ + 1]
              ELSE IF newGroup
              THEN [v EXCEPT !.row = @ + 1, !.groups = Append(@, r.category),
                             !.flushed = @ \o v.pending, !.pending = <<row>>]
              ELSE [v EXCEPT !.row = @ + 1, !.pending = Append(@, row)]]
  /\ UNCHANGED <<tables, moved, disturbed, latest, imports>>

\* Partners and warehouses are flushed at the end only.
ApplyCard(s, rows) ==
  /\ MoreRows(s)
  /\ LET v == session[s]  r == Row(s)
     IN  session' = [session EXCEPT ![s] =
           [v EXCEPT !.row = @ + 1,
                     !.pending = IF FindByName(rows, r.name) # 0 THEN @
                                 ELSE Append(@, [name |-> r.name, code |-> r.code])]]
  /\ UNCHANGED <<tables, moved, disturbed, latest, imports>>
ApplyPartner(s) == Applying(s, "partners") /\ ApplyCard(s, partners)
ApplyWarehouse(s) == Applying(s, "warehouses") /\ ApplyCard(s, warehouses)

\* Of the balances in a session: those that a flush writes, as their quantity (local)
\* is not the one read or flushed before (base), and all it will have written.
Changed(v) == {k \in DOMAIN v.local : v.local[k] # v.base[k]}
Written(v) == v.locked \cup Changed(v)

\* Mutant of Balance: the row is read anew each time, also for what the import has
\* assigned itself.
BalanceReread(s, k) ==
  LET v == session[s] IN
  IF k \in DOMAIN stock
  THEN [v EXCEPT !.base = Put(@, k, stock[k]), !.local = Put(@, k, stock[k]),
                 !.overtaken = @ \ {k}]
  ELSE [v EXCEPT !.base = Put(@, k, 0), !.local = Put(@, k, 0), !.locked = @ \cup {k}]
\* _balance: the object of the session as it is, or the row, or a new row of 0.  The
\* INSERT flushes: what was changed is written and locked, and what was not is
\* forgotten and read anew by a later row.
Balance(s, k) ==
  LET v == session[s]
      flushed == [j \in Written(v) \cup {k} |-> IF j = k THEN 0 ELSE v.local[j]]
  IN  IF k \in DOMAIN v.local THEN v
      ELSE IF k \in DOMAIN stock
      THEN [v EXCEPT !.base = Put(@, k, stock[k]), !.local = Put(@, k, stock[k]),
                     !.overtaken = @ \ {k}]
      ELSE [v EXCEPT !.base = flushed, !.local = flushed, !.locked = DOMAIN flushed]

\* The balance becomes what the row says, the movement is the difference.
ApplyStock(s) ==
  /\ Applying(s, "opening-stock") /\ MoreRows(s)
  /\ LET r == Row(s)
         k == KeyOf(r)
         v == Balance(s, k)
     IN  /\ v.locked # session[s].locked =>
              \A u \in Session \ {s} : session[u].locked \cap v.locked = {}
         /\ session' = [session EXCEPT ![s] =
              [v EXCEPT !.row = @ + 1,
                        !.local = Put(@, k, r.number),
                        !.delta = Put(@, k, OrZero(@, k) + r.number - v.local[k]),
                        !.keys = Append(@, k)]]
  /\ UNCHANGED <<tables, moved, disturbed, latest, imports>>

\* A commit to the keys K makes the other imports' files no repetition, and what
\* they have read of these keys old.
Overtake(u, K) ==
  [session[u] EXCEPT !.again = FALSE, !.overtaken = @ \cup (K \cap DOMAIN session[u].delta)]
\* The end of an import that has written the balances K.
Committed(s, K) ==
  /\ session' = [u \in Session |-> IF u = s THEN Idle ELSE Overtake(u, K)]
  /\ latest' = [file |-> session[s].file, keys |-> session[s].keys,
                spared |-> session[s].overtaken \ K]
  /\ UNCHANGED imports
Done(s, kind) == Applying(s, kind) /\ ~ MoreRows(s)

CommitProducts(s) ==
  /\ Done(s, "products")
  /\ LET new == session[s].flushed \o session[s].pending
     IN  Insertable(products, new, "sku") /\ products' = products \o new
  /\ groups' = groups \o session[s].groups
  /\ Committed(s, {})
  /\ UNCHANGED <<partners, warehouses, stock, moved, debts, disturbed>>
CommitPartners(s) ==
  /\ Done(s, "partners") /\ Insertable(partners, session[s].pending, "code")
  /\ partners' = partners \o session[s].pending
  /\ Committed(s, {})
  /\ UNCHANGED <<products, groups, warehouses, stock, moved, debts, disturbed>>
CommitWarehouses(s) ==
  /\ Done(s, "warehouses") /\ Insertable(warehouses, session[s].pending, "code")
  /\ warehouses' = warehouses \o session[s].pending
  /\ Committed(s, {})
  /\ UNCHANGED <<products, groups, partners, stock, moved, debts, disturbed>>

\* The balances of the session that the file has changed are written.
CommitStock(s) ==
  LET v == session[s]  written == Written(v) IN
  /\ Done(s, "opening-stock")
  /\ \A u \in Session \ {s} : session[u].locked \cap written = {}
  /\ stock' = Over([k \in written |-> v.local[k]], stock)
  /\ moved' = Over([k \in DOMAIN v.delta |-> OrZero(moved, k) + v.delta[k]], moved)
  /\ disturbed' = disturbed \cup (v.overtaken \cap written)
  /\ Committed(s, written)
  /\ UNCHANGED <<products, groups, partners, warehouses, debts>>

\* Opening debts: a posted document OPEN-<partner id> for each that is not 0;
\* the number is unique.
CommitDebts(s) ==
  /\ Applying(s, "opening-partner-balances")
  /\ LET file == session[s].file
         owed == {i \in DOMAIN file.rows : file.rows[i].number # 0}
         partner(i) == FindByName(partners, file.rows[i].name)
     IN  /\ \A i, j \in owed : i # j => partner(i) # partner(j)
         /\ \A i \in owed : partner(i) \notin DOMAIN debts
         /\ debts' = Over([p \in {partner(i) : i \in owed} |->
                             file.rows[CHOOSE i \in owed : partner(i) = p].number], debts)
  /\ Committed(s, {})
  /\ UNCHANGED <<products, groups, partners, warehouses, stock, moved, disturbed>>

\* A document is posted meanwhile: balance and movement together, under the lock
\* of the row.
Posting(k, d) ==
  /\ \A s \in Session : k \notin session[s].locked
  /\ OrZero(stock, k) + d \in 0 .. MaxQuantity
  /\ stock' = Put(stock, k, OrZero(stock, k) + d)
  /\ moved' = Put(moved, k, OrZero(moved, k) + d)
  /\ latest' = Nothing
  /\ session' = [u \in Session |-> Overtake(u, {k})]
  /\ UNCHANGED <<products, groups, partners, warehouses, debts, disturbed, imports>>

Import(s) ==
  \/ \E file \in File : Start(s, file)
  \/ ApplyProduct(s) \/ ApplyPartner(s) \/ ApplyWarehouse(s) \/ ApplyStock(s)
  \/ CommitProducts(s) \/ CommitPartners(s) \/ CommitWarehouses(s) \/ CommitStock(s)
  \/ CommitDebts(s) \/ Rollback(s)

Next ==
  \/ \E s \in Session : Import(s)
  \/ \E k \in Key, d \in {1, -1} : Posting(k, d)

Spec == Init /\ [][Next]_vars
-----------------------------------------------------------------------------
\* What the file just applied asks for is there; the last row of a balance counts,
\* unless the import has left the balance to others.
Applied ==
  LET rows == latest.file.rows  keys == latest.keys
  IN  \A i \in DOMAIN rows :
        LET r == rows[i]
        IN  CASE latest.file.kind = "products" -> FindProduct(products, r.sku, r.name) # 0
              [] latest.file.kind = "partners" -> FindByName(partners, r.name) # 0
              [] latest.file.kind = "warehouses" -> FindByName(warehouses, r.name) # 0
              [] latest.file.kind = "opening-stock" ->
                   /\ keys[i] \in DOMAIN stock
                   /\ products[keys[i][1]].name = r.name \/ products[keys[i][1]].sku = r.sku
                   /\ warehouses[keys[i][2]].name = r.place
                   /\ \/ \E j \in DOMAIN rows : j > i /\ keys[j] = keys[i]
                      \/ keys[i] \in latest.spared
                      \/ stock[keys[i]] = r.number
              [] latest.file.kind = "opening-partner-balances" ->
                   r.number # 0 => LET p == FindByName(partners, r.name)
                                   IN  p # 0 /\ p \in DOMAIN debts /\ debts[p] = r.number

\* An import that is reported as applied has applied every row, also when
\* documents were posted or other files imported meanwhile: except for a balance
\* that it found as the file wants it, and that others changed before its commit.
\* And a file sent again, because nobody saw the answer, changes nothing, whatever
\* kind it has, and whether the second attempt succeeds or is refused: unless it has
\* left a balance to others, or a row of it means another product now, since its sku
\* was imported while the file was applied.
ImportsAreWhole ==
  [][/\ Applied'
     /\ \A s \in Session :
          session[s].again /\ session'[s].pc = "idle" => UNCHANGED tables]_vars

\* The movements of a key add up to its balance, also when a file names it twice or
\* reads it twice, unless an import has overwritten what others committed between its
\* read and its commit.
OpeningExplained == \A k \in DOMAIN stock \ disturbed : stock[k] = moved[k]
=============================================================================
