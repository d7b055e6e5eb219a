------------------------------ MODULE Directory ------------------------------
(* The directories: product groups, which form a tree, and the cards of       *)
(* products, warehouses and partners, to which rows of all tables refer.      *)
(* Requests check with plain reads and write later, in one flush: deleting a  *)
(* card clears the references the ORM may clear, the foreign keys of the      *)
(* database refuse the others.                                                *)
EXTENDS Integers

CONSTANTS Session, Group, Name,
          Product, Warehouse, Partner,   \* the cards of each kind
          Row,                 \* rows of other tables
          None,                \* no parent, no card; NULL
          MaxRequests          \* bound: requests that change a group or delete

VARIABLES group,               \* product_groups: name and parent
          card,                \* "new", "there" or "deleted"; an id is not used twice
          row,                 \* what a row refers to, through which column
          session,
          overlapped,          \* history: two requests overlapped that concern one check
          requests

vars == <<group, card, row, session, overlapped, requests>>
-----------------------------------------------------------------------------
Card == Product \cup Warehouse \cup Partner

\* The columns that refer to the cards of a kind.
ReferencesTo(c) ==
  IF c \in Product THEN {"line.product", "stock.product", "price.product"}
  ELSE IF c \in Warehouse THEN {"document.warehouse", "document.destination_warehouse",
                                "stock.warehouse", "user.warehouse"}
  ELSE IF c \in Partner THEN {"document.partner", "payment.partner", "cash.partner"}
  ELSE {"product.group"}
\* Deletion asks only for these.
Asked == {"line.product", "stock.product", "document.warehouse", "stock.warehouse",
          "document.partner", "payment.partner", "product.group"}
\* The other side of a relationship whose column may be NULL, or an association
\* table: the ORM clears these itself.
Cleared == {"document.partner", "product.group", "user.warehouse"}
Reference == UNION {ReferencesTo(c) : c \in Card \cup {None}}

NoGroup == [exists |-> FALSE, name |-> None, parent |-> None]
NoRow == [ref |-> None, to |-> None]
Idle == [op |-> "idle"]

There(x) == IF x \in Group THEN group[x].exists ELSE card[x] = "there"

TypeOK ==
  /\ group \in [Group -> [exists : BOOLEAN, name : Name \cup {None}, parent : Group \cup {None}]]
  /\ card \in [Card -> {"new", "there", "deleted"}]
  /\ row \in [Row -> [ref : Reference \cup {None}, to : Card \cup Group \cup {None}]]
  \* the foreign keys
  /\ \A g \in Group : group[g].parent # None => group[group[g].parent].exists
  /\ \A r \in Row : row[r].to # None => There(row[r].to)

Init ==
  /\ group = [g \in Group |-> NoGroup]
  /\ card = [c \in Card |-> "new"]
  /\ row = [r \in Row |-> NoRow]
  /\ session = [s \in Session |-> Idle]
  /\ overlapped = FALSE /\ requests = 0
-----------------------------------------------------------------------------
\* The groups from g up to the root: what every set that has g, and with a group
\* its parent, has.
Above(g) ==
  {h \in Group : \A S \in SUBSET Group :
     (g # None => g \in S) /\ (\A x \in S : group[x].parent \in S \cup {None}) => h \in S}
InCycle(g) == g \in Above(group[g].parent)

\* Only the parent itself is looked at.
ParentIsOther(p, g) == p # None => (group[p].exists /\ p # g)
\* _ensure_parent_exists: the new parent is there, and the walk from it comes to
\* a root, without meeting g.
ParentFits(p, g) ==
  p # None => group[p].exists /\ g \notin Above(p) /\ \A h \in Above(p) : ~ InCycle(h)

NameIsFree(n, g) == \A h \in Group \ {g} : group[h].exists => group[h].name # n

\* A request has checked and is about to flush. Two that are under way at the
\* same time do not see each other.
Check(s, request) ==
  /\ session[s] = Idle /\ requests < MaxRequests
  /\ session' = [session EXCEPT ![s] = request]
  /\ requests' = requests + 1
  /\ overlapped' = (overlapped \/ \E u \in Session : session[u] # Idle)
  /\ UNCHANGED <<group, card, row>>

CreateGroup(s, g, n, p) ==
  /\ ~ group[g].exists /\ \A u \in Session : session[u] # Idle => session[u].id # g
  /\ NameIsFree(n, g) /\ ParentFits(p, g)
  /\ Check(s, [op |-> "create", id |-> g, seen |-> NoGroup,
               next |-> [exists |-> TRUE, name |-> n, parent |-> p]])
UpdateGroup(s, g, n, p) ==
  /\ group[g].exists /\ NameIsFree(n, g) /\ ParentFits(p, g)
  /\ Check(s, [op |-> "update", id |-> g, seen |-> group[g],
               next |-> [exists |-> TRUE, name |-> n, parent |-> p]])

\* The child groups of x, and the rows that refer to it through one of columns.
HasNoChild(x) == \A h \in Group : group[h].parent # x
HasNoRow(x, columns) == \A r \in Row : row[r].to = x => row[r].ref \notin columns

\* The check of a deletion.
Unused(x) == HasNoChild(x) /\ HasNoRow(x, Asked)

\* delete_product_group, delete_product, delete_warehouse, delete_partner.
Delete(s, x) ==
  /\ There(x) /\ Unused(x)
  /\ Check(s, [op |-> "delete", id |-> x])

Done(s) == session' = [session EXCEPT ![s] = Idle] /\ UNCHANGED <<overlapped, requests>>

\* INSERT, or UPDATE of the columns that differ from what was read.
FlushGroup(s) ==
  LET v == session[s]
      parent == IF v.next.parent = v.seen.parent THEN group[v.id].parent ELSE v.next.parent
      name == IF v.next.name = v.seen.name THEN group[v.id].name ELSE v.next.name
  IN  /\ v.op \in {"create", "update"}
      /\ group[v.id].exists = (v.op = "update")
      /\ parent # None => group[parent].exists
      /\ group' = [group EXCEPT ![v.id] = [exists |-> TRUE, name |-> name, parent |-> parent]]
      /\ Done(s) /\ UNCHANGED <<card, row>>

\* The rows whose column the ORM clears lose x, also those that came after the
\* check; any other row, and a child group, refuses.
FlushDelete(s) ==
  LET x == session[s].id
  IN  /\ session[s].op = "delete" /\ There(x)
      /\ HasNoChild(x) /\ HasNoRow(x, Reference \ Cleared)
      /\ group' = [g \in Group |-> IF g = x THEN NoGroup ELSE group[g]]
      /\ card' = [c \in Card |-> IF c = x THEN "deleted" ELSE card[c]]
      /\ row' = [r \in Row |-> IF row[r].to = x THEN [row[r] EXCEPT !.to = None] ELSE row[r]]
      /\ Done(s)

\* Refused by the database (a row is gone, a foreign key), or a lost connection.
Rollback(s) == session[s] # Idle /\ Done(s) /\ UNCHANGED <<group, card, row>>

CreateCard(c) ==
  /\ card[c] = "new" /\ card' = [card EXCEPT ![c] = "there"]
  /\ UNCHANGED <<group, row, session, overlapped, requests>>

\* A row is inserted, or its column changed: a product its group, a document its
\* partner; also between the check and the flush of a deletion.
SaveRow(r, ref, x) ==
  /\ row[r].ref \in {None, ref} /\ ref \in ReferencesTo(x) /\ There(x)
  /\ row' = [row EXCEPT ![r] = [ref |-> ref, to |-> x]]
  /\ overlapped' = (overlapped \/ \E s \in Session : session[s] # Idle /\ session[s].id = x)
  /\ UNCHANGED <<group, card, session, requests>>
DeleteRow(r) ==
  /\ row[r] # NoRow /\ row' = [row EXCEPT ![r] = NoRow]
  /\ UNCHANGED <<group, card, session, overlapped, requests>>

Next ==
  \/ \E s \in Session :
       \/ \E g \in Group, n \in Name, p \in Group \cup {None} :
            CreateGroup(s, g, n, p) \/ UpdateGroup(s, g, n, p)
       \/ \E x \in Group \cup Card : Delete(s, x)
       \/ FlushGroup(s) \/ FlushDelete(s) \/ Rollback(s)
  \/ \E c \in Card : CreateCard(c)
  \/ \E r \in Row, ref \in Reference, x \in Group \cup Card : SaveRow(r, ref, x)
  \/ \E r \in Row : DeleteRow(r)

Spec == Init /\ [][Next]_vars
-----------------------------------------------------------------------------
\* Unless two requests overlapped, whatever is created, renamed, moved and
\* deleted: the groups are a forest, no two have one name, and a deletion takes
\* no row's product, warehouse, partner or group away, but a warehouse from the
\* users it was assigned to.
SerialDirectory ==
  [][\/ overlapped
     \/ /\ \A g \in Group : ~ InCycle(g)'
        /\ \A g, h \in Group :
             group'[g].exists /\ group'[h].exists /\ group'[g].name = group'[h].name => g = h
        /\ \A x \in Group \cup Card, r \in Row :
             There(x) /\ ~ There(x)' /\ row'[r] # row[r] => row[r].ref = "user.warehouse"]_vars
=============================================================================
