------------------------------- MODULE Upgrade -------------------------------
(* An older database is brought to the present schema. Alembic applies the    *)
(* missing migrations one after the other in one transaction; several of them *)
(* work out rows the present program relies on from rows that were written    *)
(* without them: versions and revisions of documents, the kind of stock       *)
(* movements, allocations of payments, number sequences, warehouse tasks and  *)
(* permissions. Afterwards an administrator may be created, once.             *)
EXTENDS Integers, Functions, Folds

CONSTANTS LegacyDatabase,     \* the databases of revision 0005 to start from
          Document, Payment,  \* numbers: the order of ids
          NoDocument          \* document_id is NULL

VARIABLES db,                 \* the database
          work                \* what the migration's transaction has made of it, or db

vars == <<db, work>>
-----------------------------------------------------------------------------
Role == {"admin", "manager", "cashier", "logist", "viewer"}
\* "payments.update" stands also for payments.delete, "cash" for cash.read, cash.create
\* and cash.cancel.
Permission == {"payments.update", "payments.allocate", "cash", "logistics.read",
               "logistics.process", "logistics.review"}

\* ROLE_PERMISSIONS, of the permissions above.
RolePermissions ==
  [admin |-> Permission, manager |-> Permission,
   cashier |-> {"payments.update", "cash"},
   logist |-> {"logistics.read", "logistics.process"}, viewer |-> {}]

Row == [type : {"incoming", "outgoing", "adjustment", "transfer"},
        status : {"draft", "posted", "cancelled"},
        warehouse : BOOLEAN,          \* whether it names its warehouses
        number : Int,   \* its last part; 0: no number, -1: of another type's prefix
        total : Nat, version : Nat]

PaymentType == {"customer_payment", "supplier_payment", "refund"}

\* A database of revision 0005: no versions, nothing the migrations make.
Legacy(documents, payments, negative, roles) ==
  [revision |-> 5, documents |-> documents, payments |-> payments, negative |-> negative,
   \* posting and cancelling wrote a movement each (one product stands for all)
   movements |-> {[document |-> d, reason |-> r, version |-> 0, kind |-> "none"] :
                    d \in {e \in Document : documents[e].status # "draft"
                                            /\ documents[e].warehouse}, r \in {"post"}}
                 \cup {[document |-> d, reason |-> "cancel", version |-> 0, kind |-> "none"] :
                         d \in {e \in Document : documents[e].status = "cancelled"
                                                 /\ documents[e].warehouse}},
   sequences |-> {}, revisions |-> {}, allocations |-> {}, tasks |-> {}, roles |-> roles]

TypeOK == /\ {db.revision, work.revision} \subseteq {5, 6, 9, 10, 11, 12, 13}
          /\ db.documents \in [Document -> Row]
          /\ \A r \in DOMAIN db.roles : r \in Role /\ db.roles[r] \subseteq Permission

\* What the program of revision 0005 can have left.
IsLegacy(d) ==
  /\ d.documents \in [Document -> Row] /\ \A e \in Document : d.documents[e].version = 0
  /\ DOMAIN d.payments = Payment
  /\ \A p \in Payment : /\ d.payments[p].document \in Document \cup {NoDocument}
                        /\ d.payments[p].amount \in Nat /\ d.payments[p].type \in PaymentType
  /\ DOMAIN d.roles \subseteq Role /\ \A r \in DOMAIN d.roles : d.roles[r] \subseteq Permission
  /\ d = Legacy(d.documents, d.payments, d.negative, d.roles)

Init == db \in LegacyDatabase /\ work = db
-----------------------------------------------------------------------------
Granted(roles, grants) ==
  [r \in DOMAIN roles |-> roles[r] \cup (IF r \in DOMAIN grants THEN grants[r] ELSE {})]

\* 0006: the permissions on drafts of payments, for the roles there are.
PaymentDraftPermissions(w) ==
  [w EXCEPT !.revision = 6,
     !.roles = Granted(@, [admin |-> {"payments.update"}, cashier |-> {"payments.update"}])]

\* 0009: no negative value, no number twice, or the upgrade ends here.
Valid(w) ==
  /\ ~ w.negative
  /\ \A d, e \in Document :
       w.documents[d].number > 0 /\ w.documents[d].type = w.documents[e].type
       /\ w.documents[d].number = w.documents[e].number => d = e
\* The greatest of some numbers.
Latest(ids) == CHOOSE p \in ids : \A q \in ids : q <= p
IntegrityGuards(w) ==
  LET numbers(type) == {w.documents[d].number : d \in {e \in Document :
                          w.documents[e].type = type /\ w.documents[e].number > 0}}
      types == {t \in {"incoming", "outgoing", "adjustment", "transfer"} : numbers(t) # {}}
  IN  [w EXCEPT !.revision = 9, !.sequences = {<<t, Latest(numbers(t))>> : t \in types}]

\* 0010, as if cancelled documents had no version.
DocumentRevisionsOfPosted(w) ==
  LET posted == {d \in Document : w.documents[d].status = "posted"}
  IN  [w EXCEPT !.revision = 10,
         !.documents = [d \in Document |->
                          IF d \in posted THEN [@[d] EXCEPT !.version = 1] ELSE @[d]],
         !.movements = {[m EXCEPT !.version = 1, !.kind = "apply"] : m \in @},
         !.revisions = {<<d, 1>> : d \in posted}]
\* 0010: what was posted is version 1, also what was cancelled since; movements
\* are told apart by their reason.
DocumentRevisions(w) ==
  LET versioned == {d \in Document : w.documents[d].status \in {"posted", "cancelled"}}
      kind(m) == IF m.reason = "post" THEN "apply" ELSE "reverse"
  IN  [w EXCEPT !.revision = 10,
         !.documents = [d \in Document |->
                          IF d \in versioned THEN [@[d] EXCEPT !.version = 1] ELSE @[d]],
         !.movements = {[m EXCEPT !.version = 1, !.kind = kind(m)] : m \in @},
         !.revisions = {<<d, 1>> : d \in versioned}]

\* A payment takes what is left of its document, whatever the types of the two; what a
\* draft takes is left for the next.
Take(w, p, acc) ==
  LET d == w.payments[p].document
      amount == IF w.payments[p].amount < acc.left[d] THEN w.payments[p].amount ELSE acc.left[d]
  IN  IF amount <= 0 \/ ~ w.payments[p].samePartner THEN acc
      ELSE [made |-> acc.made \cup {[payment |-> p, document |-> d, amount |-> amount]},
            left |-> IF w.payments[p].status = "posted"
                     THEN [acc.left EXCEPT ![d] = @ - amount] ELSE acc.left]
\* 0011: one payment after the other in the order of their dates (here of their ids).
PaymentAllocations(w) ==
  LET linked == {p \in Payment : /\ w.payments[p].document # NoDocument
                                 /\ w.payments[p].status # "cancelled"}
      start == [made |-> {},
                left |-> [d \in Document |-> IF w.documents[d].status = "posted"
                                             THEN w.documents[d].total ELSE 0]]
      all == MapThenFoldSet(LAMBDA p, acc : Take(w, p, acc), start, LAMBDA p : p, Latest, linked)
  IN  [w EXCEPT !.revision = 11, !.allocations = all.made]

\* The tasks of a document: 0012 and _task_specs of the program agree.
Specs(d, row) ==
  LET task(type, status) ==
        [document |-> d, version |-> row.version, type |-> type, status |-> status]
  IN  CASE ~ row.warehouse -> {}
        [] row.warehouse /\ row.type = "incoming" -> {task("incoming_receive", "pending")}
        [] row.warehouse /\ row.type = "outgoing" -> {task("outgoing_dispatch", "pending")}
        [] row.warehouse /\ row.type = "transfer" ->
             {task("transfer_dispatch", "pending"), task("transfer_receive", "blocked")}
        [] row.warehouse /\ row.type = "adjustment" -> {}
WarehouseTasksMigration(w) ==
  LET posted == {d \in Document : /\ w.documents[d].status = "posted"
                                  /\ w.documents[d].version > 0
                                  /\ w.documents[d].type # "adjustment"}
      all == {"logistics.read", "logistics.process", "logistics.review"}
  IN  [w EXCEPT !.revision = 12,
         !.roles = Granted(@, [admin |-> all, manager |-> all,
                               logist |-> all \ {"logistics.review"}]),
         !.tasks = UNION {Specs(d, w.documents[d]) : d \in posted}]

\* 0013
ManagerCash(w) == [w EXCEPT !.revision = 13, !.roles = Granted(@, [manager |-> {"cash"}])]
-----------------------------------------------------------------------------
Migrate(from, migrated) ==
  /\ work.revision = from /\ work' = migrated /\ UNCHANGED db

\* alembic upgrade commits when the migrations it was asked for are done.
CommitUpgrade == work # db /\ db' = work /\ UNCHANGED work
\* An invalid row, a lost connection: the transaction takes everything back.
AbortUpgrade == work # db /\ work' = db /\ UNCHANGED db

\* bootstrap_admin (and the demo seed): missing roles are created, and every role
\* has the permissions of the program, no others. It refuses once it was done.
BootstrapAdmin ==
  /\ work = db /\ db.revision = 13 /\ db.roles # RolePermissions
  /\ db' = [db EXCEPT !.roles = RolePermissions] /\ work' = db'

Next ==
  \/ Migrate(5, PaymentDraftPermissions(work))
  \/ Valid(work) /\ Migrate(6, IntegrityGuards(work))
  \/ Migrate(9, DocumentRevisions(work))
  \/ Migrate(10, PaymentAllocations(work))
  \/ Migrate(11, WarehouseTasksMigration(work))
  \/ Migrate(12, ManagerCash(work))
  \/ CommitUpgrade \/ AbortUpgrade \/ BootstrapAdmin

Spec == Init /\ [][Next]_vars
-----------------------------------------------------------------------------
Active(d) == {m \in db.movements : /\ m.document = d /\ m.kind = "apply"
                                   /\ m.version = db.documents[d].version}
Settled(d) ==
  LET paid == {a \in db.allocations : a.document = d /\ db.payments[a.payment].status = "posted"}
  IN  SumFunctionOnSet([a \in paid |-> a.amount], paid)

\* What the program refuses to allocate: refunds, and payments of a customer or to a
\* supplier for a document of another type.
Refused(payment, row) == \/ payment.type = "refund"
                         \/ payment.type = "customer_payment" /\ row.type # "outgoing"
                         \/ payment.type = "supplier_payment" /\ row.type # "incoming"
\* The document an old payment was linked to.
Link(p) == db.payments[p].document
\* A payment the migration has to carry over.
Due(p) == /\ db.payments[p].status = "posted" /\ db.payments[p].samePartner
          /\ db.payments[p].amount > 0
          /\ Link(p) # NoDocument /\ db.documents[Link(p)].status = "posted"

\* What 0006, 0012 and 0013 grant to a role.
MigrationGrants ==
  [admin |-> {"payments.update", "logistics.read", "logistics.process", "logistics.review"},
   manager |-> {"logistics.read", "logistics.process", "logistics.review", "cash"},
   cashier |-> {"payments.update"},
   logist |-> {"logistics.read", "logistics.process"}, viewer |-> {}]

\* What the other modules take for granted holds of an upgraded database: a posted
\* document has one version with its movements and its revision, a cancelled one
\* nothing left to take back; documents are settled by payments of their partner
\* linked to them, up to their total, and no posted payment is left out while its
\* document is not settled; the sequences are ahead of every number; the tasks are
\* those posting would have generated; no role has less than the migrations grant it.
\* The types of payments and documents are not looked at: only where every old link is
\* one the program allows, every allocation is.
UpgradeIsComplete ==
  db.revision = 13 =>
    /\ \A d \in Document :
         LET row == db.documents[d] IN
         /\ {v \in 1 .. 2 : <<d, v>> \in db.revisions} = 1 .. row.version
         /\ row.status = "draft" <=> row.version = 0
         /\ row.status = "posted" => Active(d) = {m \in db.movements : m.document = d}
         /\ row.status = "cancelled" =>
              \A m \in Active(d) : [m EXCEPT !.kind = "reverse", !.reason = "cancel"] \in db.movements
         /\ Settled(d) <= (IF row.status = "posted" THEN row.total ELSE 0)
         /\ row.number > 0 => \E s \in db.sequences : s[1] = row.type /\ s[2] >= row.number
         /\ {t \in db.tasks : t.document = d} = IF row.status = "posted" THEN Specs(d, row) ELSE {}
    /\ \A a \in db.allocations :
         /\ a.amount \in 1 .. db.payments[a.payment].amount /\ db.payments[a.payment].samePartner
         /\ a.document = Link(a.payment) /\ db.documents[a.document].status = "posted"
    /\ \A p \in Payment : Due(p) =>
         \/ [payment |-> p, document |-> Link(p), amount |-> db.payments[p].amount]
              \in db.allocations
         \/ Settled(Link(p)) = db.documents[Link(p)].total
    /\ (\A p \in Payment : Link(p) # NoDocument => ~ Refused(db.payments[p], db.documents[Link(p)]))
         => \A a \in db.allocations : ~ Refused(db.payments[a.payment], db.documents[a.document])
    /\ \A r \in DOMAIN db.roles : MigrationGrants[r] \subseteq db.roles[r]
=============================================================================
