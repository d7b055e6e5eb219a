------------------------------ MODULE BackOffice ------------------------------
(* Users, and what feeds the tables and reads them: imports, directories,     *)
(* reports, the upgrade of an old database, the reader of the legacy file.    *)
(* They share no variable: each behaviour follows one part, the others stay   *)
(* as they are at the start, so that one run reaches what a run of each would *)
(* reach.  Accounts is extended, the others are instances.                    *)
EXTENDS Accounts, Sequences

CONSTANTS None,                             \* an empty cell, no parent, no card
          ImportFile, NaN, MaxRows, MaxImports, MaxQuantity,
          Group, Name, Product, Store, Partner, MaxChanges,
          Referrer,                         \* a row that may refer to a card
          Day, Amount, MaxPapers, NoDocument,
          OldDocument, OldPayment, OldDatabase,
          OldFile, MaxRecords, ScanLimit, Limit

VARIABLES part,
          products, groups, partners, warehouses, stock, moved, debts, import, disturbed,
          latest, imports,
          group, card, row, change, crossed, changes,
          documents, payments, visit,
          db, work,
          file, next, index, schema, view

importVars == <<products, groups, partners, warehouses, stock, moved, debts, import, disturbed,
                latest, imports>>
directoryVars == <<group, card, row, change, crossed, changes>>
reportVars == <<documents, payments, visit>>
upgradeVars == <<db, work>>
legacyVars == <<file, next, index, schema, view>>
-----------------------------------------------------------------------------
Imports == INSTANCE BulkImport WITH File <- ImportFile, session <- import

Cards == INSTANCE Directory WITH
  Warehouse <- Store, Row <- Referrer, MaxRequests <- MaxChanges,
  session <- change, overlapped <- crossed, requests <- changes

Figures == INSTANCE Reports WITH MaxRows <- MaxPapers

Migrations == INSTANCE Upgrade WITH
  Document <- OldDocument, Payment <- OldPayment, LegacyDatabase <- OldDatabase

Reader == INSTANCE LegacyReader WITH LegacyFile <- OldFile
-----------------------------------------------------------------------------
\* A parsed file: the kind it was sent as, and cells that are text, a number or
\* empty.
ImportKind ==
  {"products", "partners", "warehouses", "opening-stock", "opening-partner-balances"}
ASSUME Files ==
  \A f \in ImportFile :
    /\ f.kind \in ImportKind /\ f.rows \in Seq({f.rows[i] : i \in DOMAIN f.rows})
    /\ \A i \in DOMAIN f.rows : f.rows[i].number \in Int \cup {None, NaN}
ASSUME ImportBounds == MaxRows \in Nat /\ MaxImports \in Nat /\ MaxQuantity \in Nat

\* Ids of one table are none of another's.
ASSUME Ids == /\ Group \cap (Product \cup Store \cup Partner) = {}
              /\ None \notin Group \cup Product \cup Store \cup Partner
              /\ MaxChanges \in Nat

\* Days and amounts are numbers, the amounts of money positive; ids start at 1.
ASSUME Money == Day \subseteq Int /\ Amount \subseteq Nat \ {0} /\ NoDocument \notin Nat \ {0}
                /\ MaxPapers \in Nat

ASSUME OldRows ==
  /\ OldDocument \subseteq Nat \ {0} /\ OldPayment \subseteq Nat /\ NoDocument \notin OldDocument
  /\ IsFiniteSet(OldDocument) /\ IsFiniteSet(OldPayment)
  /\ \A d \in OldDatabase : Migrations!IsLegacy(d)
-----------------------------------------------------------------------------
Part == {"users", "imports", "cards", "figures", "migrations", "reader"}

\* What a part that is not followed starts with makes no difference.
AllInit ==
  /\ part \in Part
  /\ Init /\ Imports!Init /\ Cards!Init /\ Figures!Init
  /\ IF part = "migrations" THEN Migrations!Init ELSE db = <<>> /\ work = <<>>
  /\ IF part = "reader" THEN Reader!Init
     ELSE file = <<>> /\ next = 1 /\ index = {} /\ schema = Reader!Unread /\ view = Reader!NoView

allVars == <<part, vars, importVars, directoryVars, reportVars, upgradeVars, legacyVars>>

AllNext ==
  \/ /\ part = "users" /\ Next
     /\ UNCHANGED <<part, importVars, directoryVars, reportVars, upgradeVars, legacyVars>>
  \/ /\ part = "imports" /\ Imports!Next
     /\ UNCHANGED <<part, vars, directoryVars, reportVars, upgradeVars, legacyVars>>
  \/ /\ part = "cards" /\ Cards!Next
     /\ UNCHANGED <<part, vars, importVars, reportVars, upgradeVars, legacyVars>>
  \/ /\ part = "figures" /\ Figures!Next
     /\ UNCHANGED <<part, vars, importVars, directoryVars, upgradeVars, legacyVars>>
  \/ /\ part = "migrations" /\ Migrations!Next
     /\ UNCHANGED <<part, vars, importVars, directoryVars, reportVars, legacyVars>>
  \/ /\ part = "reader" /\ Reader!Next
     /\ UNCHANGED <<part, vars, importVars, directoryVars, reportVars, upgradeVars>>

AllSpec == AllInit /\ [][AllNext]_allVars

-----------------------------------------------------------------------------
\* Every part keeps its types.
PartTypes ==
  /\ TypeOK /\ Imports!TypeOK /\ Cards!TypeOK /\ Figures!TypeOK
  /\ part = "migrations" => Migrations!TypeOK
  /\ part = "reader" => Reader!TypeOK

\* The properties of the instances, as their modules state them.
OpeningExplained == Imports!OpeningExplained
ImportsAreWhole == Imports!ImportsAreWhole
SerialDirectory == Cards!SerialDirectory
ReportsAgree == Figures!ReportsAgree
UpgradeIsComplete == part = "migrations" => Migrations!UpgradeIsComplete
EveryRowOnce == Reader!EveryRowOnce
=============================================================================
