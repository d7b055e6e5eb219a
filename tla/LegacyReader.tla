----------------------------- MODULE LegacyReader -----------------------------
(* The reader of the legacy InterBase file and the browser over it. The file  *)
(* is scanned page by page; its system tables tell where the columns of a row *)
(* are; a table is shown in pages of rows, from the first to the last. Rows   *)
(* are compressed, may continue on another page, and lie between slots that   *)
(* are free, old versions, or pieces of other rows.                           *)
EXTENDS Integers, Sequences, SequencesExt, FiniteSets, FiniteSetsExt

CONSTANTS LegacyFile,      \* files to read: [pages, rows, torn], rows as they were stored,
                           \* and which of them are stored in more than two pieces
          MaxRecords,      \* record numbers of a data page
          ScanLimit,       \* rows() looks at so many records at most
          Limit            \* rows of a page of the browser

VARIABLES file,
          next,            \* the page to scan
          index,           \* the data pages found: relation, sequence, number
          schema,          \* the columns of the tables, once they are known
          view             \* what a visitor has seen of a table

vars == <<file, next, index, schema, view>>
-----------------------------------------------------------------------------
\* System relations; their columns as far as the reader looks at them.
Fields == 2             \* name
RelationFields == 5     \* name, relation's name, name in Fields, position
Relations == 6          \* name, id, format
Formats == 8            \* relation's id, format, descriptor
System == {Fields, RelationFields, Relations, Formats}

\* The flags of records that are no rows.
SkipRecord == {"deleted", "chain", "fragment", "blob", "damaged"}

\* A run stands for its cells as they are (n > 0) or for one cell repeated.
Run(run) == IF run.n > 0 THEN run.cells ELSE [i \in 1 .. - run.n |-> run.cells[1]]
\* Runs up to the first of length 0.
Decompress(runs) ==
  LET ends == {k \in DOMAIN runs : runs[k].n = 0}
      used == IF ends = {} THEN runs ELSE SubSeq(runs, 1, Min(ends) - 1)
  IN  FlattenSeq([k \in DOMAIN used |-> Run(used[k])])

\* The cells of a continuation. That it continues itself is not looked at: where its
\* own continuation is, is taken for cells.
Continuation(slot) ==
  IF "incomplete" \in slot.flags THEN <<slot.page, slot.line>> \o Decompress(slot.runs)
  ELSE Decompress(slot.runs)
\* The continuation of a row, its line counted over the slots in use.
FragmentOfUsed(pages, number, line) ==
  IF number \notin DOMAIN pages \/ pages[number].type # "data" THEN <<>>
  ELSE LET slots == SelectSeq(pages[number].slots, LAMBDA s : s.used)
       IN  IF line \in DOMAIN slots /\ "fragment" \in slots[line].flags
           THEN Continuation(slots[line]) ELSE <<>>
\* The continuation of a row: the line counts the free slots too. What is not a
\* fragment is not read.
Fragment(pages, number, line) ==
  IF number \notin DOMAIN pages \/ pages[number].type # "data" THEN <<>>
  ELSE LET slots == pages[number].slots
       IN  IF line \in DOMAIN slots /\ slots[line].used /\ "fragment" \in slots[line].flags
           THEN Continuation(slots[line]) ELSE <<>>

\* The cells of a record that is shown as a row; nothing otherwise. Of a record that
\* continues no other flag is looked at: also an old version is shown, or a piece.
RowCells(pages, slot) ==
  IF ~ slot.used THEN <<>>
  ELSE IF "incomplete" \in slot.flags
       THEN Decompress(slot.runs) \o Fragment(pages, slot.page, slot.line)
  ELSE IF slot.flags = {} THEN Decompress(slot.runs) ELSE <<>>
LiveRecords(pages, number) ==
  LET slots == pages[number].slots
  IN  SelectSeq([k \in DOMAIN slots |-> RowCells(pages, slots[k])], LAMBDA r : r # <<>>)
CountLive(pages, number) ==
  LET slots == pages[number].slots
  IN  Cardinality({k \in DOMAIN slots : slots[k].used /\ slots[k].flags \cap SkipRecord = {}})

\* The records of pages, one page after the other.
Records(pages, numbers) ==
  FlattenSeq([k \in DOMAIN numbers |-> LiveRecords(pages, numbers[k])])

\* A column: where it is (after the bitmap of NULLs, a number, the first cell), whether
\* its cell is the number of a blob; a column no format describes reads as NULL.
Column == [at : Nat, blob : BOOLEAN]
Unknown == [at |-> 0, blob |-> FALSE]
Decode(record, columns) ==
  [c \in DOMAIN columns |->
     IF columns[c].at \in DOMAIN record \ {1} /\ (record[1] \div (2 ^ (c - 1))) % 2 = 0
     THEN <<record[columns[c].at]>> ELSE <<>>]

\* A blob by its record number: the page of the sequence, the slot, and there the
\* content itself or the pages that hold it.
BlobPages(pages, number) ==
  IF number \in DOMAIN pages /\ pages[number].type = "blob" THEN pages[number].body ELSE <<>>
BlobContent(pages, slot) ==
  IF slot.pages = <<>> THEN slot.body
  ELSE FlattenSeq([k \in DOMAIN slot.pages |-> BlobPages(pages, slot.pages[k])])
ReadBlob(pages, found, relation, row) ==
  LET numbers == {p \in found : p.relation = relation /\ p.sequence = row \div MaxRecords}
      line == (row % MaxRecords) + 1
      \* the page of the relation that has the record
      page == CHOOSE p \in numbers : TRUE
      slots == pages[page.number].slots
  IN  IF numbers = {} \/ line \notin DOMAIN slots \/ "blob" \notin slots[line].flags
      THEN <<>> ELSE BlobContent(pages, slots[line])

\* _present: a cell as it is shown.
Present(pages, found, relation, columns, cells) ==
  [c \in DOMAIN cells |->
     IF columns[c].blob /\ cells[c] \notin {<<>>, <<0>>}
     THEN ReadBlob(pages, found, relation, cells[c][1]) ELSE cells[c]]
-----------------------------------------------------------------------------
\* Page numbers of a relation: in the order of the file, and in that of the table.
InFile(found, relation) ==
  SetToSortSeq({p.number : p \in {q \in found : q.relation = relation}}, <)
InTable(found, relation) ==
  LET pages == SetToSortSeq({q \in found : q.relation = relation},
                            LAMBDA p, q : p.sequence < q.sequence)
  IN  [k \in DOMAIN pages |-> pages[k].number]

\* The rows of a system table, as the scan has read them.
SystemRows(pages, found, relation) ==
  LET records == Records(pages, InFile(found, relation))
  IN  [k \in DOMAIN records |-> Tail(records[k])]

\* _build_schema: columns whose relation and whose definition are there, as the
\* format of their relation describes them; of several formats the last counts,
\* where the relation names none.
Schema(pages, found) ==
  LET rows(relation) == SystemRows(pages, found, relation)
      columns(r) == {c \in ToSet(rows(RelationFields)) :
                       c[2] = r[1] /\ \E f \in ToSet(rows(Fields)) : f[1] = c[3]}
      formats(r) == SelectSeq(rows(Formats), LAMBDA f : f[1] = r[2] /\ r[3] \in {0, f[2]})
      descriptors(f) == ReadBlob(pages, found, Formats, f[3])
      column(r, c) ==
        FoldLeft(LAMBDA known, f : IF c \in DOMAIN descriptors(f) THEN descriptors(f)[c] ELSE known,
                 Unknown, formats(r))
      width(r) == Max({0} \cup {c[4] : c \in columns(r)})
  IN  [id \in {r[2] : r \in ToSet(rows(Relations))} |->
         LET r == CHOOSE r \in ToSet(rows(Relations)) : r[2] = id
         IN  [c \in 1 .. width(r) |-> column(r, c)]]
-----------------------------------------------------------------------------
Unread == <<>>
NoView == [relation |-> 0, offset |-> 0, shown |-> <<>>, more |-> FALSE]

TypeOK ==
  /\ next \in 1 .. Len(file.pages) + 1
  /\ index \subseteq [relation : Nat, sequence : Nat, number : 1 .. Len(file.pages)]
  /\ \A r \in DOMAIN schema : schema[r] \in Seq(Column)
  /\ view.offset \in Nat /\ view.more \in BOOLEAN

Init ==
  /\ file \in LegacyFile
  /\ next = 1 /\ index = {} /\ schema = Unread /\ view = NoView

\* The pages in the order of the file; a page outside the chain is passed over.
ScanPage ==
  /\ next \in DOMAIN file.pages
  /\ LET p == file.pages[next]
     IN  index' = IF p.type # "data" \/ p.orphan THEN index
                  ELSE index \cup {[relation |-> p.relation, sequence |-> p.sequence,
                                    number |-> next]}
  /\ next' = next + 1
  /\ UNCHANGED <<file, schema, view>>

BuildSchema ==
  /\ next \notin DOMAIN file.pages /\ schema = Unread
  /\ schema' = Schema(file.pages, index)
  /\ UNCHANGED <<file, next, index, view>>

\* rows(): one record after the other, until a page of rows and one more are
\* found; the number of records looked at is limited.
Visit(offset, acc, row) ==
  LET scanned == acc.scanned + 1
      found == Append(acc.found, row)
  IN  IF acc.done THEN acc
      ELSE IF acc.skipped < offset THEN [acc EXCEPT !.scanned = scanned, !.skipped = @ + 1]
      ELSE IF Len(found) > Limit THEN [acc EXCEPT !.done = TRUE, !.more = TRUE]
      ELSE [acc EXCEPT !.scanned = scanned, !.found = found,
                       !.done = scanned >= ScanLimit, !.more = scanned >= ScanLimit]
Rows(relation, offset) ==
  LET columns == schema[relation]
      records == Records(file.pages, InTable(index, relation))
      rows == [k \in DOMAIN records |->
                 Present(file.pages, index, relation, columns, Decode(records[k], columns))]
      start == [skipped |-> 0, found |-> <<>>, scanned |-> 0, done |-> FALSE, more |-> FALSE]
  IN  FoldLeft(LAMBDA acc, row : Visit(offset, acc, row), start, rows)

\* A user table is opened, or the link to its next rows is followed.
TableView(relation, offset, before) ==
  LET page == Rows(relation, offset)
  IN  view' = [relation |-> relation, offset |-> offset, shown |-> before \o page.found,
               more |-> page.more]
Open == /\ schema # Unread
        /\ \E relation \in DOMAIN schema \ System : TableView(relation, 0, <<>>)
        /\ UNCHANGED <<file, next, index, schema>>
Forward == /\ view.more
           /\ TableView(view.relation, view.offset + Limit, view.shown)
           /\ UNCHANGED <<file, next, index, schema>>

Next == ScanPage \/ BuildSchema \/ Open \/ Forward

Spec == Init /\ [][Next]_vars
-----------------------------------------------------------------------------
RowCount(relation) ==
  MapThenSumSet(LAMBDA p : CountLive(file.pages, p.number),
                {p \in index : p.relation = relation})

\* What the browser shows beside the rows: old versions of rows that continue, and
\* the pieces in the middle of a row.
Strays(relation) ==
  MapThenSumSet(LAMBDA p : Cardinality({k \in DOMAIN file.pages[p.number].slots :
                  LET slot == file.pages[p.number].slots[k]
                  IN  /\ slot.used /\ "incomplete" \in slot.flags
                      /\ slot.flags \cap SkipRecord # {}}),
                {p \in index : p.relation = relation})

\* Whoever follows the links of a table to its end has seen every row of it once, in
\* the order of the table and as it was stored, wherever its pieces, its blobs and the
\* old versions of other rows lie, and nothing else, save one line for each old version
\* of a row in pieces and for each middle piece; only a row in more than two pieces is
\* not shown as it was stored. The count beside the name of the table is the number of
\* its rows in any case.
EveryRowOnce ==
  LET rows == file.rows
      shown == view.shown
      strays == Strays(view.relation)
  IN  view.relation # 0 /\ Len(rows) + strays < ScanLimit =>
        /\ strays = 0 => IsPrefix(shown, rows)
        /\ ~ view.more =>
             /\ RowCount(view.relation) = Len(rows)
             /\ Len(shown) = Len(rows) + strays
             /\ \E lines \in kSubset(Len(rows), DOMAIN shown) :
                  \A i \in DOMAIN rows \ file.torn : shown[SetToSortSeq(lines, <)[i]] = rows[i]
=============================================================================
