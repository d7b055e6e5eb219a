-------------------------- MODULE DraftEditingProofs --------------------------
(* Editing a draft for any handlers, prices, rates, requests and bound of     *)
(* lines: what is held while a line is inserted or the document is posted     *)
(* keeps lines from outliving or missing their document, and as long as no    *)
(* commit rests on rows that had changed, total, amounts and movements agree. *)
EXTENDS DraftEditing, SumLemmas, TLAPS

\* An inserted line shares the key of its document, which therefore exists.
KeyShared(t) == Inserted(t) => status # "deleted"

\* Posting holds the document: it is a draft, no line is being inserted, and once
\* posting has read the lines none has come.
PostingHolds(t) ==
    Doing(t, {"post"}) =>
        /\ rowLock = t /\ status = "draft"
        /\ \A other \in Txn \ {t} : ~Inserted(other)
        /\ At(t, "change") => Present(lines) \subseteq Present(session[t].lines)

\* The fields of a request for a new line, and of one to change a line.
Addition(q)   == /\ q.line \in LineId /\ q.quantity \in Quantity
                 /\ q.price \in Price /\ q.foreign \in Price \cup {Null}
Correction(q) == /\ q.line \in LineId /\ q.quantity \in Quantity \cup {Unset}
                 /\ q.price \in Price \cup {Unset} /\ q.foreign \in Price \cup {Null, Unset}

\* What SerialEditsAreSound says of one line at the rate r.
Sound(line, r) == /\ line.amount = line.quantity * line.price
                  /\ line.foreign # Null => line.price = line.foreign * r

\* The inductive invariant.
DraftInv ==
    /\ TypeOK /\ SerialEditsAreSound /\ NoOrphanLines
    /\ \A t \in Txn : KeyShared(t) /\ PostingHolds(t)
-----------------------------------------------------------------------------
\* The contents of a document.
LEMMA PresentRows ==
  ASSUME NEW c \in Contents
  PROVE  /\ \A l \in Present(c) : l \in LineId /\ c[l] \in LineRow
         /\ \A l \in LineId : l \notin Present(c) => c[l] = NoLine
         /\ \A l \in LineId : c[l] \in LineRow => l \in Present(c)
<1>1. NoLine \notin LineRow
  BY Amounts DEF NoLine, LineRow
<1>2. QED
  BY <1>1 DEF Present, Contents

LEMMA SumOfLines ==
  ASSUME NEW c \in Contents PROVE Sum(c) \in Nat
<1> DEFINE f == [l \in LineId |-> c[l].amount]
<1>1. IsFiniteSet(Present(c))
  <2>1. IsFiniteSet(LineId)
    BY LineBound, FS_Interval DEF LineId
  <2>2. QED
    BY <2>1, FS_Subset DEF Present
<1>2. \A l \in Present(c) : f[l] \in Nat
  BY PresentRows DEF LineRow
<1> HIDE DEF f
<1>3. SumFunctionOnSet(f, Present(c)) \in Nat
  BY <1>1, <1>2, SumNat
<1>4. QED
  BY <1>3 DEF Sum, f

LEMMA SumOfNone ==
  ASSUME NEW c, \A l \in LineId : c[l] = NoLine
  PROVE  Sum(c) = 0 /\ Present(c) = {}
<1>1. Present(c) = {}
  BY DEF Present
<1>2. QED
  BY <1>1, SumEmpty DEF Sum
\* An open session is of the type of sessions, and what it asks for of that of requests.
LEMMA Opened ==
  ASSUME TypeOK, NEW t \in Txn, ~At(t, "closed")
  PROVE  /\ session[t] \in Session /\ session[t].request \in RequestType
         /\ session[t].lines \in Contents /\ session[t].rate \in Rate /\ session[t].total \in Nat
         /\ Line(t) \in LineId
         /\ session[t].request.op = "add" => Addition(session[t].request)
         /\ session[t].request.op = "update" => Correction(session[t].request)
         /\ NewRate(t) \in Rate
<1>1. session[t] \in Session
  BY DEF TypeOK, At, Closed
<1>2. session[t].request \in RequestType
  BY <1>1 DEF Session
<1>3. \A q \in RequestType : /\ q.line \in LineId
                             /\ q.op = "add" => Addition(q)
                             /\ q.op = "update" => Correction(q)
                             /\ q.op = "header" => q.rate \in Rate \cup {Unset}
  <2> SUFFICES ASSUME NEW q \in RequestType
               PROVE  /\ q.line \in LineId
                      /\ q.op = "add" => Addition(q)
                      /\ q.op = "update" => Correction(q)
                      /\ q.op = "header" => q.rate \in Rate \cup {Unset}
    OBVIOUS
  <2>1. 1 \in LineId
    BY LineBound DEF LineId
  <2>2. CASE q.op = "add"
    BY <2>2 DEF RequestType, Addition
  <2>3. CASE q.op = "update"
    BY <2>3 DEF RequestType, Correction
  <2>4. CASE q.op \notin {"add", "update"}
    BY <2>1, <2>4 DEF RequestType
  <2>5. QED
    BY <2>2, <2>3, <2>4 DEF Addition, Correction
<1>4. session[t].rate \in Rate
  BY <1>1 DEF Session
<1>5. NewRate(t) \in Rate
  BY <1>2, <1>3, <1>4 DEF NewRate, Doing, Given
<1>6. QED
  BY <1>1, <1>2, <1>3, <1>5 DEF Session, Line

\* What a step of t has to show for the invariant to hold after it.
LEMMA Kept ==
  ASSUME DraftInv, NEW t \in Txn, TypeOK', SerialEditsAreSound', NoOrphanLines',
         \A u \in Txn \ {t} : session'[u] = session[u],
         KeyShared(t)', PostingHolds(t)',
         \A u \in Txn \ {t} : Doing(u, {"post"}) =>
            /\ rowLock' = u /\ status' = status /\ ~Inserted(t)'
            /\ Present(lines') \subseteq Present(lines),
         status' = "deleted" => status = "deleted" \/ \A u \in Txn \ {t} : ~Inserted(u)
  PROVE  DraftInv'
<1> SUFFICES ASSUME NEW u \in Txn \ {t} PROVE KeyShared(u)' /\ PostingHolds(u)'
  BY DEF DraftInv
<1>1. \A v \in Txn \ {t} : /\ Inserted(v)' <=> Inserted(v)
                           /\ Doing(v, {"post"})' <=> Doing(v, {"post"})
                           /\ At(v, "change")' <=> At(v, "change")
  BY DEF Inserted, Doing, At
<1>2. KeyShared(u)'
  BY <1>1 DEF KeyShared, DraftInv
<1>3. PostingHolds(u)'
  <2> SUFFICES ASSUME Doing(u, {"post"})
               PROVE  /\ rowLock' = u /\ status' = "draft"
                      /\ \A other \in Txn \ {u} : ~Inserted(other)'
                      /\ At(u, "change") => Present(lines') \subseteq Present(session'[u].lines)
    BY <1>1 DEF PostingHolds
  <2>1. /\ rowLock = u /\ status = "draft"
        /\ \A other \in Txn \ {u} : ~Inserted(other)
        /\ At(u, "change") => Present(lines) \subseteq Present(session[u].lines)
    BY DEF DraftInv, PostingHolds
  <2>2. \A other \in Txn \ {u} : ~Inserted(other)'
    BY <1>1, <2>1
  <2>3. QED
    BY <2>1, <2>2
<1>4. QED
  BY <1>2, <1>3

\* The end of a request.
LEMMA Ended ==
  ASSUME TypeOK, NEW t \in Txn, Close(t)
  PROVE  /\ session' \in [Txn -> Session \cup {Closed}] /\ rowLock' \in Txn \cup {NoTxn}
         /\ \A u \in Txn \ {t} : session'[u] = session[u] /\ (rowLock = u => rowLock' = u)
         /\ ~Inserted(t)' /\ KeyShared(t)' /\ PostingHolds(t)'
<1>1. At(t, "closed")'
  BY DEF TypeOK, Close, Closed, At
<1>2. QED
  BY <1>1 DEF TypeOK, Close, Inserted, Doing, KeyShared, PostingHolds

LEMMA AbandonKeeps ==
  ASSUME DraftInv, NEW t \in Txn, Abandon(t) PROVE DraftInv'
<1>1. TypeOK /\ Close(t) /\ UNCHANGED <<rows, raced>>
  BY DEF DraftInv, Abandon
<1>2. TypeOK' /\ SerialEditsAreSound' /\ NoOrphanLines'
  BY <1>1, Ended DEF DraftInv, TypeOK, SerialEditsAreSound, NoOrphanLines, rows
<1>3. \A u \in Txn \ {t} : Doing(u, {"post"}) => rowLock = u
  BY DEF DraftInv, PostingHolds
<1>4. QED
  BY <1>1, <1>2, <1>3, Ended, Kept DEF rows

\* A document is read; posting also takes its row, which nobody's new line shares.
LEMMA ReadDocumentKeeps ==
  ASSUME DraftInv, NEW t \in Txn, NEW request \in Request, ReadDocument(t, request)
  PROVE  DraftInv'
<1> DEFINE empty == [l \in LineId |-> NoLine]
           s == [pc |-> "lines", request |-> request, rate |-> rate, total |-> total, lines |-> empty]
<1>1. TypeOK /\ status = "draft" /\ UNCHANGED <<rows, raced>>
  BY DEF DraftInv, ReadDocument
<1>2. s \in Session /\ s.pc = "lines" /\ s.request = request /\ s # Closed
  <2>1. request \in RequestType /\ rate \in Rate /\ total \in Nat /\ empty \in Contents
    BY <1>1, Requests DEF TypeOK, Contents
  <2>2. QED
    BY <2>1 DEF Session, Closed
<1>3. session' = [session EXCEPT ![t] = s]
  BY DEF ReadDocument
<1>4. IF request.op = "post" THEN Exclusive(t) /\ rowLock' = t ELSE rowLock' = rowLock
  BY DEF ReadDocument
<1> HIDE DEF s
<1>5. /\ session'[t] = s /\ \A u \in Txn \ {t} : session'[u] = session[u]
      /\ session' \in [Txn -> Session \cup {Closed}]
  BY <1>1, <1>2, <1>3 DEF TypeOK
<1>6. TypeOK' /\ SerialEditsAreSound' /\ NoOrphanLines'
  BY <1>1, <1>4, <1>5 DEF DraftInv, TypeOK, SerialEditsAreSound, NoOrphanLines, rows
<1>7. ~Inserted(t)' /\ KeyShared(t)'
  BY <1>2, <1>5 DEF Inserted, At, KeyShared
<1>8. PostingHolds(t)'
  <2>1. ~At(t, "change")' /\ (Doing(t, {"post"})' => request.op = "post")
    BY <1>2, <1>5 DEF At, Doing
  <2>2. Exclusive(t) => \A u \in Txn \ {t} : ~Inserted(u)'
    BY <1>5 DEF Exclusive, Inserted, Doing, At
  <2>3. QED
    BY <1>1, <1>4, <2>1, <2>2 DEF PostingHolds, rows
<1>9. \A u \in Txn \ {t} : Doing(u, {"post"}) => rowLock' = u
  <2>1. \A u \in Txn \ {t} : Doing(u, {"post"}) => rowLock = u
    BY DEF DraftInv, PostingHolds
  <2>2. QED
    BY <1>4, <2>1, Nobody DEF Exclusive
<1>10. QED
  BY <1>1, <1>5, <1>6, <1>7, <1>8, <1>9, Kept DEF rows

\* The lines are read.
LEMMA ReadLinesKeeps ==
  ASSUME DraftInv, NEW t \in Txn, ReadLines(t) PROVE DraftInv'
<1> DEFINE s == [session[t] EXCEPT !.pc = "change", !.lines = lines]
<1>1. TypeOK /\ At(t, "lines") /\ ~At(t, "closed") /\ UNCHANGED <<rows, rowLock, raced>>
  BY DEF DraftInv, ReadLines, At
<1>2. session[t] \in Session
  BY <1>1, Opened
<1>3. /\ s \in Session /\ s.pc = "change" /\ s.lines = lines /\ s.request = session[t].request
  BY <1>1, <1>2 DEF Session, TypeOK
<1>4. session' = [session EXCEPT ![t] = s]
  BY <1>1 DEF ReadLines, TypeOK
<1> HIDE DEF s
<1>5. /\ session'[t] = s /\ \A u \in Txn \ {t} : session'[u] = session[u]
      /\ session' \in [Txn -> Session \cup {Closed}]
  BY <1>1, <1>3, <1>4 DEF TypeOK
<1>6. TypeOK' /\ SerialEditsAreSound' /\ NoOrphanLines'
  BY <1>1, <1>5 DEF DraftInv, TypeOK, SerialEditsAreSound, NoOrphanLines, rows
<1>7. ~Inserted(t)' /\ KeyShared(t)'
  BY <1>3, <1>5 DEF Inserted, At, KeyShared
<1>8. PostingHolds(t)'
  <2>1. Doing(t, {"post"})' => Doing(t, {"post"})
    BY <1>1, <1>3, <1>5 DEF Doing
  <2>2. \A u \in Txn \ {t} : Inserted(u)' <=> Inserted(u)
    BY <1>5 DEF Inserted, Doing, At
  <2>3. PostingHolds(t)
    BY DEF DraftInv
  <2>4. QED
    BY <1>1, <1>3, <1>5, <2>1, <2>2, <2>3 DEF PostingHolds, rows
<1>9. \A u \in Txn \ {t} : Doing(u, {"post"}) => rowLock = u
  BY DEF DraftInv, PostingHolds
<1>10. QED
  BY <1>1, <1>5, <1>6, <1>7, <1>8, <1>9, Kept DEF rows

\* A line is inserted: nobody holds the row, so nobody posts.
LEMMA InsertKeeps ==
  ASSUME DraftInv, NEW t \in Txn, Insert(t) PROVE DraftInv'
<1> DEFINE q == [session[t].request EXCEPT !.line = lastLine + 1]
           s == [session[t] EXCEPT !.pc = "flushed", !.request = q]
<1>1. /\ TypeOK /\ ~At(t, "closed") /\ session[t].request.op = "add" /\ status # "deleted"
      /\ rowLock \in {t, NoTxn} /\ lastLine < MaxLine /\ lastLine' = lastLine + 1
      /\ UNCHANGED <<status, rate, total, lines, moved, rowLock, raced>>
  BY DEF DraftInv, Insert, At, Doing, Writable
<1>2. session[t] \in Session /\ session[t].request \in RequestType
  BY <1>1, Opened
<1>3. lastLine + 1 \in LineId
  BY <1>1, LineBound DEF TypeOK, LineId
<1>4. q \in RequestType /\ q.op = "add"
  BY <1>1, <1>2, <1>3 DEF RequestType
<1>5. session' = [session EXCEPT ![t] = s]
  BY <1>1, <1>2 DEF Insert, TypeOK
<1> HIDE DEF q
<1>6. s \in Session /\ s.pc = "flushed" /\ s.request = q
  BY <1>2, <1>4 DEF Session
<1> HIDE DEF s
<1>7. /\ session'[t] = s /\ \A u \in Txn \ {t} : session'[u] = session[u]
      /\ session' \in [Txn -> Session \cup {Closed}]
  BY <1>1, <1>5, <1>6 DEF TypeOK
<1>8. TypeOK' /\ SerialEditsAreSound' /\ NoOrphanLines'
  BY <1>1, <1>3, <1>7 DEF DraftInv, TypeOK, SerialEditsAreSound, NoOrphanLines, LineId
<1>9. KeyShared(t)' /\ PostingHolds(t)'
  BY <1>1, <1>4, <1>6, <1>7 DEF KeyShared, PostingHolds, Doing
<1>10. \A u \in Txn \ {t} : ~Doing(u, {"post"})
  BY <1>1, Nobody DEF DraftInv, PostingHolds
<1>11. QED
  BY <1>1, <1>7, <1>8, <1>9, <1>10, Kept

\* A line is deleted, not yet for others, and the document read again.
LEMMA RemoveKeeps ==
  ASSUME DraftInv, NEW t \in Txn, Remove(t) PROVE DraftInv'
<1> DEFINE kept == [lines EXCEPT ![Line(t)] = NoLine]
           s == [session[t] EXCEPT !.pc = "flushed", !.rate = rate, !.total = total, !.lines = kept]
<1>1. /\ TypeOK /\ ~At(t, "closed") /\ session[t].request.op = "delete_line"
      /\ UNCHANGED <<rows, rowLock, raced>>
  BY DEF DraftInv, Remove, At, Doing
<1>2. session[t] \in Session
  BY <1>1, Opened
<1>3. kept \in Contents
  BY <1>1 DEF TypeOK, Contents
<1>4. session' = [session EXCEPT ![t] = s]
  BY <1>1, <1>2 DEF Remove, TypeOK
<1> HIDE DEF kept
<1>5. s \in Session /\ s.request = session[t].request
  BY <1>1, <1>2, <1>3 DEF Session, TypeOK
<1> HIDE DEF s
<1>6. /\ session'[t] = s /\ \A u \in Txn \ {t} : session'[u] = session[u]
      /\ session' \in [Txn -> Session \cup {Closed}]
  BY <1>1, <1>4, <1>5 DEF TypeOK
<1>7. TypeOK' /\ SerialEditsAreSound' /\ NoOrphanLines'
  BY <1>1, <1>6 DEF DraftInv, TypeOK, SerialEditsAreSound, NoOrphanLines, rows
<1>8. ~Inserted(t)' /\ KeyShared(t)' /\ PostingHolds(t)'
  BY <1>1, <1>5, <1>6 DEF Inserted, KeyShared, PostingHolds, Doing
<1>9. \A u \in Txn \ {t} : Doing(u, {"post"}) => rowLock = u
  BY DEF DraftInv, PostingHolds
<1>10. QED
  BY <1>1, <1>6, <1>7, <1>8, <1>9, Kept DEF rows

\* The document is posted: with every line there is, and if nothing had changed since
\* the lines were read, with these.
LEMMA CommitPostKeeps ==
  ASSUME DraftInv, NEW t \in Txn, CommitPost(t)
  PROVE  DraftInv' /\ status = "draft" /\ Present(lines') \subseteq Present(moved')
<1>1. /\ TypeOK /\ Doing(t, {"post"}) /\ At(t, "change") /\ ~At(t, "closed")
      /\ session[t].request.op = "post"
      /\ status' = "posted" /\ moved' = session[t].lines /\ raced' = (raced \/ Overtaken(t))
      /\ Close(t) /\ UNCHANGED <<rate, total, lines, lastLine>>
  BY DEF DraftInv, CommitPost, Doing, At
<1>2. /\ rowLock = t /\ status = "draft" /\ \A other \in Txn \ {t} : ~Inserted(other)
      /\ Present(lines) \subseteq Present(session[t].lines)
  BY <1>1 DEF DraftInv, PostingHolds
<1>3. session[t].lines \in Contents
  BY <1>1, Opened
<1>4. ~Overtaken(t) => lines = session[t].lines
  <2> SUFFICES ASSUME ~Overtaken(t) PROVE \A l \in LineId : lines[l] = session[t].lines[l]
    BY <1>1, <1>3 DEF TypeOK, Contents
  <2>1. ~Removed(t)
    BY <1>1 DEF Removed, Doing
  <2>2. QED
    BY <2>1 DEF Overtaken
<1>5. TypeOK'
  BY <1>1, <1>3, Ended DEF TypeOK
<1>6. SerialEditsAreSound' /\ NoOrphanLines'
  BY <1>1, <1>4 DEF DraftInv, SerialEditsAreSound, NoOrphanLines
<1>7. \A u \in Txn \ {t} : ~Doing(u, {"post"})
  BY <1>2 DEF DraftInv, PostingHolds
<1>8. DraftInv'
  BY <1>1, <1>5, <1>6, <1>7, Ended, Kept
<1>9. QED
  BY <1>1, <1>2, <1>8

\* The document is deleted: nobody's new line shares its key, and nobody posts it.
LEMMA CommitDeleteKeeps ==
  ASSUME DraftInv, NEW t \in Txn, CommitDelete(t) PROVE DraftInv' /\ status # "posted"
<1>1. /\ TypeOK /\ status # "posted" /\ rowLock \in {t, NoTxn}
      /\ \A other \in Txn \ {t} : ~Inserted(other)
      /\ status' = "deleted" /\ total' = 0 /\ lines' = [l \in LineId |-> NoLine]
      /\ Close(t) /\ UNCHANGED <<rate, lastLine, moved>>
      /\ raced' = (raced \/ Overtaken(t))
  BY DEF DraftInv, CommitDelete, Exclusive, Deletable
<1>2. lines' \in Contents /\ \A l \in LineId : lines'[l] = NoLine
  BY <1>1 DEF Contents
<1>3. Sum(lines') = 0 /\ Present(lines') = {}
  BY <1>2, SumOfNone
<1>4. raced' \in BOOLEAN
  BY <1>1 DEF TypeOK
<1>5. TypeOK'
  BY <1>1, <1>2, <1>4, Ended DEF TypeOK
<1>6. SerialEditsAreSound' /\ NoOrphanLines'
  BY <1>1, <1>3 DEF SerialEditsAreSound, NoOrphanLines
<1>7. \A u \in Txn \ {t} : ~Doing(u, {"post"})
  BY <1>1, Nobody DEF DraftInv, PostingHolds
<1>8. QED
  BY <1>1, <1>5, <1>6, <1>7, Ended, Kept

\* The arithmetic of lines: whatever a request gives, a new line and a line that is
\* valued again are rows of the table, with the amount and the price that follow.
LEMMA Pricing ==
  ASSUME NEW p \in Nat, NEW f \in Nat \cup {Null}, NEW r \in Rate
  PROVE  /\ Counts(p, f) \in Nat /\ Base(p, f, r) \in Nat
         /\ Base(p, f, r) = Counts(p, f) * r
         /\ \A n \in Quantity : n * Base(p, f, r) \in Nat
<1>1. Counts(p, f) \in Nat
  BY DEF Counts
<1>2. r \in Nat /\ Quantity \subseteq Nat
  BY Amounts
<1>3. \A a \in Nat, b \in Nat : a * b \in Nat
  OBVIOUS
<1>4. Base(p, f, r) = Counts(p, f) * r
  BY DEF Base
<1>5. Base(p, f, r) \in Nat
  BY <1>1, <1>2, <1>3, <1>4
<1>6. \A n \in Quantity : n * Base(p, f, r) \in Nat
  BY <1>2, <1>3, <1>5
<1>7. QED
  BY <1>1, <1>4, <1>5, <1>6

LEMMA NewLines ==
  ASSUME NEW q, Addition(q), NEW r \in Rate
  PROVE  NewLine(q, r) \in LineRow /\ Sound(NewLine(q, r), r)
<1>1. q.price \in Nat /\ q.foreign \in Nat \cup {Null} /\ q.quantity \in Quantity
  BY Amounts DEF Addition
<1>2. PICK base \in Nat : base = Base(q.price, q.foreign, r)
  BY <1>1, Pricing
<1>3. PICK amount \in Nat : amount = q.quantity * base
  BY <1>1, <1>2, Pricing
<1>4. NewLine(q, r) = [quantity |-> q.quantity, price |-> base, foreign |-> q.foreign,
                       amount |-> amount]
  BY <1>2, <1>3 DEF NewLine
<1>5. q.foreign # Null => base = q.foreign * r
  BY <1>1, <1>2 DEF Base, Counts
<1>6. QED
  BY <1>1, <1>2, <1>3, <1>4, <1>5 DEF LineRow, Sound

LEMMA Revaluing ==
  ASSUME NEW line, line.quantity \in Quantity, line.price \in Nat,
         line.foreign \in Nat \cup {Null}, NEW r \in Rate
  PROVE  Revalued(line, r) \in LineRow /\ Sound(Revalued(line, r), r)
<1> DEFINE Terms(p, f, n) == /\ Counts(p, f) \in Nat /\ Base(p, f, r) \in Nat
                             /\ Base(p, f, r) = Counts(p, f) * r /\ n * Base(p, f, r) \in Nat
<1>a. \A p \in Nat, f \in Nat \cup {Null}, n \in Quantity : Terms(p, f, n)
  BY Pricing
<1>b. Terms(line.price, line.foreign, line.quantity)
  BY <1>a
<1>1. PICK counts \in Nat : counts = Counts(line.price, line.foreign)
  BY <1>b
<1>2. PICK base \in Nat : base = Base(line.price, line.foreign, r) /\ base = counts * r
  BY <1>b, <1>1
<1>3. PICK amount \in Nat : amount = line.quantity * base
  BY <1>b, <1>2
<1>4. Revalued(line, r) = [quantity |-> line.quantity, price |-> base, foreign |-> counts,
                           amount |-> amount]
  BY <1>1, <1>2, <1>3 DEF Revalued
<1>5. QED
  BY <1>1, <1>2, <1>3, <1>4 DEF LineRow, Sound

\* A line with the fields of a request is one that can be valued.
LEMMA AskedLines ==
  ASSUME NEW line \in LineRow, NEW q, Correction(q)
  PROVE  /\ Asked(line, q).quantity \in Quantity /\ Asked(line, q).price \in Nat
         /\ Asked(line, q).foreign \in Nat \cup {Null}
<1>1. /\ line.quantity \in Quantity /\ line.price \in Nat /\ line.foreign \in Nat \cup {Null}
  BY DEF LineRow
<1>2. /\ Given(q.quantity, line.quantity) \in Quantity
      /\ Given(q.price, line.price) \in Nat
      /\ Given(q.foreign, line.foreign) \in Nat \cup {Null}
  BY <1>1, Amounts DEF Correction, Given
<1>3. QED
  BY <1>2 DEF Asked

\* An edit leaves in its session lines whose price and amount follow at its rate, and
\* touches no other line than its own unless it is one of the header.
LEMMA ChangedLines ==
  ASSUME TypeOK, NEW t \in Txn, Edited(t)
  PROVE  /\ Changed(t) \in Contents
         /\ Doing(t, {"add", "update"}) \/ Doing(t, {"delete_line"}) \/ Doing(t, {"header"})
         /\ Doing(t, {"add", "update"}) =>
              \E own \in LineRow : /\ Sound(own, NewRate(t))
                                   /\ Changed(t) = [session[t].lines EXCEPT ![Line(t)] = own]
         /\ Doing(t, {"delete_line"}) => Changed(t) = [session[t].lines EXCEPT ![Line(t)] = NoLine]
         /\ Doing(t, {"header"}) =>
              \A l \in LineId :
                IF session[t].lines[l] = NoLine THEN Changed(t)[l] = NoLine
                ELSE Changed(t)[l] \in LineRow /\ Sound(Changed(t)[l], NewRate(t))
<1>1. ~At(t, "closed") /\ session[t].request.op \in {"add", "update", "delete_line", "header"}
  BY DEF Edited, Inserted, Removed, Doing
<1>2. /\ session[t].lines \in Contents /\ Line(t) \in LineId /\ NewRate(t) \in Rate
      /\ session[t].rate \in Rate
  BY <1>1, Opened
<1>3. ~Doing(t, {"header"}) => NewRate(t) = session[t].rate
  BY DEF NewRate
<1>4. CASE session[t].request.op \in {"add", "update"}
  <2>1. \E own \in LineRow : /\ Sound(own, NewRate(t))
                             /\ Changed(t) = [session[t].lines EXCEPT ![Line(t)] = own]
    <3>1. NewRate(t) = session[t].rate
      BY <1>3, <1>4 DEF Doing
    <3>2. CASE session[t].request.op = "add"
      <4>1. PICK own : own = NewLine(session[t].request, session[t].rate)
        OBVIOUS
      <4>2. own \in LineRow /\ Sound(own, session[t].rate)
        BY <1>1, <1>2, <3>2, <4>1, Opened, NewLines
      <4>3. Changed(t) = [session[t].lines EXCEPT ![Line(t)] = own]
        BY <3>2, <4>1 DEF Changed
      <4>4. QED
        BY <3>1, <4>2, <4>3
    <3>3. CASE session[t].request.op = "update"
      <4>1. PICK asked : asked = Asked(session[t].lines[Line(t)], session[t].request)
        OBVIOUS
      <4>2. PICK own : own = Revalued(asked, session[t].rate)
        OBVIOUS
      <4>3. session[t].lines[Line(t)] \in LineRow
        <5>1. Line(t) \in Present(session[t].lines)
          BY <3>3 DEF Edited, Inserted, Removed, Doing
        <5>2. QED
          BY <1>2, <5>1, PresentRows
      <4>4. own \in LineRow /\ Sound(own, session[t].rate)
        <5>1. Correction(session[t].request)
          BY <1>1, <3>3, Opened
        <5>2. /\ asked.quantity \in Quantity /\ asked.price \in Nat
              /\ asked.foreign \in Nat \cup {Null}
          BY <4>1, <4>3, <5>1, AskedLines
        <5>3. QED
          BY <1>2, <4>2, <5>2, Revaluing
      <4>5. Changed(t) = [session[t].lines EXCEPT ![Line(t)] = own]
        BY <3>3, <4>1, <4>2 DEF Changed
      <4>6. QED
        BY <3>1, <4>4, <4>5
    <3>4. QED
      BY <1>4, <3>2, <3>3
  <2>2. Changed(t) \in Contents
    BY <1>2, <2>1 DEF Contents
  <2>3. QED
    BY <1>1, <1>4, <2>1, <2>2 DEF Doing
<1>5. CASE session[t].request.op = "delete_line"
  <2>1. Changed(t) = [session[t].lines EXCEPT ![Line(t)] = NoLine]
    BY <1>5 DEF Changed
  <2>2. Changed(t) \in Contents
    BY <1>2, <2>1 DEF Contents
  <2>3. QED
    BY <1>1, <1>5, <2>1, <2>2 DEF Doing
<1>6. CASE session[t].request.op = "header"
  <2>1. Changed(t) = [l \in LineId |-> IF session[t].lines[l] = NoLine THEN NoLine
                                       ELSE Revalued(session[t].lines[l], NewRate(t))]
    BY <1>6 DEF Changed
  <2>2. ASSUME NEW l \in LineId, session[t].lines[l] # NoLine
        PROVE  /\ Revalued(session[t].lines[l], NewRate(t)) \in LineRow
               /\ Sound(Revalued(session[t].lines[l], NewRate(t)), NewRate(t))
    <3>1. session[t].lines[l] \in LineRow
      BY <1>2, <2>2 DEF Contents
    <3>2. /\ session[t].lines[l].quantity \in Quantity /\ session[t].lines[l].price \in Nat
          /\ session[t].lines[l].foreign \in Nat \cup {Null}
      BY <3>1 DEF LineRow
    <3>3. QED
      BY <1>2, <3>2, Revaluing
  <2>3. \A l \in LineId : IF session[t].lines[l] = NoLine THEN Changed(t)[l] = NoLine
                          ELSE Changed(t)[l] \in LineRow /\ Sound(Changed(t)[l], NewRate(t))
    BY <2>1, <2>2
  <2>4. Changed(t) \in Contents
    BY <2>1, <2>2 DEF Contents
  <2>5. QED
    BY <1>1, <1>6, <2>3, <2>4 DEF Doing
<1>7. QED
  BY <1>1, <1>4, <1>5, <1>6

\* What the UPDATE statements leave in the rows they are for.
LEMMA MergedLines ==
  ASSUME TypeOK, NEW t \in Txn, Edited(t), RowsThere(t), NEW l \in Touched(t)
  PROVE  /\ l \in Present(lines) /\ MergedLine(t, l) \in LineRow
         /\ lines[l] = session[t].lines[l] => MergedLine(t, l) = Changed(t)[l]
<1>1. l \in LineId /\ l \in Present(lines) /\ Changed(t)[l] # NoLine
  BY DEF Touched, RowsThere, Present
<1>2. lines[l] \in LineRow /\ Changed(t)[l] \in LineRow
  <2>1. lines[l] \in LineRow
    BY <1>1, PresentRows DEF TypeOK
  <2>2. Changed(t)[l] \in LineRow
    BY <1>1, ChangedLines DEF Contents
  <2>3. QED
    BY <2>1, <2>2
<1> DEFINE new == Changed(t)[l]
<1>3. MergedLine(t, l) =
        [quantity |-> Merge(lines[l].quantity, session[t].lines[l].quantity, new.quantity),
         price    |-> Merge(lines[l].price, session[t].lines[l].price, new.price),
         foreign  |-> Merge(lines[l].foreign, session[t].lines[l].foreign, new.foreign),
         amount   |-> Merge(lines[l].amount, session[t].lines[l].amount, new.amount)]
  BY DEF MergedLine, NoLine
<1>4. new \in LineRow
  BY <1>2
<1> HIDE DEF new
<1>5. MergedLine(t, l) \in LineRow
  BY <1>2, <1>3, <1>4 DEF Merge, LineRow
<1>6. lines[l] = session[t].lines[l] => MergedLine(t, l) = new
  BY <1>2, <1>3, <1>4 DEF Merge, LineRow
<1>7. QED
  BY <1>1, <1>5, <1>6 DEF new

\* An edit that nobody has overtaken writes the lines of its session.
LEMMA WrittenAsChanged ==
  ASSUME TypeOK, NEW t \in Txn, CommitEdit(t), ~Overtaken(t)
  PROVE  /\ status = "draft" /\ rate = session[t].rate /\ total = session[t].total
         /\ lines' = Changed(t) /\ total' = Sum(Changed(t))
         /\ rate' = NewRate(t)
         /\ \A l \in LineId : Changed(t)[l] # NoLine =>
              \/ l = Line(t) /\ Doing(t, {"add", "update"})
              \/ lines[l] = session[t].lines[l] /\ lines[l] # NoLine
<1>1. /\ Edited(t) /\ RowsThere(t)
      /\ status = "draft" /\ rate = session[t].rate /\ total = session[t].total
      /\ \A l \in LineId : lines[l] = session[t].lines[l] \/ (Removed(t) /\ l = Line(t))
  BY DEF CommitEdit, Overtaken
<1>2. /\ rate' = NewRate(t)
      /\ total' = Sum(Changed(t))
  BY <1>1 DEF CommitEdit, NewTotal, Merge
<1>3. /\ session[t].lines \in Contents /\ Line(t) \in LineId
      /\ Changed(t) \in Contents
  <2>1. ~At(t, "closed")
    BY <1>1 DEF Edited, Inserted, Removed, Doing
  <2>2. QED
    BY <1>1, <2>1, Opened, ChangedLines
<1>4. lines' = [l \in LineId |-> IF l = Line(t) /\ Inserted(t) THEN Changed(t)[l]
                                 ELSE IF l = Line(t) /\ Removed(t) THEN NoLine
                                 ELSE IF l \in Touched(t) THEN MergedLine(t, l) ELSE lines[l]]
  BY DEF CommitEdit
<1>5. /\ Doing(t, {"delete_line"}) <=> Removed(t)
      /\ Doing(t, {"add", "update"}) <=>
           Inserted(t) \/ (Doing(t, {"update"}) /\ Line(t) \in Present(session[t].lines))
      /\ Inserted(t) => ~Removed(t)
  BY <1>1 DEF Edited, Inserted, Removed, Doing, At
<1>6. ASSUME NEW l \in LineId PROVE lines'[l] = Changed(t)[l]
  <2>1. CASE l = Line(t) /\ Inserted(t)
    BY <1>4, <2>1
  <2>2. CASE l = Line(t) /\ Removed(t)
    BY <1>1, <1>3, <1>4, <1>5, <2>2, ChangedLines DEF Contents
  <2>3. CASE l \in Touched(t) /\ ~(l = Line(t) /\ (Inserted(t) \/ Removed(t)))
    BY <1>1, <1>4, <2>3, MergedLines
  <2>4. CASE l \notin Touched(t) /\ ~(l = Line(t) /\ (Inserted(t) \/ Removed(t)))
    <3>1. lines'[l] = lines[l] /\ lines[l] = session[t].lines[l]
      BY <1>1, <1>4, <2>4
    <3>2. Changed(t)[l] = session[t].lines[l]
      <4>1. CASE l \in Present(session[t].lines) /\ l \in Present(Changed(t))
        BY <2>4, <4>1 DEF Touched
      <4>2. CASE ~Doing(t, {"header"}) /\ l # Line(t)
        BY <1>1, <1>3, <4>2, ChangedLines DEF Contents
      <4>3. CASE ~Doing(t, {"header"}) /\ l = Line(t)
        <5>1. Doing(t, {"add", "update"}) /\ l \in Present(session[t].lines)
          BY <1>1, <1>5, <2>4, <4>3, ChangedLines
        <5>2. Changed(t)[l] \in LineRow
          BY <1>1, <1>3, <4>3, <5>1, ChangedLines DEF Contents
        <5>3. QED
          BY <1>3, <4>1, <5>1, <5>2, PresentRows
      <4>4. CASE Doing(t, {"header"})
        <5>1. CASE session[t].lines[l] = NoLine
          BY <1>1, <4>4, <5>1, ChangedLines
        <5>2. CASE session[t].lines[l] # NoLine
          <6>1. Changed(t)[l] \in LineRow
            BY <1>1, <4>4, <5>2, ChangedLines
          <6>2. l \in Present(Changed(t)) /\ l \in Present(session[t].lines)
            BY <1>3, <5>2, <6>1, PresentRows DEF Present
          <6>3. QED
            BY <4>1, <6>2
        <5>3. QED
          BY <5>1, <5>2
      <4>5. QED
        BY <4>2, <4>3, <4>4
    <3>3. QED
      BY <3>1, <3>2
  <2>5. QED
    BY <2>1, <2>2, <2>3, <2>4
<1>7. lines' = Changed(t)
  BY <1>3, <1>4, <1>6 DEF Contents
<1>8. ASSUME NEW l \in LineId, Changed(t)[l] # NoLine
      PROVE  \/ l = Line(t) /\ Doing(t, {"add", "update"})
             \/ lines[l] = session[t].lines[l] /\ lines[l] # NoLine
  <2>1. CASE Doing(t, {"header"})
    <3>1. session[t].lines[l] # NoLine
      BY <1>1, <1>8, <2>1, ChangedLines
    <3>2. ~Removed(t)
      BY <2>1 DEF Removed, Doing
    <3>3. QED
      BY <1>1, <3>1, <3>2
  <2>2. CASE Doing(t, {"delete_line"})
    <3>1. Changed(t) = [session[t].lines EXCEPT ![Line(t)] = NoLine]
      BY <1>1, <2>2, ChangedLines
    <3>2. l # Line(t)
      BY <1>3, <1>8, <3>1 DEF Contents
    <3>3. QED
      BY <1>1, <1>3, <1>8, <3>1, <3>2 DEF Contents
  <2>3. CASE Doing(t, {"add", "update"}) /\ l # Line(t)
    <3>1. Changed(t)[l] = session[t].lines[l]
      BY <1>1, <1>3, <2>3, ChangedLines DEF Contents
    <3>2. QED
      BY <1>1, <1>8, <2>3, <3>1
  <2>4. QED
    BY <1>1, <2>1, <2>2, <2>3, ChangedLines
<1>9. QED
  BY <1>1, <1>2, <1>7, <1>8

\* A line there is after an edit is its own new one, or was there.
LEMMA OnlyOwnLine ==
  ASSUME TypeOK, NEW t \in Txn, CommitEdit(t)
  PROVE  /\ lines' \in Contents /\ rate' \in Rate /\ total' \in Nat
         /\ ~Inserted(t) => Present(lines') \subseteq Present(lines)
<1>1. Edited(t) /\ RowsThere(t) /\ ~At(t, "closed")
  BY DEF CommitEdit, Edited, Inserted, Removed, Doing
<1>2. lines' = [l \in LineId |-> IF l = Line(t) /\ Inserted(t) THEN Changed(t)[l]
                                 ELSE IF l = Line(t) /\ Removed(t) THEN NoLine
                                 ELSE IF l \in Touched(t) THEN MergedLine(t, l) ELSE lines[l]]
  BY DEF CommitEdit
<1>3. Changed(t) \in Contents /\ NoLine \notin LineRow
  BY <1>1, ChangedLines, Amounts DEF NoLine, LineRow
<1>4. lines' \in Contents
  <2> SUFFICES ASSUME NEW l \in LineId
               PROVE  (IF l = Line(t) /\ Inserted(t) THEN Changed(t)[l]
                       ELSE IF l = Line(t) /\ Removed(t) THEN NoLine
                       ELSE IF l \in Touched(t) THEN MergedLine(t, l) ELSE lines[l])
                         \in LineRow \cup {NoLine}
    BY <1>2 DEF Contents
  <2>1. Changed(t)[l] \in LineRow \cup {NoLine} /\ lines[l] \in LineRow \cup {NoLine}
    BY <1>3 DEF TypeOK, Contents
  <2>2. l \in Touched(t) => MergedLine(t, l) \in LineRow
    BY <1>1, MergedLines
  <2>3. QED
    BY <2>1, <2>2
<1>5. rate' \in Rate /\ total' \in Nat
  <2>1. NewRate(t) \in Rate
    BY <1>1, Opened
  <2>2. NewTotal(t) \in Nat
    BY <1>3, SumOfLines DEF NewTotal
  <2>3. QED
    BY <2>1, <2>2 DEF CommitEdit, Merge, TypeOK
<1>6. ASSUME ~Inserted(t) PROVE Present(lines') \subseteq Present(lines)
  <2> SUFFICES ASSUME NEW l \in LineId, lines'[l] # NoLine PROVE lines[l] # NoLine
    BY DEF Present
  <2>1. l \in Touched(t) => l \in Present(lines)
    BY <1>1 DEF RowsThere
  <2>2. QED
    BY <1>2, <1>6, <2>1 DEF Present
<1>7. QED
  BY <1>4, <1>5, <1>6

\* An edit commits: it adds no line once the document is gone or being posted, and
\* unless it is overtaken, leaves every amount at the rate it leaves.
LEMMA CommitEditKeeps ==
  ASSUME DraftInv, NEW t \in Txn, CommitEdit(t) PROVE DraftInv'
<1>1. /\ TypeOK /\ Edited(t) /\ Close(t) /\ UNCHANGED <<status, lastLine, moved>>
      /\ raced' = (raced \/ Overtaken(t))
  BY DEF DraftInv, CommitEdit
<1>2. TypeOK'
  <2>1. raced' \in BOOLEAN
    BY <1>1 DEF TypeOK
  <2>2. QED
    BY <1>1, <2>1, OnlyOwnLine, Ended DEF TypeOK
<1>3. NoOrphanLines'
  <2>1. status = "deleted" => Present(lines) = {} /\ ~Inserted(t)
    BY DEF DraftInv, NoOrphanLines, KeyShared
  <2>2. QED
    BY <1>1, <2>1, OnlyOwnLine DEF NoOrphanLines
<1>4. SerialEditsAreSound'
  <2> SUFFICES ASSUME ~raced'
               PROVE  /\ total' = Sum(lines')
                      /\ \A l \in Present(lines') : Sound(lines'[l], rate')
                      /\ status' = "posted" => lines' = moved'
    BY DEF SerialEditsAreSound, Sound
  <2>1. ~raced /\ ~Overtaken(t)
    BY <1>1 DEF TypeOK
  <2>2. status' # "posted" /\ lines' = Changed(t) /\ total' = Sum(lines') /\ rate' = NewRate(t)
    BY <1>1, <2>1, WrittenAsChanged
  <2>3. ASSUME NEW l \in LineId, Changed(t)[l] # NoLine PROVE Sound(Changed(t)[l], NewRate(t))
    <3>1. session[t].lines \in Contents /\ Line(t) \in LineId /\ rate = session[t].rate
      <4>1. ~At(t, "closed")
        BY <1>1 DEF Edited, Inserted, Removed, Doing
      <4>2. QED
        BY <1>1, <2>1, <4>1, Opened, WrittenAsChanged
    <3>2. CASE Doing(t, {"header"})
      BY <1>1, <2>3, <3>2, ChangedLines
    <3>3. CASE l = Line(t) /\ Doing(t, {"add", "update"})
      <4>1. PICK own \in LineRow : /\ Sound(own, NewRate(t))
                                   /\ Changed(t) = [session[t].lines EXCEPT ![Line(t)] = own]
        BY <1>1, <3>3, ChangedLines
      <4>2. Changed(t)[l] = own
        BY <3>1, <3>3, <4>1 DEF Contents
      <4>3. QED
        BY <4>1, <4>2
    <3>4. CASE ~Doing(t, {"header"}) /\ ~(l = Line(t) /\ Doing(t, {"add", "update"}))
      <4>1. lines[l] = session[t].lines[l] /\ lines[l] # NoLine
        BY <1>1, <2>1, <2>3, <3>4, WrittenAsChanged
      <4>2. Sound(lines[l], rate)
        BY <2>1, <4>1 DEF DraftInv, SerialEditsAreSound, Present, Sound
      <4>3. NewRate(t) = rate
        BY <3>1, <3>4 DEF NewRate
      <4>4. Changed(t)[l] = session[t].lines[l]
        <5>1. CASE l # Line(t)
          BY <1>1, <3>1, <3>4, <5>1, ChangedLines DEF Contents
        <5>2. CASE l = Line(t)
          <6>1. Changed(t)[l] = NoLine
            BY <1>1, <3>1, <3>4, <5>2, ChangedLines DEF Contents
          <6>2. QED
            BY <2>3, <6>1
        <5>3. QED
          BY <5>1, <5>2
      <4>5. QED
        BY <4>1, <4>2, <4>3, <4>4
    <3>5. QED
      BY <3>2, <3>3, <3>4
  <2>4. QED
    BY <2>2, <2>3 DEF Present
<1>5. \A u \in Txn \ {t} : Doing(u, {"post"}) => rowLock = u /\ ~Inserted(t)
  BY DEF DraftInv, PostingHolds
<1>6. QED
  BY <1>1, <1>2, <1>3, <1>4, <1>5, OnlyOwnLine, Ended, Kept
-----------------------------------------------------------------------------
LEMMA DraftInit == Init => DraftInv
<1> SUFFICES ASSUME Init PROVE DraftInv
  OBVIOUS
<1>1. (\A l \in LineId : lines[l] = NoLine) /\ lines \in Contents /\ moved \in Contents
  BY DEF Init, Contents
<1>2. Sum(lines) = 0 /\ Present(lines) = {}
  BY <1>1, SumOfNone
<1>3. TypeOK
  <2>1. lastLine \in 0 .. MaxLine /\ total \in Nat
    BY LineBound DEF Init
  <2>2. session \in [Txn -> Session \cup {Closed}] /\ rowLock \in Txn \cup {NoTxn}
    BY DEF Init
  <2>3. QED
    BY <1>1, <2>1, <2>2, Zenon DEF Init, TypeOK
<1>4. SerialEditsAreSound /\ NoOrphanLines
  BY <1>2 DEF Init, SerialEditsAreSound, NoOrphanLines
<1>5. \A t \in Txn : KeyShared(t) /\ PostingHolds(t)
  BY DEF Init, KeyShared, PostingHolds, Inserted, Doing, At, Closed
<1>6. QED
  BY <1>3, <1>4, <1>5 DEF DraftInv

\* What every step does: it keeps the invariant, posts every line there is, and does
\* not take a posted document back.
LEMMA NextKeeps ==
  ASSUME DraftInv, [Next]_vars
  PROVE  /\ DraftInv'
         /\ status = "posted" => status' = "posted"
         /\ status = "draft" /\ status' = "posted" => Present(lines') \subseteq Present(moved')
<1>1. CASE UNCHANGED vars
  <2>1. TypeOK'
    BY <1>1 DEF DraftInv, TypeOK, vars, rows
  <2>2. SerialEditsAreSound' /\ NoOrphanLines'
    BY <1>1 DEF DraftInv, SerialEditsAreSound, NoOrphanLines, vars, rows
  <2>3. ASSUME NEW t \in Txn PROVE (Inserted(t)' <=> Inserted(t)) /\ KeyShared(t)'
    BY <1>1 DEF DraftInv, KeyShared, Inserted, Doing, At, vars, rows
  <2>4. ASSUME NEW t \in Txn PROVE PostingHolds(t)'
    BY <1>1, <2>3 DEF DraftInv, PostingHolds, Doing, At, vars, rows
  <2>5. QED
    BY <1>1, <2>1, <2>2, <2>3, <2>4 DEF DraftInv, vars, rows
<1>2. ASSUME NEW t \in Txn, NEW request \in Request, ReadDocument(t, request)
      PROVE  DraftInv' /\ status' = status
  BY <1>2, ReadDocumentKeeps DEF ReadDocument, rows
<1>3. ASSUME NEW t \in Txn, ReadLines(t) PROVE DraftInv' /\ status' = status
  BY <1>3, ReadLinesKeeps DEF ReadLines, rows
<1>4. ASSUME NEW t \in Txn, Insert(t) PROVE DraftInv' /\ status' = status
  BY <1>4, InsertKeeps DEF Insert
<1>5. ASSUME NEW t \in Txn, Remove(t) PROVE DraftInv' /\ status' = status
  BY <1>5, RemoveKeeps DEF Remove, rows
<1>6. ASSUME NEW t \in Txn, CommitEdit(t) PROVE DraftInv' /\ status' = status
  BY <1>6, CommitEditKeeps DEF CommitEdit
<1>7. ASSUME NEW t \in Txn, CommitPost(t)
      PROVE  DraftInv' /\ status = "draft" /\ Present(lines') \subseteq Present(moved')
  BY <1>7, CommitPostKeeps
<1>8. ASSUME NEW t \in Txn, CommitDelete(t)
      PROVE  DraftInv' /\ status # "posted" /\ status' = "deleted"
  BY <1>8, CommitDeleteKeeps DEF CommitDelete
<1>9. ASSUME NEW t \in Txn, Abandon(t) PROVE DraftInv' /\ status' = status
  BY <1>9, AbandonKeeps DEF Abandon, rows
<1>10. QED
  BY <1>1, <1>2, <1>3, <1>4, <1>5, <1>6, <1>7, <1>8, <1>9 DEF Next

THEOREM DraftInvariant == Spec => []DraftInv
<1>1. DraftInv /\ [Next]_vars => DraftInv'
  BY NextKeeps
<1>2. QED
  BY DraftInit, <1>1, PTL DEF Spec

\* Every row, lock and session is of its type: no edit writes an amount or a total
\* that is negative, whatever it was overtaken by.
THEOREM DraftTypes == Spec => []TypeOK
<1>1. DraftInv => TypeOK
  BY DEF DraftInv
<1>2. QED
  BY DraftInvariant, <1>1, PTL

\* Only overlapping requests can do harm: as long as every commit found what its
\* request had read, the total is the sum of the lines, every amount is that of quantity
\* and price, every price that has a foreign price follows from it and the rate, and a
\* posted document has exactly the lines that were moved.
THEOREM SoundUntilRaced == Spec => []SerialEditsAreSound
<1>1. DraftInv => SerialEditsAreSound
  BY DEF DraftInv
<1>2. QED
  BY DraftInvariant, <1>1, PTL

\* No line outlives its document: a line that is being inserted shares the key that
\* deleting the document needs alone.
THEOREM LinesDieWithDocument == Spec => []NoOrphanLines
<1>1. DraftInv => NoOrphanLines
  BY DEF DraftInv
<1>2. QED
  BY DraftInvariant, <1>1, PTL

\* A posted document stays posted: the foreign key of its movements stops a deletion
\* that found a draft.
THEOREM NeverDeletedOncePosted == Spec => PostedStays
<1>1. DraftInv /\ [Next]_vars => [status = "posted" => status' = "posted"]_vars
  BY NextKeeps
<1>2. QED
  BY DraftInvariant, <1>1, PTL DEF Spec, PostedStays

\* Posting moves every line there is when it commits: none arrives between its read of
\* the lines and its commit, as inserting one shares the key posting has locked.
THEOREM PostedWithAllLines == Spec => PostingMissesNoLine
<1>1. DraftInv /\ [Next]_vars =>
        [status = "draft" /\ status' = "posted" => Present(lines') \subseteq Present(moved')]_vars
  BY NextKeeps
<1>2. QED
  BY DraftInvariant, <1>1, PTL DEF Spec, PostingMissesNoLine
=============================================================================
