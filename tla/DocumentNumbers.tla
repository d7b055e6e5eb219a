---------------------------- MODULE DocumentNumbers ----------------------------
(* Numbers of documents: one sequence per document type, its row locked from  *)
(* the statement that takes the next value to the end of the transaction. A   *)
(* number may also be typed by hand; it is then reserved, if it carries the   *)
(* prefix of the document's own type. The unique constraint judges last.      *)
EXTENDS Integers, FiniteSets, FiniteSetsExt

CONSTANTS Session, Document, Type, NoSession, NoDocument,
          MaxTyped,      \* bound: values of numbers typed by hand
          MaxRequests    \* bound: requests

VARIABLES document,      \* documents: status, document_type, number
          sequence,      \* sequence[t] : last_value, 0 where there is no row
          rowLock,       \* rowLock[t] : who holds the row of t's sequence
          documentLock,  \* documentLock[d] : who holds the row of d
          session,
          issued,        \* history: the greatest value generated for each type
          requests       \* how many requests have been made

\* Every type has a prefix, nobody is no session, typed numbers are positive.
ASSUME Naming == "none" \notin Type /\ NoSession \notin Session
ASSUME Bounds == MaxTyped \in Nat \ {0} /\ MaxRequests \in Nat

vars == <<document, sequence, rowLock, documentLock, session, issued, requests>>
-----------------------------------------------------------------------------
\* A number with a prefix and a numeric suffix; other texts are never reserved.
Number == [prefix : Type, value : Nat]
Typed == [prefix : Type, value : 1 .. MaxTyped]
Generate == [prefix |-> "none", value |-> 0]    \* the number is left empty

NoNumber == Generate
\* own: whether the number went through the sequence of its prefix.
Absent == [status |-> "absent", type |-> "none", number |-> NoNumber, own |-> FALSE]
Row == {Absent} \cup [status : {"draft", "posted"}, type : Type,
                      number : Number, own : BOOLEAN]

Idle == [pc |-> "idle", op |-> "none", document |-> NoDocument, type |-> "none",
         ask |-> NoNumber, initial |-> 0, number |-> NoNumber, value |-> 0]

TypeOK ==
  /\ document \in [Document -> Row]
  /\ sequence \in [Type -> Nat]
  /\ rowLock \in [Type -> Session \cup {NoSession}]
  /\ documentLock \in [Document -> Session \cup {NoSession}]
  /\ issued \in [Type -> Nat] /\ requests \in 0 .. MaxRequests
  /\ \A s \in Session : session[s].pc \in {"idle", "number", "write"}

Greatest(values) == Max({0} \cup values)

\* The values of the documents of type t that carry its prefix.
Numbered(t) == {document[d].number.value :
                  d \in {e \in Document : document[e].type = t /\ document[e].number.prefix = t}}

\* Sequences as the migration leaves them: at the greatest number of each type.
Init ==
  /\ document \in [Document -> {Absent} \cup
                     {[status |-> st, type |-> t, own |-> TRUE,
                       number |-> [prefix |-> t, value |-> MaxTyped]] :
                        st \in {"draft", "posted"}, t \in Type}]
  /\ Cardinality({d \in Document : document[d] # Absent}) <= 1
  /\ sequence = [t \in Type |-> Greatest(Numbered(t))]
  /\ rowLock = [t \in Type |-> NoSession]
  /\ documentLock = [d \in Document |-> NoSession]
  /\ session = [s \in Session |-> Idle]
  /\ issued = [t \in Type |-> 0] /\ requests = 0
-----------------------------------------------------------------------------
Free(lock, s) == lock \in {s, NoSession}
Unlock(lock, s) == [x \in DOMAIN lock |-> IF lock[x] = s THEN NoSession ELSE lock[x]]

\* Commit or rollback: the locks go.
End(s) ==
  /\ rowLock' = Unlock(rowLock, s)
  /\ documentLock' = Unlock(documentLock, s)
  /\ session' = [session EXCEPT ![s] = Idle]

\* The request is turned down, but its transaction stays open.
RollbackNot(s) ==
  /\ session' = [session EXCEPT ![s] = Idle]
  /\ UNCHANGED <<document, sequence, rowLock, documentLock, issued, requests>>
Rollback(s) == End(s) /\ UNCHANGED <<document, sequence, issued, requests>>

\* What the sequence of t would start with, if it had no row.
InitialValue(t) == IF sequence[t] = 0 THEN Greatest(Numbered(t)) + 1 ELSE 1

\* A request reads what it needs and is about to number: a new document, a draft
\* whose header changes (read without a lock), a posted document to correct
\* (read with one).
Request(s, op, d) ==
  /\ session[s].pc = "idle" /\ requests < MaxRequests
  /\ CASE op = "create" -> /\ document[d] = Absent
                           /\ \A u \in Session : session[u].document # d   \* a fresh id
       [] op = "header" -> document[d].status = "draft"
       [] op = "repost" -> document[d].status = "posted" /\ documentLock[d] = NoSession
  /\ \E t \in Type, ask \in Typed \cup {Generate} :
       session' = [session EXCEPT ![s] =
         [Idle EXCEPT !.pc = "number", !.op = op, !.document = d, !.type = t, !.ask = ask,
                      !.initial = InitialValue(t)]]
  /\ requests' = requests + 1
  /\ documentLock' = [documentLock EXCEPT ![d] = IF op = "repost" THEN s ELSE @]
  /\ UNCHANGED <<document, sequence, rowLock, issued>>

\* The next value of a sequence: of a new row, or after the one that is there by
\* now.
Upserted(last, initial) == IF last = 0 THEN initial ELSE last + 1

\* The sequence is set to the typed value, also below the one it had.
ReservedBlindly(last, value) == value
\* A typed value only ever raises the sequence.
Reserved(last, value) == Greatest({last, value})

Asking(s, t) == session[s].pc = "number" /\ session[s].type = t

\* The row of the sequence is written; the transaction holds it from here on.
TakeValue(s, value, number) ==
  /\ session' = [session EXCEPT ![s].pc = "write", ![s].value = value, ![s].number = number]
  /\ rowLock' = [rowLock EXCEPT ![session[s].type] = s]
  /\ UNCHANGED <<document, sequence, documentLock, issued, requests>>

GenerateNumber(s, t) ==
  /\ Asking(s, t) /\ session[s].ask = Generate
  /\ Free(rowLock[t], s)
  /\ LET value == Upserted(sequence[t], session[s].initial)
     IN  TakeValue(s, value, [prefix |-> t, value |-> value])

ReserveNumber(s, t) ==
  /\ Asking(s, t) /\ session[s].ask.prefix = t
  /\ Free(rowLock[t], s)
  /\ TakeValue(s, Reserved(sequence[t], session[s].ask.value), session[s].ask)

\* A number with another type's prefix is taken as it is.
KeepNumber(s, t) ==
  /\ Asking(s, t) /\ session[s].ask # Generate /\ session[s].ask.prefix # t
  /\ session' = [session EXCEPT ![s].pc = "write", ![s].number = session[s].ask]
  /\ UNCHANGED <<document, sequence, rowLock, documentLock, issued, requests>>

\* uq documents.number
Taken(s) == \E e \in Document \ {session[s].document} : document[e].number = session[s].number

\* The document may have gone since it was read.
Gone(s) == session[s].op # "create" /\ document[session[s].document] = Absent

Write(s) ==
  LET v == session[s]  d == v.document
  IN  /\ v.pc = "write" /\ Free(documentLock[d], s)
      /\ ~ Taken(s) /\ ~ Gone(s)
      /\ document' = [document EXCEPT ![d] =
           [status |-> IF v.op = "create" THEN "draft" ELSE @.status,
            type |-> v.type, number |-> v.number, own |-> v.number.prefix = v.type]]
      /\ sequence' = IF v.value = 0 THEN sequence ELSE [sequence EXCEPT ![v.type] = v.value]
      /\ issued' = IF v.ask = Generate THEN [issued EXCEPT ![v.type] = v.value] ELSE issued
      /\ End(s)
      /\ UNCHANGED requests

\* IntegrityError, or the row to update is not there any more.
Refuse(s) ==
  /\ session[s].pc = "write" /\ Free(documentLock[session[s].document], s)
  /\ Taken(s) \/ Gone(s)
  /\ Rollback(s)

\* Two transactions that wait for each other: the database aborts one.
WaitsFor(s, u) ==
  \/ session[s].pc = "number" /\ session[s].ask.prefix \in {"none", session[s].type}
       /\ rowLock[session[s].type] = u
  \/ session[s].pc = "write" /\ documentLock[session[s].document] = u
Deadlocked(s) == \E u \in Session \ {s} : WaitsFor(s, u) /\ WaitsFor(u, s)
Victim(s) == Deadlocked(s) /\ Rollback(s)

\* A connection is lost before the commit.
Crash(s) == session[s].pc # "idle" /\ Rollback(s)

\* Requests of other operations, short and without a number.
Post(d) ==
  /\ document[d].status = "draft" /\ documentLock[d] = NoSession
  /\ document' = [document EXCEPT ![d].status = "posted"]
  /\ UNCHANGED <<sequence, rowLock, documentLock, session, issued, requests>>
DeleteDraft(d) ==
  /\ document[d].status = "draft" /\ documentLock[d] = NoSession
  /\ document' = [document EXCEPT ![d] = Absent]
  /\ UNCHANGED <<sequence, rowLock, documentLock, session, issued, requests>>

Step(s) ==
  \/ \E t \in Type : GenerateNumber(s, t) \/ ReserveNumber(s, t) \/ KeepNumber(s, t)
  \/ Write(s) \/ Refuse(s) \/ Victim(s)

Next ==
  \/ \E s \in Session : \/ \E d \in Document, op \in {"create", "header", "repost"} : Request(s, op, d)
                        \/ Step(s) \/ Crash(s)
  \/ \E d \in Document : Post(d) \/ DeleteDraft(d)

Fairness == \A s \in Session : WF_vars(Step(s))
Spec == Init /\ [][Next]_vars /\ Fairness
-----------------------------------------------------------------------------
\* A generated number is above every number the generator gave its type before and
\* above those typed with the type's prefix, so that it meets none of them: though
\* documents are deleted, transactions are rolled back and lower numbers are typed.
GeneratedIsNew ==
  [][\A t \in Type : issued'[t] # issued[t] =>
       /\ issued'[t] > issued[t]
       /\ \A d \in Document : document[d].own /\ document[d].number.prefix = t =>
                                document[d].number.value < issued'[t]]_vars

\* Every request ends, also when a correction and a change of a header wait for
\* each other.
RequestsEnd == \A s \in Session : session[s].pc # "idle" ~> session[s].pc = "idle"
=============================================================================
