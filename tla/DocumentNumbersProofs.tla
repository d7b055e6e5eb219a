------------------------ MODULE DocumentNumbersProofs ------------------------
(* Generated numbers for any sets of requests, documents and types: the row   *)
(* lock of a sequence makes what a transaction has taken from it hold until   *)
(* it writes, and the sequence is never below a number of its type.           *)
EXTENDS DocumentNumbers, TLAPS

\* A request of a session; what it has not got yet is as in Idle.
Asked == [pc : {"idle", "number", "write"}, op : {"none", "create", "header", "repost"},
          document : Document \cup {NoDocument}, type : Type \cup {"none"},
          ask : Typed \cup {Generate}, initial : {0, 1}, number : Number \cup {NoNumber},
          value : Nat]

\* No sequence is below a number of its type.
Covered(d) ==
  document[d] # Absent =>
    /\ document[d].own <=> document[d].number.prefix = document[d].type
    /\ document[d].own => document[d].number.value \in 1 .. sequence[document[d].type]

\* What a request knows: a value is taken under the lock of the sequence's row.
Taking(s) ==
  LET v == session[s]
  IN  /\ v.pc = "idle" \/ (v.type \in Type /\ v.document \in Document)
      /\ v.pc = "number" => v.initial = 1 /\ v.value = 0
      /\ v.pc = "write" =>
           /\ v.number \in Number
           /\ v.value # 0 => rowLock[v.type] = s /\ v.value >= sequence[v.type]
           /\ v.number.prefix = v.type => v.number.value \in 1 .. v.value
           /\ v.ask = Generate => v.value > sequence[v.type]

\* The inductive invariant.
Inv ==
  /\ document \in [Document -> Row]
  /\ sequence \in [Type -> Nat] /\ issued \in [Type -> Nat]
  /\ rowLock \in [Type -> Session \cup {NoSession}]
  /\ session \in [Session -> Asked]
  /\ \A t \in Type : issued[t] <= sequence[t]
  /\ \A d \in Document : Covered(d)
  /\ \A s \in Session : Taking(s)
-----------------------------------------------------------------------------
\* Of several values Greatest takes one that no other exceeds.
LEMMA GreatestOfTwo ==
  ASSUME NEW a \in Nat, NEW b \in Nat
  PROVE  Greatest({a, b}) \in Nat /\ Greatest({a, b}) >= a /\ Greatest({a, b}) >= b
<1>1. \E x \in {0} \cup {a, b} : \A y \in {0} \cup {a, b} : x >= y
  <2>1. CASE a >= b
    BY <2>1
  <2>2. CASE b >= a
    BY <2>2
  <2>3. QED
    BY <2>1, <2>2
<1>2. QED
  BY <1>1 DEF Greatest, Max

\* Without values it is zero.
LEMMA GreatestOfNone == Greatest({}) = 0
  BY DEF Greatest, Max

\* A document that is absent has no type.
LEMMA AbsentHasNoType ==
  Absent.type \notin Type
<1>1. Absent.type = "none"
  BY DEF Absent
<1>2. QED
  BY <1>1, Naming

\* A sequence without a row has no numbers of its type to start after.
LEMMA StartsAtOne ==
  ASSUME Inv, NEW t \in Type PROVE InitialValue(t) = 1
<1>1. CASE sequence[t] # 0
  BY <1>1 DEF InitialValue
<1>2. CASE sequence[t] = 0
  <2>1. ASSUME NEW d \in Document, document[d].type = t, document[d].number.prefix = t
        PROVE  FALSE
    <3>1. document[d] # Absent
      BY <2>1, AbsentHasNoType
    <3>2. document[d].number.value \in 1 .. sequence[t]
      BY <2>1, <3>1 DEF Inv, Covered
    <3>3. QED
      BY <1>2, <3>2
  <2>2. Numbered(t) = {}
    BY <2>1 DEF Numbered
  <2>3. QED
    BY <1>2, <2>2, GreatestOfNone DEF InitialValue
<1>3. QED
  BY <1>1, <1>2
-----------------------------------------------------------------------------
\* The sequences start at the numbers the migration has found.
LEMMA InitInv == ASSUME Init PROVE Inv
<1> DEFINE First == [status : {"draft", "posted"}, type : Type, own : {TRUE},
                     number : [prefix : Type, value : {MaxTyped}]]
           Old(st, t) == [status |-> st, type |-> t, own |-> TRUE,
                          number |-> [prefix |-> t, value |-> MaxTyped]]
<1>1. \A d \in Document :
        document[d] = Absent \/ (document[d] \in First /\ document[d].number.prefix = document[d].type)
  <2> SUFFICES ASSUME NEW d \in Document, document[d] # Absent
               PROVE  document[d] \in First /\ document[d].number.prefix = document[d].type
    OBVIOUS
  <2>1. \E st \in {"draft", "posted"}, t \in Type : document[d] = Old(st, t)
    BY DEF Init
  <2>2. PICK st \in {"draft", "posted"}, t \in Type : document[d] = Old(st, t)
    BY <2>1
  <2>3. QED
    BY <2>2 DEF Old
<1>2. \A t \in Type : Numbered(t) \subseteq {MaxTyped}
  <2> SUFFICES ASSUME NEW t \in Type, NEW d \in Document, document[d].type = t
               PROVE  document[d].number.value = MaxTyped
    BY DEF Numbered
  <2>1. document[d] # Absent
    BY AbsentHasNoType
  <2>2. QED
    BY <1>1, <2>1
<1>3. \A t \in Type : Numbered(t) = {} \/ Numbered(t) = {MaxTyped}
  BY <1>2
<1>4. Greatest({MaxTyped}) \in Nat /\ Greatest({MaxTyped}) >= MaxTyped
  <2>1. {MaxTyped} = {MaxTyped, MaxTyped}
    OBVIOUS
  <2>2. QED
    BY <2>1, GreatestOfTwo, Bounds
<1>5. \A t \in Type : Greatest(Numbered(t)) \in Nat
  BY <1>3, <1>4, GreatestOfNone
<1>6. sequence \in [Type -> Nat] /\ issued \in [Type -> Nat]
  BY <1>5 DEF Init
<1>7. \A t \in Type : issued[t] <= sequence[t]
  BY <1>6 DEF Init
<1>8. \A d \in Document : Covered(d)
  <2> SUFFICES ASSUME NEW d \in Document, document[d] # Absent
               PROVE  /\ document[d].own <=> document[d].number.prefix = document[d].type
                      /\ document[d].number.value \in 1 .. sequence[document[d].type]
    BY DEF Covered
  <2> DEFINE t == document[d].type
  <2>1. document[d] \in First /\ document[d].number.prefix = t
    BY <1>1
  <2>2. MaxTyped \in Numbered(t) /\ t \in Type
    BY <2>1 DEF Numbered
  <2>3. Numbered(t) = {MaxTyped}
    BY <1>3, <2>2
  <2>4. sequence[t] >= MaxTyped
    BY <1>4, <2>2, <2>3 DEF Init
  <2> HIDE DEF t
  <2>5. document[d].number.value \in 1 .. sequence[t]
    <3>1. document[d].number.value = MaxTyped
      BY <2>1
    <3>2. sequence[t] \in Nat
      BY <1>6, <2>2
    <3>3. QED
      BY <2>4, <3>1, <3>2, Bounds
  <2>6. document[d].own = TRUE
    BY <2>1
  <2>7. document[d].own <=> document[d].number.prefix = document[d].type
    <3>1. document[d].own
      BY <2>6, Zenon
    <3>2. QED
      BY <2>1, <3>1, Zenon DEF t
  <2>8. QED
    BY <2>5, <2>7, Zenon DEF t
<1>9. document \in [Document -> Row]
  <2>1. \A d \in Document : document[d] \in Row
    BY <1>1, Bounds DEF Row, Number
  <2>2. QED
    BY <2>1 DEF Init
<1>10. session \in [Session -> Asked] /\ rowLock \in [Type -> Session \cup {NoSession}]
  BY DEF Init, Asked, Idle, NoNumber, Generate
<1>11. \A s \in Session : Taking(s)
  BY DEF Init, Taking, Idle
<1>12. QED
  BY <1>6, <1>7, <1>8, <1>9, <1>10, <1>11 DEF Inv
-----------------------------------------------------------------------------
\* Steps of requests before they write, and requests that end without it.
LEMMA RowsKept ==
  ASSUME Inv, UNCHANGED <<document, sequence, issued>>,
         rowLock' \in [Type -> Session \cup {NoSession}],
         session' \in [Session -> Asked],
         \A s \in Session : Taking(s)'
  PROVE  Inv'
<1>1. \A d \in Document : Covered(d)'
  BY DEF Inv, Covered
<1>2. QED
  BY <1>1 DEF Inv

\* A request that begins knows nothing of its sequence yet.
LEMMA RequestKeeps ==
  ASSUME Inv, NEW s \in Session, NEW d \in Document,
         NEW op \in {"create", "header", "repost"}, Request(s, op, d)
  PROVE  Inv'
<1>1. PICK t \in Type, ask \in Typed \cup {Generate} :
        session' = [session EXCEPT ![s] =
          [Idle EXCEPT !.pc = "number", !.op = op, !.document = d, !.type = t, !.ask = ask,
                       !.initial = InitialValue(t)]]
  BY DEF Request
<1> DEFINE r == [Idle EXCEPT !.pc = "number", !.op = op, !.document = d, !.type = t, !.ask = ask,
                            !.initial = InitialValue(t)]
<1>2. InitialValue(t) = 1
  BY StartsAtOne
<1>3. r \in Asked
  BY <1>2 DEF Asked, Idle, NoNumber, Generate
<1>4. r.pc = "number" /\ r.type \in Type /\ r.document \in Document
      /\ r.initial = 1 /\ r.value = 0
  BY <1>2 DEF Idle
<1> HIDE DEF r
<1>5. session' \in [Session -> Asked] /\ session'[s] = r
      /\ \A u \in Session \ {s} : session'[u] = session[u]
  BY <1>1, <1>3 DEF Inv, r
<1>6. UNCHANGED <<document, sequence, rowLock, issued>>
  BY DEF Request
<1>7. \A u \in Session : Taking(u)'
  BY <1>4, <1>5, <1>6 DEF Inv, Taking
<1>8. QED
  BY <1>5, <1>6, <1>7, RowsKept DEF Inv

\* A value that is taken under the lock of the row is not below the sequence.
LEMMA TakeKeeps ==
  ASSUME Inv, NEW s \in Session, NEW t \in Type, Asking(s, t), Free(rowLock[t], s),
         NEW value \in Nat, NEW number \in Number, TakeValue(s, value, number),
         value >= sequence[t],
         number.prefix = t => number.value \in 1 .. value,
         session[s].ask = Generate => value > sequence[t]
  PROVE  Inv'
<1> DEFINE r == [session[s] EXCEPT !.pc = "write", !.value = value, !.number = number]
<1>1. session[s] \in Asked /\ session[s].pc = "number" /\ session[s].type = t
      /\ session[s].document \in Document
  BY DEF Inv, Asking, Taking
<1>2. session' = [session EXCEPT ![s] = r]
  BY <1>1 DEF TakeValue, Inv, Asked
<1>3. /\ r \in Asked /\ r.pc = "write" /\ r.type = t /\ r.value = value /\ r.number = number
      /\ r.ask = session[s].ask /\ r.document \in Document
  BY <1>1 DEF Asked
<1> HIDE DEF r
<1>4. session' \in [Session -> Asked] /\ session'[s] = r
      /\ \A u \in Session \ {s} : session'[u] = session[u]
  BY <1>2, <1>3 DEF Inv
<1>5. /\ rowLock' = [rowLock EXCEPT ![t] = s] /\ UNCHANGED <<document, sequence, issued>>
  BY <1>1 DEF TakeValue
<1>6. /\ rowLock' \in [Type -> Session \cup {NoSession}] /\ rowLock'[t] = s
      /\ \A x \in Type \ {t} : rowLock'[x] = rowLock[x]
  BY <1>5 DEF Inv
<1>7. ASSUME NEW u \in Session \ {s} PROVE Taking(u)'
  <2>1. Taking(u) /\ session'[u] = session[u]
    BY <1>4 DEF Inv
  <2>2. rowLock[t] # u
    BY Naming DEF Free
  <2>3. QED
    BY <1>5, <1>6, <2>1, <2>2 DEF Taking
<1>8. Taking(s)'
  BY <1>3, <1>4, <1>5, <1>6 DEF Taking
<1>9. QED
  BY <1>4, <1>5, <1>6, <1>7, <1>8, RowsKept

\* The next value is above the sequence, a reserved one at or above it, and a
\* number with another prefix takes none.
LEMMA GenerateKeeps ==
  ASSUME Inv, NEW s \in Session, NEW t \in Type, GenerateNumber(s, t) PROVE Inv'
<1> DEFINE value == Upserted(sequence[t], session[s].initial)
<1>1. sequence[t] \in Nat /\ session[s].initial = 1 /\ Asking(s, t)
  BY DEF Inv, Taking, GenerateNumber, Asking
<1>2. value \in Nat /\ value > sequence[t] /\ value \in 1 .. value
  BY <1>1 DEF Upserted
<1>3. TakeValue(s, value, [prefix |-> t, value |-> value]) /\ Free(rowLock[t], s)
  BY DEF GenerateNumber
<1> HIDE DEF value
<1>4. [prefix |-> t, value |-> value] \in Number
  BY <1>2 DEF Number
<1>5. QED
  BY <1>1, <1>2, <1>3, <1>4, TakeKeeps

LEMMA ReserveKeeps ==
  ASSUME Inv, NEW s \in Session, NEW t \in Type, ReserveNumber(s, t) PROVE Inv'
<1> DEFINE ask == session[s].ask
           value == Reserved(sequence[t], ask.value)
<1>1. sequence[t] \in Nat /\ Asking(s, t) /\ ask \in Typed \cup {Generate} /\ ask.prefix = t
  BY DEF Inv, ReserveNumber, Asked
<1>2. ask # Generate
  BY <1>1, Naming DEF Generate
<1>3. ask \in Number /\ ask.value \in Nat \ {0}
  BY <1>1, <1>2, Bounds DEF Typed, Number
<1>4. TakeValue(s, value, ask) /\ Free(rowLock[t], s)
  BY DEF ReserveNumber
<1> HIDE DEF ask
<1>5. value \in Nat /\ value >= sequence[t] /\ ask.value \in 1 .. value
  BY <1>1, <1>3, GreatestOfTwo DEF Reserved
<1> HIDE DEF value
<1>6. session[s].ask # Generate
  BY <1>2 DEF ask
<1>7. QED
  BY <1>1, <1>3, <1>4, <1>5, <1>6, TakeKeeps

LEMMA KeepKeeps ==
  ASSUME Inv, NEW s \in Session, NEW t \in Type, KeepNumber(s, t) PROVE Inv'
<1> DEFINE ask == session[s].ask
           r == [session[s] EXCEPT !.pc = "write", !.number = ask]
<1>1. /\ session[s] \in Asked /\ session[s].type = t /\ session[s].value = 0
      /\ session[s].document \in Document
      /\ ask \in Typed \cup {Generate} /\ ask # Generate /\ ask.prefix # t
  BY DEF Inv, KeepNumber, Asking, Taking, Asked
<1>2. ask \in Number
  BY <1>1, Naming DEF Typed, Number
<1>3. session' = [session EXCEPT ![s] = r] /\ UNCHANGED <<document, sequence, rowLock, issued>>
  BY <1>1 DEF KeepNumber, Inv, Asked
<1>4. /\ r \in Asked /\ r.pc = "write" /\ r.type = t /\ r.value = 0 /\ r.number = ask
      /\ r.ask = ask /\ r.document \in Document
  BY <1>1, <1>2 DEF Asked
<1> HIDE DEF r, ask
<1>5. session' \in [Session -> Asked] /\ session'[s] = r
      /\ \A u \in Session \ {s} : session'[u] = session[u]
  BY <1>3, <1>4 DEF Inv
<1>6. \A u \in Session : Taking(u)'
  BY <1>1, <1>2, <1>3, <1>4, <1>5 DEF Inv, Taking
<1>7. QED
  BY <1>3, <1>5, <1>6, RowsKept DEF Inv
-----------------------------------------------------------------------------
\* A request that ends gives back its locks, and those of no other.
LEMMA Ended ==
  ASSUME Inv, NEW s \in Session, End(s)
  PROVE  /\ rowLock' \in [Type -> Session \cup {NoSession}]
         /\ \A t \in Type, u \in Session \ {s} : rowLock[t] = u => rowLock'[t] = u
         /\ session' \in [Session -> Asked] /\ session'[s] = Idle
         /\ \A u \in Session \ {s} : session'[u] = session[u]
<1>1. Idle \in Asked
  BY DEF Idle, Asked, NoNumber, Generate
<1>2. session' = [session EXCEPT ![s] = Idle] /\ rowLock' = Unlock(rowLock, s)
  BY DEF End
<1>3. rowLock' = [t \in Type |-> IF rowLock[t] = s THEN NoSession ELSE rowLock[t]]
  BY <1>2 DEF Unlock, Inv
<1>4. /\ rowLock' \in [Type -> Session \cup {NoSession}]
      /\ \A t \in Type, u \in Session \ {s} : rowLock[t] = u => rowLock'[t] = u
  BY <1>3 DEF Inv
<1>5. QED
  BY <1>1, <1>2, <1>4 DEF Inv

\* A request that is turned down, aborted or lost.
LEMMA RollbackKeeps ==
  ASSUME Inv, NEW s \in Session, Rollback(s) PROVE Inv'
<1>1. End(s) /\ UNCHANGED <<document, sequence, issued>>
  BY DEF Rollback
<1>2. Taking(s)'
  BY <1>1, Ended DEF Taking, Idle
<1>3. \A u \in Session \ {s} : Taking(u)'
  BY <1>1, Ended DEF Taking, Inv
<1>4. QED
  BY <1>1, <1>2, <1>3, Ended, RowsKept

\* What a request writes: the row with its number, the sequence with its value.
LEMMA Written ==
  ASSUME Inv, NEW s \in Session, Write(s)
  PROVE  \E t \in Type, d \in Document, value \in Nat, number \in Number, status \in {"draft", "posted"} :
           /\ t = session[s].type /\ value = session[s].value /\ number = session[s].number
           /\ document' = [document EXCEPT ![d] = [status |-> status, type |-> t, number |-> number,
                                                   own |-> number.prefix = t]]
           /\ sequence' = IF value = 0 THEN sequence ELSE [sequence EXCEPT ![t] = value]
           /\ issued' = IF session[s].ask = Generate THEN [issued EXCEPT ![t] = value] ELSE issued
           /\ value # 0 => rowLock[t] = s /\ value >= sequence[t]
           /\ number.prefix = t => number.value \in 1 .. value
           /\ session[s].ask = Generate => value > sequence[t]
<1> DEFINE v == session[s]
           status == IF v.op = "create" THEN "draft" ELSE document[v.document].status
<1>1. v \in Asked /\ v.pc = "write" /\ Taking(s)
  BY DEF Inv, Write
<1>2. v.type \in Type /\ v.document \in Document /\ v.value \in Nat /\ v.number \in Number
  BY <1>1 DEF Taking, Asked
<1>3. status \in {"draft", "posted"}
  <2>1. v.op # "create" => document[v.document] # Absent
    BY DEF Write, Gone
  <2>2. document[v.document] \in Row
    BY <1>2 DEF Inv
  <2>3. QED
    BY <2>1, <2>2 DEF Row
<1>4. document' = [document EXCEPT ![v.document] =
        [status |-> status, type |-> v.type, number |-> v.number, own |-> v.number.prefix = v.type]]
  BY <1>2 DEF Write, Inv
<1>5. /\ sequence' = IF v.value = 0 THEN sequence ELSE [sequence EXCEPT ![v.type] = v.value]
      /\ issued' = IF v.ask = Generate THEN [issued EXCEPT ![v.type] = v.value] ELSE issued
  BY DEF Write
<1>6. /\ v.value # 0 => rowLock[v.type] = s /\ v.value >= sequence[v.type]
      /\ v.number.prefix = v.type => v.number.value \in 1 .. v.value
      /\ v.ask = Generate => v.value > sequence[v.type]
  BY <1>1 DEF Taking
<1> HIDE DEF status
<1>7. QED
  BY <1>2, <1>3, <1>4, <1>5, <1>6

\* The number that is written is covered by the sequence that is written with it.
LEMMA WriteKeeps ==
  ASSUME Inv, NEW s \in Session, Write(s) PROVE Inv'
<1>1. PICK t \in Type, d \in Document, value \in Nat, number \in Number, status \in {"draft", "posted"} :
        /\ t = session[s].type /\ value = session[s].value /\ number = session[s].number
        /\ document' = [document EXCEPT ![d] = [status |-> status, type |-> t, number |-> number,
                                                own |-> number.prefix = t]]
        /\ sequence' = IF value = 0 THEN sequence ELSE [sequence EXCEPT ![t] = value]
        /\ issued' = IF session[s].ask = Generate THEN [issued EXCEPT ![t] = value] ELSE issued
        /\ value # 0 => rowLock[t] = s /\ value >= sequence[t]
        /\ number.prefix = t => number.value \in 1 .. value
        /\ session[s].ask = Generate => value > sequence[t]
  BY Written
<1> DEFINE row == [status |-> status, type |-> t, number |-> number, own |-> number.prefix = t]
<1>2. row \in Row
  BY <1>1 DEF Row
<1>3. /\ document' \in [Document -> Row] /\ document'[d] = row
      /\ \A e \in Document \ {d} : document'[e] = document[e]
  <2> HIDE DEF row
  <2> QED BY <1>1, <1>2 DEF Inv, row
<1>4. /\ sequence' \in [Type -> Nat] /\ sequence'[t] = IF value = 0 THEN sequence[t] ELSE value
      /\ \A x \in Type \ {t} : sequence'[x] = sequence[x]
  BY <1>1 DEF Inv
<1>5. \A x \in Type : sequence'[x] >= sequence[x] /\ sequence[x] \in Nat
  BY <1>1, <1>4 DEF Inv
<1>6. issued' \in [Type -> Nat] /\ \A x \in Type : issued'[x] <= sequence'[x]
  BY <1>1, <1>4, <1>5 DEF Inv
<1>7. ASSUME NEW e \in Document PROVE Covered(e)'
  <2>1. CASE e = d
    <3>1. row.type = t /\ row.number = number
      OBVIOUS
    <3>2. row.own <=> number.prefix = t
      BY Zenon
    <3>3. number.prefix = t => number.value \in 1 .. sequence'[t]
      BY <1>1, <1>4
    <3> HIDE DEF row
    <3>4. QED
      BY <1>3, <2>1, <3>1, <3>2, <3>3 DEF Covered
  <2>2. CASE e # d
    <3>1. document[e] # Absent => document[e].type \in Type
      BY DEF Inv, Row
    <3>2. document[e] # Absent =>
            1 .. sequence[document[e].type] \subseteq 1 .. sequence'[document[e].type]
      BY <1>4, <1>5, <3>1
    <3>3. Covered(e) /\ document'[e] = document[e]
      BY <1>3, <2>2 DEF Inv
    <3>4. QED
      BY <3>2, <3>3, Zenon DEF Covered
  <2>3. QED
    BY <2>1, <2>2
<1>8. End(s)
  BY DEF Write
<1>9. ASSUME NEW u \in Session \ {s} PROVE Taking(u)'
  <2>1. Taking(u) /\ session'[u] = session[u]
    BY <1>8, Ended DEF Inv
  <2>2. ASSUME session[u].pc = "write", session[u].value # 0
        PROVE  /\ rowLock'[session[u].type] = u
               /\ sequence'[session[u].type] = sequence[session[u].type]
    <3>1. session[u].type \in Type /\ rowLock[session[u].type] = u
      BY <2>1, <2>2 DEF Taking
    <3>2. QED
      BY <1>1, <1>4, <1>8, <3>1, Ended
  <2>3. session[u].pc = "write" => session[u].type \in Type /\ session[u].value \in Nat
    BY <2>1 DEF Taking, Inv, Asked
  <2>4. QED
    BY <1>5, <2>1, <2>2, <2>3 DEF Taking
<1>10. Taking(s)'
  BY <1>8, Ended DEF Taking, Idle
<1>11. QED
  BY <1>3, <1>4, <1>6, <1>7, <1>8, <1>9, <1>10, Ended DEF Inv
-----------------------------------------------------------------------------
\* Posting keeps the number, deletion frees it; the sequences stay.
LEMMA OthersKeep ==
  ASSUME Inv, NEW d \in Document, Post(d) \/ DeleteDraft(d) PROVE Inv'
<1>1. document[d].status = "draft" /\ document[d] \in Row
  BY DEF Post, DeleteDraft, Inv
<1>2. UNCHANGED <<sequence, rowLock, session, issued>>
  BY DEF Post, DeleteDraft
<1> DEFINE posted == [document[d] EXCEPT !.status = "posted"]
<1>3. document[d] # Absent
  BY <1>1 DEF Absent
<1>4. posted \in Row /\ posted.type = document[d].type /\ posted.number = document[d].number
      /\ posted.own = document[d].own
  BY <1>1, <1>3 DEF Row
<1>5. document' = [document EXCEPT ![d] = posted] \/ document' = [document EXCEPT ![d] = Absent]
  BY DEF Post, DeleteDraft, Inv
<1>6. Absent \in Row
  BY DEF Row
<1> HIDE DEF posted
<1>7. /\ document' \in [Document -> Row] /\ document'[d] \in {posted, Absent}
      /\ \A e \in Document \ {d} : document'[e] = document[e]
  BY <1>4, <1>5, <1>6 DEF Inv
<1>8. Covered(d)'
  <2>1. CASE document'[d] = Absent
    BY <2>1 DEF Covered
  <2>2. CASE document'[d] = posted
    <3>1. Covered(d)
      BY DEF Inv
    <3>2. QED
      BY <1>2, <1>3, <1>4, <2>2, <3>1, Zenon DEF Covered
  <2>3. QED
    BY <1>7, <2>1, <2>2
<1>9. \A e \in Document \ {d} : Covered(e)'
  BY <1>2, <1>7 DEF Inv, Covered
<1>10. \A s \in Session : Taking(s)'
  BY <1>2 DEF Inv, Taking
<1>11. QED
  BY <1>2, <1>7, <1>8, <1>9, <1>10 DEF Inv

\* The invariant is inductive.
LEMMA NextKeeps == ASSUME Inv, [Next]_vars PROVE Inv'
<1>1. ASSUME NEW s \in Session, NEW d \in Document, NEW op \in {"create", "header", "repost"},
             Request(s, op, d)
      PROVE  Inv'
  BY <1>1, RequestKeeps
<1>2. ASSUME NEW s \in Session, Step(s) PROVE Inv'
  <2>1. ASSUME NEW t \in Type, GenerateNumber(s, t) \/ ReserveNumber(s, t) \/ KeepNumber(s, t)
        PROVE  Inv'
    BY <2>1, GenerateKeeps, ReserveKeeps, KeepKeeps
  <2>2. CASE Write(s)
    BY <2>2, WriteKeeps
  <2>3. CASE Refuse(s) \/ Victim(s)
    BY <2>3, RollbackKeeps DEF Refuse, Victim
  <2>4. QED
    BY <1>2, <2>1, <2>2, <2>3 DEF Step
<1>3. ASSUME NEW s \in Session, Crash(s) PROVE Inv'
  BY <1>3, RollbackKeeps DEF Crash
<1>4. ASSUME NEW d \in Document, Post(d) \/ DeleteDraft(d) PROVE Inv'
  BY <1>4, OthersKeep
<1>5. CASE UNCHANGED vars
  <2>1. UNCHANGED <<document, sequence, issued, rowLock, session>>
    BY <1>5 DEF vars
  <2>2. /\ rowLock' \in [Type -> Session \cup {NoSession}]
        /\ session' \in [Session -> Asked]
        /\ \A s \in Session : Taking(s)'
    BY <2>1 DEF Inv, Taking
  <2>3. QED
    BY <2>1, <2>2, RowsKept
<1>6. QED
  BY <1>1, <1>2, <1>3, <1>4, <1>5 DEF Next

\* A generated number is above all numbers its sequence knows when it is written.
LEMMA WriteIsNew ==
  ASSUME Inv, NEW s \in Session, Write(s), NEW t \in Type, issued'[t] # issued[t]
  PROVE  /\ issued'[t] > issued[t]
         /\ \A d \in Document : document[d].own /\ document[d].number.prefix = t =>
                                  document[d].number.value < issued'[t]
<1>1. /\ t = session[s].type /\ session[s].value > sequence[t]
      /\ issued'[t] = session[s].value /\ session[s].value \in Nat
  BY Written DEF Inv
<1>2. sequence[t] \in Nat /\ issued[t] \in Nat /\ issued[t] <= sequence[t]
  BY DEF Inv
<1>3. ASSUME NEW d \in Document, document[d].own, document[d].number.prefix = t
      PROVE  document[d].number.value \in 1 .. sequence[t]
  <2>1. Covered(d)
    BY DEF Inv
  <2>2. document[d] # Absent
    <3>1. Absent.number.prefix = "none"
      BY DEF Absent, NoNumber, Generate
    <3>2. QED
      BY <1>3, <3>1, Naming
  <2>3. document[d].number.prefix = document[d].type
    BY <1>3, <2>1, <2>2, Zenon DEF Covered
  <2>4. QED
    BY <1>3, <2>1, <2>2, <2>3, Zenon DEF Covered
<1>4. ASSUME NEW d \in Document, document[d].own, document[d].number.prefix = t
      PROVE  document[d].number.value < issued'[t]
  BY <1>1, <1>2, <1>3, <1>4
<1>5. QED
  BY <1>1, <1>2, <1>4
-----------------------------------------------------------------------------
\* What the inductive invariant leaves to say of types: who holds the documents,
\* and how many requests were made.
Held ==
  /\ documentLock \in [Document -> Session \cup {NoSession}]
  /\ requests \in 0 .. MaxRequests

\* Requests take the lock of one document and give back all they have.
LEMMA HeldKept == ASSUME Held, [Next]_vars PROVE Held'
<1> DEFINE Owners == Session \cup {NoSession}
<1>1. ASSUME NEW s \in Session, NEW d \in Document, NEW op \in {"create", "header", "repost"},
             Request(s, op, d)
      PROVE  Held'
  <2>1. documentLock' \in [Document -> Owners]
    BY <1>1 DEF Request, Held
  <2>2. requests' \in 0 .. MaxRequests
    BY <1>1, Bounds DEF Request, Held
  <2>3. QED
    BY <2>1, <2>2 DEF Held
<1>2. ASSUME NEW s \in Session, End(s), UNCHANGED requests PROVE Held'
  <2>1. documentLock' = [x \in Document |-> IF documentLock[x] = s THEN NoSession ELSE documentLock[x]]
    BY <1>2 DEF End, Unlock, Held
  <2>2. documentLock' \in [Document -> Owners]
    BY <2>1 DEF Held
  <2>3. QED
    BY <1>2, <2>2 DEF Held
<1>3. CASE UNCHANGED <<documentLock, requests>>
  BY <1>3 DEF Held
<1>4. QED
  BY <1>1, <1>2, <1>3 DEF Next, Step, GenerateNumber, ReserveNumber, KeepNumber, TakeValue, Write,
     Refuse, Victim, Crash, Rollback, Post, DeleteDraft, vars

\* The type invariant of numbers, for any requests, documents and types: what a
\* sequence gives is a number, whatever was read of it before (_next_document_number).
THEOREM NumberTypes == Spec => []TypeOK
<1>1. Init => Inv /\ Held
  BY InitInv, Bounds DEF Init, Held
<1>2. Inv /\ Held /\ [Next]_vars => (Inv /\ Held)'
  BY NextKeeps, HeldKept
<1>3. Inv /\ Held => TypeOK
  <2> SUFFICES ASSUME Inv, Held PROVE TypeOK
    OBVIOUS
  <2>1. \A s \in Session : session[s].pc \in {"idle", "number", "write"}
    BY DEF Inv, Asked
  <2>2. QED
    BY <2>1 DEF TypeOK, Inv, Held
<1>4. QED
  BY <1>1, <1>2, <1>3, PTL DEF Spec

\* A generated number is above every number its type was given before, for any
\* requests, documents and types (_next_document_number, _reserve_document_number).
THEOREM NumbersAreNew == Spec => GeneratedIsNew
<1> DEFINE New == \A t \in Type : issued'[t] # issued[t] =>
                    /\ issued'[t] > issued[t]
                    /\ \A d \in Document : document[d].own /\ document[d].number.prefix = t =>
                                             document[d].number.value < issued'[t]
<1>1. Init => Inv
  BY InitInv
<1>2. Inv /\ [Next]_vars => Inv'
  BY NextKeeps
<1>3. Inv /\ [Next]_vars => [New]_vars
  <2> SUFFICES ASSUME Inv, Next, NEW t \in Type, issued'[t] # issued[t]
               PROVE  /\ issued'[t] > issued[t]
                      /\ \A d \in Document : document[d].own /\ document[d].number.prefix = t =>
                                               document[d].number.value < issued'[t]
    OBVIOUS
  <2>1. ASSUME NEW s \in Session, Write(s) PROVE New
    BY <2>1, WriteIsNew
  <2>2. CASE UNCHANGED issued
    BY <2>2
  <2>3. UNCHANGED issued \/ \E s \in Session : Write(s)
    BY DEF Next, Step, Request, GenerateNumber, ReserveNumber, KeepNumber, TakeValue,
           Refuse, Victim, Crash, Rollback, Post, DeleteDraft
  <2>4. QED
    BY <2>1, <2>2, <2>3
<1>4. QED
  BY <1>1, <1>2, <1>3, PTL DEF Spec, GeneratedIsNew
=============================================================================
