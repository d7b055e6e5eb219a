----------------------------- MODULE CashBookProofs -----------------------------
(* Theorems about CashBook for every set of clerks, days and amounts: that    *)
(* the desk was never in debt at any point of the book, that corrections hit  *)
(* their target, that the book implements CashLedger, and that the pages a    *)
(* reader puts together agree with it.                                        *)
EXTENDS CashBook, SumLemmas, SequenceTheorems, TLAPS

\* A writer has the lock, and what it has read is still the book.
WritersCurrent ==
  \A s \in Session : writer[s].active => cashLock = s /\ writer[s].seen = book

\* A payment is posted once: one row of the book is its.
OfOnePayment(rows) ==
  \A i, j \in DOMAIN rows : rows[i].payment /\ rows[j].payment => i = j

CashInv ==
  /\ TypeOK
  /\ {"pc", "balance"} \subseteq DOMAIN page
  /\ WritersCurrent /\ OfOnePayment(book) /\ NeverInDebt
-----------------------------------------------------------------------------
(* Books and their sums *)

Effects(rows) == [i \in DOMAIN rows |-> CashEffect(rows[i])]

LEMMA EffectOfRow ==
  ASSUME NEW o \in Operation
  PROVE  /\ CashEffect(o) \in Int
         /\ BalanceEffect(o) = CashEffect(o)
         /\ o.status = "cancelled" => CashEffect(o) = 0
<1>1. /\ o.status \in {"posted", "cancelled"} /\ o.type \in Type /\ o.amount \in Nat
  BY DEF Operation
<1>2. CASE o.status = "cancelled"
  BY <1>2 DEF CashEffect, BalanceEffect
<1>3. CASE o.status = "posted" /\ o.type = "cash_in"
  BY <1>1, <1>3 DEF CashEffect, BalanceEffect
<1>4. CASE o.status = "posted" /\ o.type = "cash_out"
  BY <1>1, <1>4 DEF CashEffect, BalanceEffect
<1>5. CASE o.status = "posted" /\ o.type = "correction"
  BY <1>1, <1>5 DEF CashEffect, BalanceEffect
<1>6. QED
  BY <1>1, <1>2, <1>3, <1>4, <1>5 DEF Type

LEMMA EffectsOfBook ==
  ASSUME NEW rows \in Seq(Operation)
  PROVE  /\ IsFiniteSet(DOMAIN rows)
         /\ \A i \in DOMAIN rows : i \in Int /\ rows[i] \in Operation /\ rows[i].day \in Int
         /\ \A i \in DOMAIN rows : /\ Effects(rows)[i] = CashEffect(rows[i])
                                   /\ Effects(rows)[i] \in Int
<1>1. DOMAIN rows = 1 .. Len(rows) /\ Len(rows) \in Nat
  OBVIOUS
<1>2. IsFiniteSet(DOMAIN rows)
  BY <1>1, FS_Interval
<1>3. \A i \in DOMAIN rows : i \in Int /\ rows[i] \in Operation /\ rows[i].day \in Int
  <2>1. \A i \in DOMAIN rows : i \in Int /\ rows[i] \in Operation
    BY <1>1
  <2>2. \A o \in Operation : o.day \in Day
    BY DEF Operation
  <2>3. QED
    BY <2>1, <2>2, Dates
<1>4. \A i \in DOMAIN rows : /\ Effects(rows)[i] = CashEffect(rows[i])
                             /\ CashEffect(rows[i]) \in Int
  BY <1>3, EffectOfRow DEF Effects
<1>5. QED
  BY <1>2, <1>3, <1>4

LEMMA BalanceType ==
  ASSUME NEW rows \in Seq(Operation), NEW ids, ids \subseteq DOMAIN rows
  PROVE  /\ IsFiniteSet(ids)
         /\ Balance(ids, rows) = SumFunctionOnSet(Effects(rows), ids)
         /\ Balance(ids, rows) \in Int
<1>1. /\ IsFiniteSet(ids)
      /\ \A i \in ids : Effects(rows)[i] \in Int
  BY EffectsOfBook, FS_Subset
<1>2. Balance(ids, rows) = SumFunctionOnSet(Effects(rows), ids)
  BY DEF Balance, Effects
<1>3. QED
  BY <1>1, <1>2, SumInt

LEMMA BalanceNone == ASSUME NEW rows PROVE Balance({}, rows) = 0
BY SumEmpty DEF Balance

\* get_cash_balance and the running balance of the ledger add up the same.
LEMMA RunningIsBalance ==
  ASSUME NEW rows \in Seq(Operation), NEW i \in DOMAIN rows
  PROVE  RunningBalance(rows, i) = Balance(UpTo(rows, i), rows)
<1> DEFINE f == [j \in DOMAIN rows |-> BalanceEffect(rows[j])]
           S == UpTo(rows, i)
<1>1. S \subseteq DOMAIN rows
  BY DEF UpTo
<1>2. IsFiniteSet(S) /\ Balance(S, rows) = SumFunctionOnSet(Effects(rows), S)
  BY <1>1, BalanceType
<1>3. \A j \in S : Effects(rows)[j] \in Int /\ Effects(rows)[j] = f[j]
  BY <1>1, EffectsOfBook, EffectOfRow
<1>4. RunningBalance(rows, i) = SumFunctionOnSet(f, S)
  BY DEF RunningBalance
<1> HIDE DEF f, S
<1>5. SumFunctionOnSet(Effects(rows), S) = SumFunctionOnSet(f, S)
  BY <1>2, <1>3, SumSame
<1>6. QED
  BY <1>2, <1>4, <1>5 DEF S

\* The order of the ledger is total.
LEMMA BookIsOrdered ==
  ASSUME NEW rows \in Seq(Operation)
  PROVE  /\ \A i, j \in DOMAIN rows : i = j \/ Earlier(rows, i, j) \/ Earlier(rows, j, i)
         /\ \A i, j, k \in DOMAIN rows :
              Earlier(rows, i, j) /\ Earlier(rows, j, k) => Earlier(rows, i, k)
         /\ \A i, j \in DOMAIN rows : Earlier(rows, i, j) => ~ Earlier(rows, j, i) /\ i # j
<1>1. \A i \in DOMAIN rows : i \in Int /\ rows[i].day \in Int
  BY EffectsOfBook
<1>2. \A i, j \in DOMAIN rows : i = j \/ Earlier(rows, i, j) \/ Earlier(rows, j, i)
  BY <1>1 DEF Earlier
<1>3. \A i, j, k \in DOMAIN rows :
        Earlier(rows, i, j) /\ Earlier(rows, j, k) => Earlier(rows, i, k)
  BY <1>1 DEF Earlier
<1>4. \A i, j \in DOMAIN rows : Earlier(rows, i, j) => ~ Earlier(rows, j, i) /\ i # j
  BY <1>1 DEF Earlier
<1>5. QED
  BY <1>2, <1>3, <1>4

\* Of some rows one is the latest: all the others lie before it.
LEMMA Latest ==
  ASSUME NEW rows \in Seq(Operation), NEW S, S \subseteq DOMAIN rows, S # {}
  PROVE  \E j \in S : S \subseteq UpTo(rows, j)
<1> DEFINE T == {S \ UpTo(rows, j) : j \in S}
<1>1. IsFiniteSet(S)
  BY BalanceType
<1>2. PICK x \in T : \A y \in T : y \subseteq x => y = x
  <2>1. T \subseteq SUBSET S /\ T # {}
    OBVIOUS
  <2> HIDE DEF T
  <2>2. QED
    BY <1>1, <2>1, Smallest
<1>3. PICK j \in S : x = S \ UpTo(rows, j)
  BY <1>2
<1>4. ASSUME NEW i \in S, i \notin UpTo(rows, j) PROVE FALSE
  <2>1. Earlier(rows, j, i)
    BY <1>4, BookIsOrdered DEF UpTo
  <2>2. UpTo(rows, j) \subseteq UpTo(rows, i) /\ i \in UpTo(rows, i)
    BY <2>1, BookIsOrdered DEF UpTo
  <2>3. S \ UpTo(rows, i) \subseteq x /\ i \in x /\ i \notin S \ UpTo(rows, i)
    BY <1>3, <1>4, <2>2
  <2>4. S \ UpTo(rows, i) \in T
    OBVIOUS
  <2> HIDE DEF T
  <2>5. QED
    BY <1>2, <2>3, <2>4
<1>5. QED
  BY <1>3, <1>4

\* A book is never in debt if it never is after a posted row: after a cancelled one
\* the balance is that of the row before.
LEMMA NonnegativeMeans ==
  ASSUME NEW rows \in Seq(Operation), Nonnegative(rows)
  PROVE  \A i \in DOMAIN rows : Balance(UpTo(rows, i), rows) >= 0
<1> DEFINE Bad == {i \in DOMAIN rows : ~ (Balance(UpTo(rows, i), rows) >= 0)}
           T == {UpTo(rows, i) : i \in Bad}
<1> SUFFICES ASSUME Bad # {} PROVE FALSE
  OBVIOUS
<1>1. PICK x \in T : \A y \in T : y \subseteq x => y = x
  <2>1. T \subseteq SUBSET DOMAIN rows /\ T # {}
    BY DEF UpTo
  <2>2. IsFiniteSet(DOMAIN rows)
    BY EffectsOfBook
  <2> HIDE DEF T
  <2>3. QED
    BY <2>1, <2>2, Smallest
<1>2. PICK i \in Bad : x = UpTo(rows, i)
  BY <1>1
<1> DEFINE S == UpTo(rows, i) \ {i}
<1>3. /\ i \in DOMAIN rows /\ i \in UpTo(rows, i)
      /\ UpTo(rows, i) \subseteq DOMAIN rows
      /\ S \subseteq DOMAIN rows
  BY DEF UpTo
<1>4. Effects(rows)[i] = 0
  <2>1. rows[i].status # "posted"
    BY <1>2, RunningIsBalance DEF Nonnegative
  <2>2. rows[i] \in Operation /\ Effects(rows)[i] = CashEffect(rows[i])
    BY <1>3, EffectsOfBook
  <2>3. rows[i].status = "cancelled"
    BY <2>1, <2>2 DEF Operation
  <2>4. QED
    BY <2>2, <2>3, EffectOfRow
<1>5. Balance(UpTo(rows, i), rows) = Balance(S, rows) /\ Balance(S, rows) \in Int
  <2>1. \A j \in UpTo(rows, i) : Effects(rows)[j] \in Int
    BY <1>3, EffectsOfBook
  <2>2. /\ IsFiniteSet(UpTo(rows, i))
        /\ Balance(UpTo(rows, i), rows) = SumFunctionOnSet(Effects(rows), UpTo(rows, i))
        /\ Balance(S, rows) = SumFunctionOnSet(Effects(rows), S)
        /\ Balance(S, rows) \in Int
    BY <1>3, BalanceType
  <2>3. SumFunctionOnSet(Effects(rows), UpTo(rows, i))
          = Effects(rows)[i] + SumFunctionOnSet(Effects(rows), S)
    BY <1>3, <2>1, <2>2, SumRemove
  <2> HIDE DEF S
  <2>4. QED
    BY <1>4, <2>2, <2>3
<1>6. Balance(S, rows) >= 0
  <2>1. CASE S = {}
    <3> HIDE DEF S
    <3>1. QED
      BY <2>1, BalanceNone
  <2>2. CASE S # {}
    <3>1. PICK j \in S : S \subseteq UpTo(rows, j)
      <4> HIDE DEF S
      <4>1. QED
        BY <1>3, <2>2, Latest
    <3>2. Earlier(rows, j, i) /\ j \in DOMAIN rows
      BY <3>1 DEF UpTo
    <3>3. UpTo(rows, j) \subseteq S
      BY <1>3, <3>2, BookIsOrdered DEF UpTo
    <3>4. UpTo(rows, j) = S
      BY <3>1, <3>3
    <3>5. j \notin Bad
      <4>1. UpTo(rows, j) \subseteq x /\ UpTo(rows, j) # x
        BY <1>2, <1>3, <3>4
      <4>2. UpTo(rows, j) \notin T
        BY <1>1, <4>1
      <4> HIDE DEF Bad
      <4>3. QED
        BY <4>2
    <3>6. QED
      BY <3>2, <3>4, <3>5
  <2>3. QED
    BY <2>1, <2>2
<1>7. QED
  BY <1>2, <1>5, <1>6
-----------------------------------------------------------------------------
(* The book as a ledger of days *)

Turnover(rows) ==
  [d \in Day |-> Balance({i \in DOMAIN rows : rows[i].day = d}, rows)]

LEMMA LedgerSums ==
  ASSUME NEW f, NEW S
  PROVE  Ledger!SumFunctionOnSet(f, S) = SumFunctionOnSet(f, S)
BY DEF Ledger!SumFunctionOnSet, Ledger!FoldFunctionOnSet, Ledger!MapThenFoldSet,
       SumFunctionOnSet, FoldFunctionOnSet, MapThenFoldSet

\* No day of a book that was never in debt closes below zero.
LEMMA NoDayCloses ==
  ASSUME NEW rows \in Seq(Operation),
         \A i \in DOMAIN rows : Balance(UpTo(rows, i), rows) >= 0
  PROVE  Ledger!Solvent(Turnover(rows)) /\ Turnover(rows) \in [Day -> Int]
<1>1. Turnover(rows) \in [Day -> Int]
  <2>1. \A d \in Day : Balance({i \in DOMAIN rows : rows[i].day = d}, rows) \in Int
    BY BalanceType
  <2>2. QED
    BY <2>1 DEF Turnover
<1>2. ASSUME NEW d \in Day PROVE Ledger!Closing(Turnover(rows), d) >= 0
  <2> DEFINE D == {e \in Day : e <= d}
             S == {i \in DOMAIN rows : rows[i].day \in D}
             class == [i \in DOMAIN rows |-> rows[i].day]
             net == Turnover(rows)
             f == Effects(rows)
  <2>1. IsFiniteSet(D) /\ D \subseteq Day
    BY Dates, FS_Subset
  <2>2. IsFiniteSet(DOMAIN rows) /\ \A i \in DOMAIN rows : f[i] \in Int
    BY EffectsOfBook
  <2>3. \A e \in D : net[e] = SumFunctionOnSet(f, OfClass(class, DOMAIN rows, {e}))
    <3> SUFFICES ASSUME NEW e \in D
                 PROVE  net[e] = SumFunctionOnSet(f, OfClass(class, DOMAIN rows, {e}))
      OBVIOUS
    <3>1. OfClass(class, DOMAIN rows, {e}) = {i \in DOMAIN rows : rows[i].day = e}
      BY DEF OfClass
    <3>2. net[e] = Balance({i \in DOMAIN rows : rows[i].day = e}, rows)
      BY <2>1 DEF Turnover
    <3>3. QED
      BY <3>1, <3>2, BalanceType
  <2>4. OfClass(class, DOMAIN rows, D) = S /\ S \subseteq DOMAIN rows
    BY DEF OfClass
  <2>5. Ledger!Closing(net, d) = SumFunctionOnSet(net, D)
    BY LedgerSums DEF Ledger!Closing
  <2>6. Balance(S, rows) = SumFunctionOnSet(f, S)
    BY BalanceType
  <2> HIDE DEF D, net, f, class
  <2>7. SumFunctionOnSet(net, D) = SumFunctionOnSet(f, OfClass(class, DOMAIN rows, D))
    <3> DEFINE R == DOMAIN rows
    <3>1. IsFiniteSet(D) /\ IsFiniteSet(R)
      BY <2>1, <2>2
    <3>2. \A i \in R : f[i] \in Int
      BY <2>2
    <3>3. \A e \in D : net[e] = SumFunctionOnSet(f, OfClass(class, R, {e}))
      BY <2>3
    <3> HIDE DEF R
    <3>4. SUFFICES ASSUME SumFunctionOnSet(net, D) # SumFunctionOnSet(f, OfClass(class, R, D))
                   PROVE  FALSE
      BY DEF R
    <3>5. QED
      BY <3>1, <3>2, <3>3, <3>4, SumByClass
  <2>8. Ledger!Closing(net, d) = Balance(S, rows)
    BY <2>4, <2>5, <2>6, <2>7
  <2>9. CASE S = {}
    <3> HIDE DEF S
    <3>1. Balance(S, rows) = 0
      BY <2>9, BalanceNone
    <3>2. QED
      BY <2>8, <3>1 DEF net
  <2>10. CASE S # {}
    <3>1. PICK j \in S : S \subseteq UpTo(rows, j)
      BY <2>4, <2>10, Latest
    <3>2. /\ \A i \in DOMAIN rows : rows[i].day \in Int /\ rows[i].day \in Day
          /\ d \in Int
      <4>1. \A o \in Operation : o.day \in Day
        BY DEF Operation
      <4>2. QED
        BY <4>1, EffectsOfBook, Dates
    <3>3. UpTo(rows, j) \subseteq S
      <4>1. ASSUME NEW i \in UpTo(rows, j) PROVE i \in DOMAIN rows /\ rows[i].day <= d
        BY <3>1, <3>2 DEF UpTo, Earlier, D
      <4>2. QED
        BY <3>2, <4>1 DEF D
    <3>4. UpTo(rows, j) = S /\ j \in DOMAIN rows
      BY <3>1, <3>3
    <3>5. Balance(S, rows) >= 0
      BY <3>4
    <3>6. QED
      BY <2>8, <3>5 DEF net
  <2>11. QED
    BY <2>9, <2>10
<1>3. QED
  BY <1>1, <1>2 DEF Ledger!Solvent
-----------------------------------------------------------------------------
(* What a new row and a cancelled row do to a book *)

LEMMA BalanceSame ==
  ASSUME NEW rows \in Seq(Operation), NEW rows2 \in Seq(Operation),
         NEW ids, ids \subseteq DOMAIN rows, ids \subseteq DOMAIN rows2,
         \A i \in ids : rows[i] = rows2[i]
  PROVE  Balance(ids, rows) = Balance(ids, rows2)
<1> DEFINE f == Effects(rows)
           g == Effects(rows2)
<1>1. IsFiniteSet(ids) /\ Balance(ids, rows) = SumFunctionOnSet(f, ids)
  BY BalanceType
<1>2. Balance(ids, rows2) = SumFunctionOnSet(g, ids)
  BY BalanceType
<1>3. \A i \in ids : f[i] \in Int /\ f[i] = g[i]
  BY EffectsOfBook
<1> HIDE DEF f, g
<1>4. SumFunctionOnSet(f, ids) = SumFunctionOnSet(g, ids)
  BY <1>1, <1>3, SumSame
<1>5. QED
  BY <1>1, <1>2, <1>4

\* Two books that differ in rows of one day have the same turnover on the others.
LEMMA OneDay ==
  ASSUME NEW rows \in Seq(Operation), NEW rows2 \in Seq(Operation), NEW d \in Day,
         \A i \in DOMAIN rows : rows[i].day # d => i \in DOMAIN rows2 /\ rows2[i] = rows[i],
         \A i \in DOMAIN rows2 : rows2[i].day # d => i \in DOMAIN rows /\ rows2[i] = rows[i]
  PROVE  \A e \in Day \ {d} : Turnover(rows2)[e] = Turnover(rows)[e]
<1> SUFFICES ASSUME NEW e \in Day \ {d}
             PROVE  Turnover(rows2)[e] = Turnover(rows)[e]
  OBVIOUS
<1> DEFINE S == {i \in DOMAIN rows : rows[i].day = e}
           S2 == {i \in DOMAIN rows2 : rows2[i].day = e}
<1>1. S = S2 /\ \A i \in S : rows[i] = rows2[i]
  OBVIOUS
<1>2. S \subseteq DOMAIN rows /\ S2 \subseteq DOMAIN rows2
  OBVIOUS
<1>3. Turnover(rows)[e] = Balance(S, rows) /\ Turnover(rows2)[e] = Balance(S2, rows2)
  BY DEF Turnover
<1> HIDE DEF S, S2
<1>4. Balance(S, rows) = Balance(S, rows2)
  BY <1>1, <1>2, BalanceSame
<1>5. QED
  BY <1>1, <1>3, <1>4

LEMMA NewRow ==
  ASSUME NEW rows \in Seq(Operation), NEW o \in Operation
  PROVE  /\ Append(rows, o) \in Seq(Operation)
         /\ Len(Append(rows, o)) = Len(rows) + 1
         /\ DOMAIN Append(rows, o) = DOMAIN rows \cup {Len(rows) + 1}
         /\ Len(rows) + 1 \notin DOMAIN rows
         /\ \A i \in DOMAIN rows : Append(rows, o)[i] = rows[i]
         /\ Append(rows, o)[Len(rows) + 1] = o
OBVIOUS

LEMMA NewRowMoves ==
  ASSUME NEW rows \in Seq(Operation), NEW o \in Operation
  PROVE  /\ CashBalance(Append(rows, o)) = CashBalance(rows) + CashEffect(o)
         /\ o.day \in Day
         /\ \A e \in Day \ {o.day} : Turnover(Append(rows, o))[e] = Turnover(rows)[e]
<1> DEFINE new == Append(rows, o)
           n == Len(rows) + 1
           f == Effects(new)
           R == DOMAIN rows
<1>1. /\ new \in Seq(Operation) /\ DOMAIN new = R \cup {n} /\ n \notin R /\ new[n] = o
      /\ \A i \in R : new[i] = rows[i]
  BY NewRow
<1>2. o.day \in Day
  BY DEF Operation
<1> HIDE DEF new, n
<1>3. CashBalance(new) = CashBalance(rows) + CashEffect(o)
  <2>1. /\ IsFiniteSet(DOMAIN new) /\ \A i \in DOMAIN new : f[i] \in Int
        /\ f[n] = CashEffect(o) /\ n \in DOMAIN new
    BY <1>1, EffectsOfBook
  <2>2. CashBalance(new) = SumFunctionOnSet(f, DOMAIN new)
    BY <1>1, BalanceType DEF CashBalance
  <2>3. Balance(R, new) = SumFunctionOnSet(f, R) /\ Balance(R, new) \in Int
    BY <1>1, BalanceType
  <2>4. Balance(R, rows) = Balance(R, new)
    BY <1>1, BalanceSame
  <2>5. DOMAIN new \ {n} = R
    BY <1>1
  <2> HIDE DEF f, R
  <2>6. SumFunctionOnSet(f, DOMAIN new) = f[n] + SumFunctionOnSet(f, DOMAIN new \ {n})
    BY <2>1, SumRemove
  <2>7. CashBalance(rows) = Balance(R, rows) /\ R = DOMAIN rows
    BY DEF CashBalance, R
  <2>8. CashEffect(o) \in Int
    BY EffectOfRow
  <2>9. SumFunctionOnSet(f, DOMAIN new \ {n}) = Balance(R, rows)
    BY <2>3, <2>4, <2>5
  <2>10. CashBalance(new) = CashEffect(o) + CashBalance(rows) /\ CashBalance(rows) \in Int
    BY <2>1, <2>2, <2>3, <2>4, <2>6, <2>7, <2>9
  <2>11. QED
    BY <2>8, <2>10
<1>4. \A e \in Day \ {o.day} : Turnover(new)[e] = Turnover(rows)[e]
  <2>1. \A i \in R : i \in DOMAIN new /\ new[i] = rows[i]
    BY <1>1
  <2>2. \A i \in DOMAIN new : new[i].day # o.day => i \in R /\ new[i] = rows[i]
    BY <1>1
  <2>3. QED
    BY <1>1, <1>2, <2>1, <2>2, OneDay
<1>5. QED
  BY <1>2, <1>3, <1>4 DEF new

LEMMA CancelledRow ==
  ASSUME NEW rows \in Seq(Operation), NEW k \in DOMAIN rows
  PROVE  /\ Without(rows, {k}) \in Seq(Operation)
         /\ Len(Without(rows, {k})) = Len(rows)
         /\ DOMAIN Without(rows, {k}) = DOMAIN rows
         /\ \A i \in DOMAIN rows :
              /\ Without(rows, {k})[i].payment = rows[i].payment
              /\ Without(rows, {k})[i].day = rows[i].day
              /\ i # k => Without(rows, {k})[i] = rows[i]
<1> DEFINE new == Without(rows, {k})
<1>1. DOMAIN rows = 1 .. Len(rows) /\ Len(rows) \in Nat
  OBVIOUS
<1>2. DOMAIN new = DOMAIN rows
  BY DEF Without
<1>3. ASSUME NEW i \in DOMAIN rows
      PROVE  /\ new[i] \in Operation
             /\ new[i].payment = rows[i].payment
             /\ new[i].day = rows[i].day
             /\ i # k => new[i] = rows[i]
  <2>1. rows[i] \in Operation
    BY EffectsOfBook
  <2>2. CASE i # k
    BY <2>1, <2>2 DEF Without
  <2>3. CASE i = k
    <3>1. new[i] = [rows[i] EXCEPT !.status = "cancelled"]
      BY <2>3 DEF Without
    <3> HIDE DEF new
    <3>2. QED
      BY <2>1, <2>3, <3>1 DEF Operation
  <2>4. QED
    BY <2>2, <2>3
<1>4. new \in [1 .. Len(rows) -> Operation]
  BY <1>1, <1>3 DEF Without
<1> HIDE DEF new
<1>5. new \in Seq(Operation) /\ Len(new) = Len(rows)
  BY <1>1, <1>4, SeqDef, LenProperties
<1>6. QED
  BY <1>2, <1>3, <1>5 DEF new

LEMMA CancelledRowMoves ==
  ASSUME NEW rows \in Seq(Operation), NEW k \in DOMAIN rows
  PROVE  /\ rows[k].day \in Day
         /\ \A e \in Day \ {rows[k].day} : Turnover(Without(rows, {k}))[e] = Turnover(rows)[e]
<1> DEFINE new == Without(rows, {k})
<1>1. /\ new \in Seq(Operation) /\ DOMAIN new = DOMAIN rows
      /\ \A i \in DOMAIN rows : new[i].day = rows[i].day /\ (i # k => new[i] = rows[i])
  BY CancelledRow
<1>2. rows[k].day \in Day
  <2>1. rows[k] \in Operation
    BY EffectsOfBook
  <2>2. QED
    BY <2>1 DEF Operation
<1> HIDE DEF new
<1>3. \A i \in DOMAIN rows : rows[i].day # rows[k].day => i \in DOMAIN new /\ new[i] = rows[i]
  BY <1>1
<1>4. \A i \in DOMAIN new : new[i].day # rows[k].day => i \in DOMAIN rows /\ new[i] = rows[i]
  BY <1>1
<1>5. \A e \in Day \ {rows[k].day} : Turnover(new)[e] = Turnover(rows)[e]
  BY <1>1, <1>2, <1>3, <1>4, OneDay
<1>6. QED
  BY <1>2, <1>5 DEF new

\* A correction records what is missing to its target.
LEMMA CorrectionRow ==
  ASSUME NEW rows \in Seq(Operation), NEW target \in Amount, NEW d \in Day
  PROVE  /\ Corrected(rows, target, d) \in Operation
         /\ CashEffect(Corrected(rows, target, d)) = target - CashBalance(rows)
         /\ CashBalance(rows) \in Int
<1> DEFINE x == target - CashBalance(rows)
           direction == IF x > 0 THEN "in" ELSE IF x < 0 THEN "out" ELSE "correction"
           amount == IF x < 0 THEN - x ELSE x
           o == Corrected(rows, target, d)
<1>1. CashBalance(rows) \in Int /\ target \in Int
  BY BalanceType, Sums DEF CashBalance
<1>2. o = [day |-> d, type |-> "correction", direction |-> direction, status |-> "posted",
           amount |-> amount, target |-> target, payment |-> FALSE]
  BY DEF Corrected, Difference
<1>3. x \in Int
  BY <1>1
<1>4. /\ amount \in Nat
      /\ direction \in {"in", "out", "correction"}
      /\ IF direction = "out" THEN - amount = x ELSE amount = x
  <2> HIDE DEF x
  <2>1. QED
    BY <1>3
<1> HIDE DEF x, direction, amount, o
<1>5. o \in Operation
  BY <1>2, <1>4 DEF Operation, Type
<1>6. CashEffect(o) = x
  <2>1. /\ o.status = "posted" /\ o.type = "correction"
        /\ o.direction = direction /\ o.amount = amount
    BY <1>2
  <2>2. CashEffect(o) = IF direction = "out" THEN - amount ELSE amount
    BY <2>1 DEF CashEffect
  <2>3. QED
    BY <1>4, <2>2
<1>7. QED
  BY <1>1, <1>5, <1>6 DEF x, o
-----------------------------------------------------------------------------
(* The steps of the book *)

\* A row is booked: what the writer judged is the book as it is.
LEMMA RowIsBooked ==
  ASSUME CashInv, NEW s \in Session, CashOperation(s) \/ Correction(s)
  PROVE  \E o \in Operation :
           /\ writer[s].active /\ Len(book) < MaxOperations
           /\ Nonnegative(Append(book, o)) /\ OfOnePayment(Append(book, o))
           /\ o.target # NoTarget => CashBalance(Append(book, o)) = o.target
           /\ Commit(s, Append(book, o))
<1>1. book \in Seq(Operation) /\ OfOnePayment(book)
  BY DEF CashInv, TypeOK
<1>2. ASSUME NEW o \in Operation, Create(s, o)
      PROVE  /\ writer[s].active /\ Len(book) < MaxOperations /\ Seen(s) = book
             /\ Nonnegative(Append(book, o)) /\ Commit(s, Append(book, o))
  BY <1>2 DEF CashInv, WritersCurrent, Create, Seen
<1>3. ASSUME NEW o \in Operation,
             o.payment => ~ \E i \in DOMAIN book : book[i].payment
      PROVE  OfOnePayment(Append(book, o))
  BY <1>1, <1>3, NewRow DEF OfOnePayment
<1>4. CASE CashOperation(s)
  <2>1. PICK d \in Day, n \in Amount \ {0}, type \in {"cash_in", "cash_out"},
             p \in {FALSE, ~ Booked(s)} :
          Create(s, [day |-> d, type |-> type,
                     direction |-> IF type = "cash_in" THEN "in" ELSE "out",
                     status |-> "posted", amount |-> n, target |-> NoTarget, payment |-> p])
    BY <1>4 DEF CashOperation
  <2> DEFINE direction == IF type = "cash_in" THEN "in" ELSE "out"
             o == [day |-> d, type |-> type, direction |-> direction, status |-> "posted",
                   amount |-> n, target |-> NoTarget, payment |-> p]
  <2>2. p \in BOOLEAN /\ (p => ~ Booked(s))
    BY DEF Booked
  <2>3. direction \in {"in", "out", "correction"}
    OBVIOUS
  <2>4. Create(s, o)
    BY <2>1
  <2> HIDE DEF direction
  <2>5. o \in Operation
    BY <2>2, <2>3, Sums DEF Operation, Type
  <2>6. o.payment = p /\ o.target = NoTarget
    OBVIOUS
  <2> HIDE DEF o
  <2>7. OfOnePayment(Append(book, o))
    BY <1>2, <1>3, <2>2, <2>4, <2>5, <2>6 DEF Booked
  <2>8. QED
    BY <1>2, <2>4, <2>5, <2>6, <2>7
<1>5. CASE Correction(s)
  <2>1. PICK d \in Day, target \in Amount : Create(s, Corrected(Seen(s), target, d))
    BY <1>5 DEF Correction
  <2>2. writer[s].active /\ Seen(s) = book
    BY <2>1 DEF CashInv, WritersCurrent, Create, Seen
  <2> DEFINE o == Corrected(book, target, d)
  <2>3. o.payment = FALSE /\ o.target = target
    BY DEF Corrected
  <2> HIDE DEF o
  <2>4. /\ o \in Operation /\ CashEffect(o) = target - CashBalance(book)
        /\ CashBalance(book) \in Int
    BY <1>1, CorrectionRow DEF o
  <2>5. CashBalance(Append(book, o)) = target
    BY <1>1, <2>4, NewRowMoves, Sums
  <2>6. Create(s, o)
    BY <2>1, <2>2 DEF o
  <2>7. OfOnePayment(Append(book, o))
    BY <1>3, <2>3, <2>4
  <2>8. QED
    BY <1>2, <2>3, <2>4, <2>5, <2>6, <2>7
<1>6. QED
  BY <1>4, <1>5

\* Rows are cancelled: it is one row, since one row is of a payment.
LEMMA RowIsCancelled ==
  ASSUME CashInv, NEW s \in Session, CancelOperation(s) \/ CancelPaymentOperations(s)
  PROVE  \E k \in DOMAIN book :
           /\ writer[s].active
           /\ Nonnegative(Without(book, {k}))
           /\ Commit(s, Without(book, {k}))
<1>1. writer[s].active /\ Seen(s) = book
  BY DEF CancelOperation, CancelPaymentOperations, CashInv, WritersCurrent, Seen
<1>2. CASE CancelOperation(s)
  BY <1>1, <1>2 DEF CancelOperation
<1>3. CASE CancelPaymentOperations(s)
  <2> DEFINE posted == {i \in DOMAIN book : book[i].payment /\ book[i].status = "posted"}
  <2>1. /\ posted # {} /\ Nonnegative(Without(book, posted))
        /\ Commit(s, Without(book, posted))
    BY <1>1, <1>3 DEF CancelPaymentOperations
  <2>2. PICK k \in posted : TRUE
    BY <2>1
  <2>3. posted = {k}
    BY <2>2 DEF CashInv, OfOnePayment
  <2>4. k \in DOMAIN book
    BY <2>2
  <2> HIDE DEF posted
  <2>5. QED
    BY <1>1, <2>1, <2>3, <2>4
<1>4. QED
  BY <1>2, <1>3

\* Every other step leaves the book alone.
LEMMA BookStays ==
  ASSUME [Next]_vars,
         \A s \in Session : /\ ~ CashOperation(s) /\ ~ Correction(s)
                            /\ ~ CancelOperation(s) /\ ~ CancelPaymentOperations(s)
  PROVE  /\ book' = book
         /\ \/ \E s \in Session : Begin(s) \/ Rollback(s)
            \/ UNCHANGED <<cashLock, writer>>
         /\ \/ page' = page \/ Answered
            \/ (\E offset \in 0 .. MaxOperations - 1 : ReadBalance(offset))
            \/ ReadRows \/ ReadClosing
<1>1. ASSUME NEW s \in Session, Begin(s) \/ Rollback(s)
      PROVE  book' = book /\ page' = page
  BY <1>1 DEF Begin, Rollback
<1>2. ASSUME NEW offset \in 0 .. MaxOperations - 1, ReadBalance(offset)
      PROVE  book' = book /\ UNCHANGED <<cashLock, writer>>
  BY <1>2 DEF ReadBalance
<1>3. ReadRows => book' = book /\ UNCHANGED <<cashLock, writer>>
  BY Zenon DEF ReadRows
<1>4. ReadClosing => book' = book /\ UNCHANGED <<cashLock, writer>>
  BY Zenon DEF ReadClosing
<1>5. Answered => book' = book /\ UNCHANGED <<cashLock, writer>>
  BY DEF Answered
<1>6. UNCHANGED vars => book' = book /\ page' = page /\ UNCHANGED <<cashLock, writer>>
  BY DEF vars
<1>7. QED
  BY <1>1, <1>2, <1>3, <1>4, <1>5, <1>6 DEF Next

LEMMA CommitKeeps ==
  ASSUME CashInv, NEW s \in Session, writer[s].active,
         NEW rows \in Seq(Operation), Len(rows) <= MaxOperations,
         Nonnegative(rows), OfOnePayment(rows), Commit(s, rows)
  PROVE  CashInv'
<1>1. /\ book' = rows /\ cashLock' = NoSession
      /\ writer' = [writer EXCEPT ![s] = Resting]
      /\ page' = page \/ page' = Torn
  BY DEF CashInv, WritersCurrent, Commit, Release
<1>2. page'.pc \in {"start", "rows", "closing", "done", "torn"} /\ page'.balance \in Int
      /\ {"pc", "balance"} \subseteq DOMAIN page'
  <2>1. CASE page' = page
    BY <2>1 DEF CashInv, TypeOK
  <2>2. CASE page' = Torn
    BY <2>2 DEF Torn, NoPage
  <2>3. QED
    BY <1>1, <2>1, <2>2
<1>3. Resting \in [active : BOOLEAN, seen : Seq(Operation)] /\ Resting.active = FALSE
  BY DEF Resting
<1>4. TypeOK'
  BY <1>1, <1>2, <1>3 DEF CashInv, TypeOK
<1>5. \A r \in Session : ~ writer'[r].active
  <2>1. \A r \in Session \ {s} : ~ writer[r].active
    BY LockOwners DEF CashInv, WritersCurrent
  <2>2. QED
    BY <1>1, <1>3, <2>1 DEF CashInv, TypeOK
<1>6. WritersCurrent'
  BY <1>5 DEF WritersCurrent
<1>7. NeverInDebt'
  BY <1>1, NonnegativeMeans DEF NeverInDebt
<1>8. OfOnePayment(book')
  BY <1>1
<1>9. QED
  BY <1>2, <1>4, <1>6, <1>7, <1>8 DEF CashInv

LEMMA ReadingKeeps ==
  ASSUME CashInv,
         \/ page' = page \/ Answered
         \/ \E offset \in 0 .. MaxOperations - 1 : ReadBalance(offset)
         \/ ReadRows \/ ReadClosing
  PROVE  /\ page'.pc \in {"start", "rows", "closing", "done", "torn"} /\ page'.balance \in Int
         /\ {"pc", "balance"} \subseteq DOMAIN page'
<1>1. CASE page' = page
  BY <1>1 DEF CashInv, TypeOK
<1>2. CASE Answered
  BY <1>2 DEF Answered, NoPage
<1>3. CASE \E offset \in 0 .. MaxOperations - 1 : ReadBalance(offset)
  <2>1. CashBalance(book) \in Int
    BY BalanceType DEF CashInv, TypeOK, CashBalance
  <2> DEFINE balance == CashBalance(book)
  <2>2. PICK offset : page' = [NoPage EXCEPT !.pc = "rows", !.offset = offset,
                                             !.balance = balance]
    BY <1>3, Zenon DEF ReadBalance
  <2> HIDE DEF balance
  <2>3. balance \in Int
    BY <2>1 DEF balance
  <2>4. QED
    BY <2>2, <2>3 DEF NoPage
<1>4. CASE ReadRows
  <2> DEFINE newest == Reverse(BookOrder(book))
             ids == SubSeq(newest, page.offset + 1, Min({page.offset + PageSize, Len(newest)}))
             rows == [k \in DOMAIN ids |-> <<ids[k], BalanceEffect(book[ids[k]])>>]
             pc == IF ids = <<>> THEN "start" ELSE "closing"
             first == IF ids = <<>> THEN 0 ELSE ids[1]
  <2>1. page' = [page EXCEPT !.pc = pc, !.newest = first, !.rows = rows]
    BY <1>4, Zenon DEF ReadRows
  <2>2. pc \in {"start", "closing"}
    OBVIOUS
  <2> HIDE DEF pc, first, rows
  <2>3. QED
    BY <2>1, <2>2 DEF CashInv, TypeOK
<1>5. CASE ReadClosing
  <2> DEFINE closing == IF FirstPage(page.offset) THEN page.balance
                        ELSE Balance(UpTo(book, page.newest), book)
             opening == After(page.rows, closing, Len(page.rows))
             rows == [k \in DOMAIN page.rows |->
                        <<page.rows[k][1], After(page.rows, closing, k - 1)>>]
  <2>1. page' = [page EXCEPT !.pc = "done", !.closing = closing, !.opening = opening,
                             !.rows = rows]
    BY <1>5, Zenon DEF ReadClosing
  <2> HIDE DEF closing, opening, rows
  <2>2. QED
    BY <2>1 DEF CashInv, TypeOK
<1>6. QED
  BY <1>1, <1>2, <1>3, <1>4, <1>5
-----------------------------------------------------------------------------
(* The theorems *)

LEMMA CashInit == ASSUME Init PROVE CashInv
<1>1. book \in Seq(Operation) /\ Len(book) <= MaxOperations /\ OfOnePayment(book) /\ NeverInDebt
  <2>1. CASE book = <<>>
    BY <2>1, RowBound DEF OfOnePayment, NeverInDebt
  <2>2. CASE \E d \in Day, n \in Amount : book = <<Legacy(d, n)>>
    <3>1. PICK d \in Day, n \in Amount : book = <<Legacy(d, n)>>
      BY <2>2
    <3>2. Legacy(d, n) \in Operation /\ CashEffect(Legacy(d, n)) = n /\ n \in Nat
      <4>1. n \in Nat
        BY Sums
      <4>2. Legacy(d, n) \in Operation
        BY <4>1 DEF Legacy, Operation, Type
      <4>3. CashEffect(Legacy(d, n)) = n
        BY DEF Legacy, CashEffect
      <4>4. QED
        BY <4>1, <4>2, <4>3
    <3>3. /\ book \in Seq(Operation) /\ Len(book) = 1 /\ DOMAIN book = {1}
          /\ book[1] = Legacy(d, n)
      BY <3>1, <3>2
    <3>4. Balance({1}, book) = n
      <4>1. IsFiniteSet({1}) /\ Balance({1}, book) = SumFunctionOnSet(Effects(book), {1})
        BY <3>3, BalanceType
      <4>2. \A i \in {1} : Effects(book)[i] \in Int
        BY <3>3, EffectsOfBook
      <4>3. Effects(book)[1] = n
        BY <3>2, <3>3, EffectsOfBook
      <4>4. SumFunctionOnSet(Effects(book), {1})
              = Effects(book)[1] + SumFunctionOnSet(Effects(book), {1} \ {1})
        BY <4>1, <4>2, SumRemove
      <4>5. {1} \ {1} = {}
        OBVIOUS
      <4>6. SumFunctionOnSet(Effects(book), {1} \ {1}) = 0
        BY <4>5, SumEmpty
      <4>7. QED
        BY <3>2, <4>1, <4>3, <4>4, <4>6
    <3>5. NeverInDebt
      <4>1. UpTo(book, 1) = {1}
        BY <3>3 DEF UpTo
      <4>2. Balance(UpTo(book, 1), book) >= 0
        BY <3>2, <3>4, <4>1
      <4>3. QED
        BY <3>3, <4>2 DEF NeverInDebt
    <3>6. QED
      BY <3>3, <3>5, RowBound DEF OfOnePayment
  <2>3. QED
    BY <2>1, <2>2 DEF Init
<1>2. QED
  BY <1>1 DEF CashInv, TypeOK, Init, WritersCurrent, NoPage, Resting

LEMMA CashStep == CashInv /\ [Next]_vars => CashInv'
<1> SUFFICES ASSUME CashInv, [Next]_vars PROVE CashInv'
  OBVIOUS
<1>1. ASSUME NEW s \in Session, CashOperation(s) \/ Correction(s) PROVE CashInv'
  <2>1. PICK o \in Operation :
          /\ writer[s].active /\ Len(book) < MaxOperations
          /\ Nonnegative(Append(book, o)) /\ OfOnePayment(Append(book, o))
          /\ Commit(s, Append(book, o))
    BY <1>1, RowIsBooked
  <2>2. book \in Seq(Operation)
    BY DEF CashInv, TypeOK
  <2>3. Append(book, o) \in Seq(Operation) /\ Len(Append(book, o)) <= MaxOperations
    BY <2>1, <2>2, NewRow, RowBound
  <2>4. QED
    BY <2>1, <2>3, CommitKeeps
<1>2. ASSUME NEW s \in Session, CancelOperation(s) \/ CancelPaymentOperations(s) PROVE CashInv'
  <2>1. PICK k \in DOMAIN book :
          /\ writer[s].active
          /\ Nonnegative(Without(book, {k})) /\ Commit(s, Without(book, {k}))
    BY <1>2, RowIsCancelled
  <2>2. book \in Seq(Operation) /\ Len(book) <= MaxOperations /\ OfOnePayment(book)
    BY DEF CashInv, TypeOK
  <2>3. /\ Without(book, {k}) \in Seq(Operation) /\ Len(Without(book, {k})) <= MaxOperations
        /\ OfOnePayment(Without(book, {k}))
    BY <2>2, CancelledRow DEF OfOnePayment
  <2>4. QED
    BY <2>1, <2>3, CommitKeeps
<1>3. ASSUME \A s \in Session : /\ ~ CashOperation(s) /\ ~ Correction(s)
                                /\ ~ CancelOperation(s) /\ ~ CancelPaymentOperations(s)
      PROVE  CashInv'
  <2>1. /\ book' = book
        /\ \/ \E s \in Session : Begin(s) \/ Rollback(s)
           \/ UNCHANGED <<cashLock, writer>>
    BY <1>3, BookStays
  <2>2. /\ page'.pc \in {"start", "rows", "closing", "done", "torn"} /\ page'.balance \in Int
        /\ {"pc", "balance"} \subseteq DOMAIN page'
    BY <1>3, BookStays, ReadingKeeps
  <2> DEFINE Locked == /\ cashLock' \in Session \cup {NoSession} /\ WritersCurrent'
                       /\ writer' \in [Session -> [active : BOOLEAN, seen : Seq(Operation)]]
  <2>3. Locked
    <3>1. CASE UNCHANGED <<cashLock, writer>>
      BY <2>1, <3>1 DEF CashInv, TypeOK, WritersCurrent
    <3>2. ASSUME NEW s \in Session, Begin(s) PROVE Locked
      <4>1. \A r \in Session : ~ writer[r].active
        BY <3>2, LockOwners DEF CashInv, WritersCurrent, Begin
      <4>2. [active |-> TRUE, seen |-> book] \in [active : BOOLEAN, seen : Seq(Operation)]
        BY DEF CashInv, TypeOK
      <4>3. QED
        BY <2>1, <3>2, <4>1, <4>2 DEF CashInv, TypeOK, WritersCurrent, Begin
    <3>3. ASSUME NEW s \in Session, Rollback(s) PROVE Locked
      <4>1. \A r \in Session \ {s} : ~ writer[r].active
        BY <3>3, LockOwners DEF CashInv, WritersCurrent, Rollback
      <4>2. Resting \in [active : BOOLEAN, seen : Seq(Operation)] /\ Resting.active = FALSE
        BY DEF Resting
      <4>3. QED
        BY <2>1, <3>3, <4>1, <4>2 DEF CashInv, TypeOK, WritersCurrent, Rollback, Release
    <3>4. QED
      BY <2>1, <3>1, <3>2, <3>3
  <2>4. NeverInDebt' /\ OfOnePayment(book') /\ book' \in Seq(Operation)
        /\ Len(book') <= MaxOperations
    BY <2>1 DEF CashInv, TypeOK, NeverInDebt
  <2>5. QED
    BY <2>2, <2>3, <2>4 DEF CashInv, TypeOK
<1>4. QED
  BY <1>1, <1>2, <1>3

\* Whoever writes, in whatever order, the invariant holds.
THEOREM CashInvariant == Spec => []CashInv
<1>1. Init => CashInv
  BY CashInit
<1>2. CashInv /\ [Next]_vars => CashInv'
  BY CashStep
<1>3. QED
  BY <1>1, <1>2, PTL DEF Spec

\* The book, the lock, the writers and the page are of the types their columns
\* and statements give them.
THEOREM CashTypes == Spec => []TypeOK
<1>1. CashInv => TypeOK
  BY DEF CashInv
<1>2. QED
  BY <1>1, CashInvariant, PTL

\* At no point of the book, in the order of dates, was the desk in debt, however
\* many clerks book, backdate, correct and cancel at once.
THEOREM NeverInDebtHolds == Spec => []NeverInDebt
<1>1. CashInv => NeverInDebt
  BY DEF CashInv
<1>2. QED
  BY <1>1, CashInvariant, PTL

\* A committed correction leaves exactly its target on the desk: what the writer
\* has added up under the lock is the book it is appended to.
THEOREM CorrectionsHit == Spec => CorrectionHitsTarget
<1> DEFINE Hit == \A i \in DOMAIN book' \ DOMAIN book :
                    book'[i].target # NoTarget => CashBalance(book') = book'[i].target
<1>1. CashInv /\ [Next]_vars => Hit
  <2> SUFFICES ASSUME CashInv, [Next]_vars PROVE Hit
    OBVIOUS
  <2>1. book \in Seq(Operation)
    BY DEF CashInv, TypeOK
  <2>2. ASSUME NEW s \in Session, CashOperation(s) \/ Correction(s) PROVE Hit
    <3>1. PICK o \in Operation : /\ book' = Append(book, o)
                                 /\ o.target # NoTarget => CashBalance(Append(book, o)) = o.target
      BY <2>2, RowIsBooked DEF Commit
    <3>2. \A i \in DOMAIN book' \ DOMAIN book : book'[i] = o
      BY <2>1, <3>1, NewRow
    <3>3. QED
      BY <3>1, <3>2
  <2>3. ASSUME NEW s \in Session, CancelOperation(s) \/ CancelPaymentOperations(s) PROVE Hit
    <3>1. DOMAIN book' = DOMAIN book
      BY <2>1, <2>3, RowIsCancelled, CancelledRow DEF Commit
    <3>2. QED
      BY <3>1
  <2>4. CASE \A s \in Session : /\ ~ CashOperation(s) /\ ~ Correction(s)
                                /\ ~ CancelOperation(s) /\ ~ CancelPaymentOperations(s)
    BY <2>4, BookStays
  <2>5. QED
    BY <2>2, <2>3, <2>4
<1>2. QED
  BY <1>1, CashInvariant, PTL DEF Spec, CorrectionHitsTarget

\* The turnover of one day moves, and every day stays solvent.
LEMMA BookMoves ==
  ASSUME CashInv, [Next]_vars
  PROVE  \/ book' = book
         \/ /\ \E d \in Day : \A e \in Day \ {d} : Turnover(book')[e] = Turnover(book)[e]
            /\ Ledger!Solvent(Turnover(book'))
<1>1. book \in Seq(Operation)
  BY DEF CashInv, TypeOK
<1>2. Ledger!Solvent(Turnover(book'))
  <2>1. CashInv'
    BY CashStep
  <2>2. book' \in Seq(Operation) /\ \A i \in DOMAIN book' : Balance(UpTo(book', i), book') >= 0
    BY <2>1 DEF CashInv, TypeOK, NeverInDebt
  <2>3. QED
    BY <2>2, NoDayCloses
<1>3. ASSUME NEW s \in Session, CashOperation(s) \/ Correction(s)
      PROVE  \E d \in Day : \A e \in Day \ {d} : Turnover(book')[e] = Turnover(book)[e]
  <2>1. PICK o \in Operation : book' = Append(book, o)
    BY <1>3, RowIsBooked DEF Commit
  <2>2. QED
    BY <1>1, <2>1, NewRowMoves
<1>4. ASSUME NEW s \in Session, CancelOperation(s) \/ CancelPaymentOperations(s)
      PROVE  \E d \in Day : \A e \in Day \ {d} : Turnover(book')[e] = Turnover(book)[e]
  <2>1. PICK k \in DOMAIN book : book' = Without(book, {k})
    BY <1>4, RowIsCancelled DEF Commit
  <2>2. QED
    BY <1>1, <2>1, CancelledRowMoves
<1>5. CASE \A s \in Session : /\ ~ CashOperation(s) /\ ~ Correction(s)
                              /\ ~ CancelOperation(s) /\ ~ CancelPaymentOperations(s)
  BY <1>5, BookStays
<1>6. QED
  BY <1>2, <1>3, <1>4, <1>5

\* The book implements the abstract ledger: each commit moves the turnover of one
\* day and leaves every day solvent, everything else is a stutter.
THEOREM CashLedgerImplemented == Spec => IsCashLedger
<1>1. Init => Ledger!Init
  <2> SUFFICES ASSUME Init PROVE Ledger!Init
    OBVIOUS
  <2>1. CashInv
    BY CashInit
  <2>2. book \in Seq(Operation) /\ \A i \in DOMAIN book : Balance(UpTo(book, i), book) >= 0
    BY <2>1 DEF CashInv, TypeOK, NeverInDebt
  <2>3. Ledger!Solvent(Turnover(book)) /\ Turnover(book) \in [Day -> Int]
    BY <2>2, NoDayCloses
  <2>4. QED
    BY <2>3 DEF Ledger!Init, Turnover
<1>2. CashInv /\ [Next]_vars => [Ledger!Move]_(Turnover(book))
  BY BookMoves DEF Ledger!Move, Turnover
<1>3. QED
  BY <1>1, <1>2, CashInvariant, PTL DEF Spec, IsCashLedger, Ledger!Spec, Turnover
-----------------------------------------------------------------------------
(* The book in its order *)

\* An earlier row has fewer rows up to it.
LEMMA EarlierIsLess ==
  ASSUME NEW rows \in Seq(Operation)
  PROVE  \A i, j \in DOMAIN rows :
           Earlier(rows, i, j) => Cardinality(UpTo(rows, i)) < Cardinality(UpTo(rows, j))
<1> SUFFICES ASSUME NEW i \in DOMAIN rows, NEW j \in DOMAIN rows, Earlier(rows, i, j)
             PROVE  Cardinality(UpTo(rows, i)) < Cardinality(UpTo(rows, j))
  OBVIOUS
<1>1. UpTo(rows, i) \subseteq UpTo(rows, j) /\ j \in UpTo(rows, j) /\ j \notin UpTo(rows, i)
  BY BookIsOrdered DEF UpTo
<1>2. IsFiniteSet(UpTo(rows, i)) /\ IsFiniteSet(UpTo(rows, j))
  <2>1. UpTo(rows, i) \subseteq DOMAIN rows /\ UpTo(rows, j) \subseteq DOMAIN rows
    BY DEF UpTo
  <2>2. QED
    BY <2>1, EffectsOfBook, FS_Subset
<1> HIDE DEF UpTo
<1>3. /\ Cardinality(UpTo(rows, i)) <= Cardinality(UpTo(rows, j))
      /\ Cardinality(UpTo(rows, i)) # Cardinality(UpTo(rows, j))
  BY <1>1, <1>2, FS_Subset
<1>4. Cardinality(UpTo(rows, i)) \in Nat /\ Cardinality(UpTo(rows, j)) \in Nat
  BY <1>2, FS_CardinalityType
<1>5. QED
  BY <1>3, <1>4

\* BookOrder is a function on the ids: for each place there is a row, with as many rows
\* up to it as the place says.
LEMMA PlacesOfBook ==
  ASSUME NEW rows \in Seq(Operation)
  PROVE  /\ BookOrder(rows) \in [DOMAIN rows -> DOMAIN rows]
         /\ \A k \in DOMAIN rows : Cardinality(UpTo(rows, BookOrder(rows)[k])) = k
         /\ \A i \in DOMAIN rows : Cardinality(UpTo(rows, i)) \in DOMAIN rows
<1> DEFINE S == DOMAIN rows
           place == [i \in S |-> Cardinality(UpTo(rows, i))]
<1>1. S = 1 .. Len(rows) /\ Len(rows) \in Nat /\ IsFiniteSet(S) /\ Cardinality(S) = Len(rows)
  <2>1. S = 1 .. Len(rows) /\ Len(rows) \in Nat
    OBVIOUS
  <2> HIDE DEF S
  <2>2. IsFiniteSet(1 .. Len(rows)) /\ Cardinality(1 .. Len(rows)) = Len(rows)
    BY <2>1, FS_Interval
  <2>3. QED
    BY <2>1, <2>2
<1>2. place \in [S -> S]
  <2> SUFFICES ASSUME NEW i \in S PROVE Cardinality(UpTo(rows, i)) \in S
    OBVIOUS
  <2>1. UpTo(rows, i) \subseteq S /\ i \in UpTo(rows, i)
    BY DEF UpTo
  <2> HIDE DEF S
  <2>2. /\ IsFiniteSet(UpTo(rows, i)) /\ Cardinality(UpTo(rows, i)) \in Nat
        /\ Cardinality(UpTo(rows, i)) <= Len(rows)
    BY <1>1, <2>1, FS_Subset, FS_CardinalityType
  <2>3. Cardinality(UpTo(rows, i)) # 0
    BY <2>1, <2>2, FS_EmptySet
  <2>4. QED
    BY <1>1, <2>2, <2>3
<1>3. \A i, j \in S : place[i] = place[j] => i = j
  <2> SUFFICES ASSUME NEW i \in S, NEW j \in S, place[i] = place[j], i # j PROVE FALSE
    OBVIOUS
  <2>1. place[i] \in Int /\ place[j] \in Int
    BY <1>1, <1>2
  <2>2. place[i] < place[j] \/ place[j] < place[i]
    BY BookIsOrdered, EarlierIsLess
  <2> HIDE DEF place, S
  <2>3. QED
    BY <2>1, <2>2
<1>4. \A k \in S : \E i \in S : place[i] = k
  <2> HIDE DEF place
  <2>1. place \in Injection(S, S)
    BY <1>2, <1>3 DEF Injection, IsInjective
  <2>2. place \in Surjection(S, S)
    <3> HIDE DEF S
    <3>1. QED
      BY <1>1, <2>1, FS_Injection
  <2>3. QED
    BY <2>2 DEF Surjection
<1>5. \A k \in S : BookOrder(rows)[k] \in S /\ Cardinality(UpTo(rows, BookOrder(rows)[k])) = k
  <2> SUFFICES ASSUME NEW k \in S
               PROVE  BookOrder(rows)[k] \in S /\ Cardinality(UpTo(rows, BookOrder(rows)[k])) = k
    OBVIOUS
  <2>1. \E i \in DOMAIN rows : Cardinality(UpTo(rows, i)) = k
    BY <1>4
  <2>2. BookOrder(rows)[k] = CHOOSE i \in DOMAIN rows : Cardinality(UpTo(rows, i)) = k
    BY DEF BookOrder
  <2>3. QED
    BY <2>1, <2>2
<1>6. BookOrder(rows) \in [DOMAIN rows -> DOMAIN rows]
  BY <1>5 DEF BookOrder
<1>7. QED
  BY <1>2, <1>5, <1>6

\* Up to the last row there are all rows; up to any other one row less than up to
\* the next.
LEMMA NextRow ==
  ASSUME NEW rows \in Seq(Operation), NEW k \in DOMAIN rows
  PROVE  /\ k = Len(rows) => UpTo(rows, BookOrder(rows)[k]) = DOMAIN rows
         /\ k + 1 \in DOMAIN rows =>
              Balance(UpTo(rows, BookOrder(rows)[k]), rows)
                = Balance(UpTo(rows, BookOrder(rows)[k + 1]), rows)
                    - BalanceEffect(rows[BookOrder(rows)[k + 1]])
<1> DEFINE a == BookOrder(rows)[k]
           b == BookOrder(rows)[k + 1]
           place(i) == Cardinality(UpTo(rows, i))
<1>1. DOMAIN rows = 1 .. Len(rows) /\ Len(rows) \in Nat
  OBVIOUS
<1>2. a \in DOMAIN rows /\ place(a) = k
  BY PlacesOfBook
<1>3. \A i \in DOMAIN rows : place(i) \in Int /\ place(i) <= Len(rows)
  BY <1>1, PlacesOfBook
<1> HIDE DEF a
<1>4. \A i \in DOMAIN rows : place(i) <= k => i \in UpTo(rows, a)
  <2> SUFFICES ASSUME NEW i \in DOMAIN rows, place(i) <= k, i # a PROVE Earlier(rows, i, a)
    BY <1>2 DEF UpTo
  <2>1. Earlier(rows, a, i) => place(a) < place(i)
    BY <1>2, EarlierIsLess
  <2> HIDE DEF place
  <2>2. ~ Earlier(rows, a, i)
    BY <1>1, <1>2, <1>3, <2>1
  <2>3. QED
    BY <1>2, <2>2, BookIsOrdered
<1>5. k = Len(rows) => UpTo(rows, a) = DOMAIN rows
  BY <1>3, <1>4 DEF UpTo
<1>6. ASSUME k + 1 \in DOMAIN rows
      PROVE  Balance(UpTo(rows, a), rows)
               = Balance(UpTo(rows, b), rows) - BalanceEffect(rows[b])
  <2>1. b \in DOMAIN rows /\ place(b) = k + 1
    BY <1>6, PlacesOfBook
  <2> HIDE DEF b
  <2>2. a \in UpTo(rows, b) /\ a # b
    <3>1. ~ Earlier(rows, b, a)
      <4>1. Earlier(rows, b, a) => place(b) < place(a)
        BY <1>2, <2>1, EarlierIsLess
      <4> HIDE DEF place
      <4>2. QED
        BY <1>1, <1>2, <2>1, <4>1
    <3>2. a # b
      BY <1>1, <1>2, <2>1
    <3>3. QED
      BY <1>2, <2>1, <3>1, <3>2, BookIsOrdered DEF UpTo
  <2>3. UpTo(rows, a) = UpTo(rows, b) \ {b}
    <3>1. ASSUME NEW i \in UpTo(rows, a) PROVE i \in UpTo(rows, b) /\ i # b
      BY <1>2, <2>1, <2>2, BookIsOrdered DEF UpTo
    <3>2. ASSUME NEW i \in UpTo(rows, b), i # b PROVE i \in UpTo(rows, a)
      <4>1. i \in DOMAIN rows /\ Earlier(rows, i, b)
        BY <3>2 DEF UpTo
      <4>2. place(i) < place(b)
        BY <2>1, <4>1, EarlierIsLess
      <4>3. place(i) <= k
        <5> HIDE DEF place
        <5>1. QED
          BY <1>1, <1>3, <2>1, <4>1, <4>2
      <4>4. QED
        BY <1>4, <4>1, <4>3
    <3>3. QED
      BY <3>1, <3>2
  <2>4. UpTo(rows, b) \subseteq DOMAIN rows /\ UpTo(rows, b) \ {b} \subseteq DOMAIN rows
        /\ b \in UpTo(rows, b)
    BY <2>1 DEF UpTo
  <2> DEFINE f == Effects(rows)
  <2>5. \A i \in UpTo(rows, b) : f[i] \in Int
    BY <2>4, EffectsOfBook
  <2>6. f[b] = BalanceEffect(rows[b])
    BY <2>1, EffectsOfBook, EffectOfRow
  <2>7. /\ IsFiniteSet(UpTo(rows, b))
        /\ Balance(UpTo(rows, b), rows) = SumFunctionOnSet(f, UpTo(rows, b))
        /\ Balance(UpTo(rows, a), rows) = SumFunctionOnSet(f, UpTo(rows, b) \ {b})
        /\ Balance(UpTo(rows, a), rows) \in Int
    BY <2>3, <2>4, BalanceType
  <2> HIDE DEF f
  <2>8. SumFunctionOnSet(f, UpTo(rows, b)) = f[b] + SumFunctionOnSet(f, UpTo(rows, b) \ {b})
    BY <2>4, <2>5, <2>7, SumRemove
  <2>9. QED
    BY <2>4, <2>5, <2>6, <2>7, <2>8
<1>7. QED
  BY <1>5, <1>6 DEF a

-----------------------------------------------------------------------------
(* Counting back *)

LEMMA GreatestIn ==
  ASSUME NEW t, IsFiniteSet(t), t # {}, \A x \in t : x \in Int
  PROVE  Max(t) \in t /\ \A y \in t : Max(t) >= y
<1> DEFINE T == {{y \in t : y > x} : x \in t}
<1>1. PICK s \in T : \A u \in T : u \subseteq s => u = s
  <2>1. T \subseteq SUBSET t /\ T # {}
    OBVIOUS
  <2> HIDE DEF T
  <2>2. QED
    BY <2>1, Smallest
<1>2. PICK x \in t : s = {y \in t : y > x}
  BY <1>1
<1>3. ASSUME NEW z \in t PROVE x >= z
  <2> SUFFICES ASSUME z > x PROVE FALSE
    BY <1>2
  <2> DEFINE u == {y \in t : y > z}
  <2>1. u \in T
    OBVIOUS
  <2>2. u \subseteq s
    <3>1. \A y \in t : y > z => y > x
      <4> SUFFICES ASSUME NEW y \in t, y > z PROVE y > x
        OBVIOUS
      <4>1. x \in Int /\ y \in Int /\ z \in Int
        BY <1>2, <1>3
      <4>2. QED
        BY <4>1
    <3>2. QED
      BY <1>2, <3>1
  <2>3. z \in s /\ z \notin u
    <3>1. z \in Int
      BY <1>3
    <3>2. z \in s
      BY <1>2, <1>3
    <3>3. ~ (z > z)
      BY <3>1
    <3>4. QED
      BY <3>2, <3>3
  <2> HIDE DEF u, T
  <2>4. QED
    BY <1>1, <2>1, <2>2, <2>3
<1>4. QED
  BY <1>3 DEF Max

\* The fold over the rows of a page is the sum of their effects.
LEMMA CountedBack ==
  ASSUME NEW n \in Nat, NEW seq, DOMAIN seq = 1 .. n, NEW f,
         \A i \in 1 .. n : f[i] \in Int /\ seq[i][2] = f[i]
  PROVE  FoldLeft(LAMBDA x, row : x + row[2], 0, seq) = SumFunctionOnSet(f, 1 .. n)
<1> DEFINE S == 1 .. n
           Folds(g) == g = [t \in SUBSET S |->
                              IF t = {} THEN 0 ELSE g[t \ {Max(t)}] + seq[Max(t)][2]]
           sum == [t \in SUBSET S |-> SumFunctionOnSet(f, t)]
<1>1. IsFiniteSet(S) /\ \A i \in S : i \in Int
  BY FS_Interval
<1>3. FoldLeft(LAMBDA x, row : x + row[2], 0, seq) = (CHOOSE g : Folds(g))[S]
  BY DEF FoldLeft, MapThenFoldSet
<1> HIDE DEF S
<1>2. ASSUME NEW t \in SUBSET S, t # {}
      PROVE  Max(t) \in t /\ t \ {Max(t)} \in SUBSET S
  <2>1. IsFiniteSet(t) /\ \A i \in t : i \in Int
    BY <1>1, FS_Subset
  <2>2. QED
    BY <1>2, <2>1, GreatestIn
<1>4. ASSUME NEW t \in SUBSET S
      PROVE  sum[t] = IF t = {} THEN 0 ELSE sum[t \ {Max(t)}] + seq[Max(t)][2]
  <2>1. CASE t = {}
    BY <2>1, SumEmpty
  <2>2. CASE t # {}
    <3> DEFINE m == Max(t)
    <3>1. m \in t /\ t \ {m} \in SUBSET S /\ IsFiniteSet(t) /\ IsFiniteSet(t \ {m})
      BY <1>1, <1>2, <2>2, FS_Subset
    <3>2. \A i \in t : f[i] \in Int
      BY DEF S
    <3>3. f[m] \in Int /\ seq[m][2] = f[m]
      BY <3>1 DEF S
    <3> HIDE DEF m
    <3>4. /\ SumFunctionOnSet(f, t) = f[m] + SumFunctionOnSet(f, t \ {m})
          /\ SumFunctionOnSet(f, t \ {m}) \in Int
      BY <3>1, <3>2, SumRemove, SumInt
    <3>5. sum[t] = SumFunctionOnSet(f, t) /\ sum[t \ {m}] = SumFunctionOnSet(f, t \ {m})
      BY <3>1
    <3> HIDE DEF sum
    <3>6. sum[t] = sum[t \ {m}] + seq[m][2]
      BY <3>3, <3>4, <3>5
    <3>7. QED
      BY <2>2, <3>6 DEF m
  <2>3. QED
    BY <2>1, <2>2
<1>5. \E g : Folds(g)
  <2>1. sum = [t \in SUBSET S |-> sum[t]]
    OBVIOUS
  <2> HIDE DEF sum
  <2>2. Folds(sum)
    BY <1>4, <2>1
  <2>3. QED
    BY <2>2
<1> DEFINE g == CHOOSE h : Folds(h)
           T == {t \in SUBSET S : g[t] # sum[t]}
<1>6. Folds(g)
  BY <1>5
<1>7. T = {}
  <2> SUFFICES ASSUME T # {} PROVE FALSE
    OBVIOUS
  <2>1. T \subseteq SUBSET S
    OBVIOUS
  <2>2. PICK t \in T : \A u \in T : u \subseteq t => u = t
    <3> HIDE DEF T
    <3>1. QED
      BY <1>1, <2>1, Smallest
  <2> HIDE DEF g, sum
  <2>3. g[t] = IF t = {} THEN 0 ELSE g[t \ {Max(t)}] + seq[Max(t)][2]
    BY <1>6, <2>1
  <2>4. sum[t] = IF t = {} THEN 0 ELSE sum[t \ {Max(t)}] + seq[Max(t)][2]
    BY <1>4, <2>1
  <2>5. t # {}
    BY <2>3, <2>4
  <2>6. Max(t) \in t /\ t \ {Max(t)} \in SUBSET S
    BY <1>2, <2>1, <2>5
  <2>7. g[t \ {Max(t)}] = sum[t \ {Max(t)}]
    BY <2>2, <2>6
  <2>8. QED
    BY <2>2, <2>3, <2>4, <2>7
<1>8. g[S] = sum[S]
  BY <1>7
<1>9. QED
  BY <1>3, <1>8 DEF S

\* A page is counted back row by row.
LEMMA AfterRow ==
  ASSUME NEW rows, NEW n \in Nat, rows \in [1 .. n -> Int \X Int], NEW closing \in Int
  PROVE  /\ After(rows, closing, 0) = closing
         /\ \A k \in 1 .. n :
              /\ After(rows, closing, k - 1) \in Int
              /\ After(rows, closing, k) = After(rows, closing, k - 1) - rows[k][2]
<1> DEFINE f == [i \in 1 .. n |-> rows[i][2]]
           Sum(k) == SumFunctionOnSet(f, 1 .. k)
<1>1. \A i \in 1 .. n : f[i] \in Int /\ f[i] = rows[i][2]
  OBVIOUS
<1>2. ASSUME NEW k \in 0 .. n
      PROVE  After(rows, closing, k) = closing - Sum(k) /\ Sum(k) \in Int
  <2> DEFINE first == SubSeq(rows, 1, k)
  <2>1. first = [i \in 1 .. k |-> rows[i]]
    OBVIOUS
  <2>2. DOMAIN first = 1 .. k /\ \A i \in 1 .. k : f[i] \in Int /\ first[i][2] = f[i]
    BY <1>1, <2>1
  <2>3. After(rows, closing, k)
          = closing - FoldLeft(LAMBDA x, row : x + row[2], 0, first)
    BY DEF After
  <2>4. IsFiniteSet(1 .. k) /\ k \in Nat
    BY FS_Interval
  <2> HIDE DEF first, f
  <2>5. FoldLeft(LAMBDA x, row : x + row[2], 0, first) = SumFunctionOnSet(f, 1 .. k)
    BY <2>2, <2>4, CountedBack
  <2>6. Sum(k) \in Int
    BY <2>2, <2>4, SumInt
  <2>7. QED
    BY <2>3, <2>5, <2>6
<1>3. Sum(0) = 0
  <2>1. 1 .. 0 = {}
    OBVIOUS
  <2> HIDE DEF f
  <2>2. QED
    BY <2>1, SumEmpty
<1>4. ASSUME NEW k \in 1 .. n PROVE Sum(k) = f[k] + Sum(k - 1)
  <2> DEFINE S == 1 .. k
  <2>1. k \in S /\ S \ {k} = 1 .. (k - 1)
    OBVIOUS
  <2>2. \A i \in S : f[i] \in Int
    BY <1>1
  <2>3. IsFiniteSet(S)
    BY FS_Interval
  <2> HIDE DEF f, S
  <2>4. SumFunctionOnSet(f, S) = f[k] + SumFunctionOnSet(f, S \ {k})
    BY <2>1, <2>2, <2>3, SumRemove
  <2>5. QED
    BY <2>1, <2>4 DEF S
<1> HIDE DEF f, Sum
<1>5. ASSUME NEW k \in 1 .. n
      PROVE  /\ After(rows, closing, k - 1) \in Int
             /\ After(rows, closing, k) = After(rows, closing, k - 1) - rows[k][2]
  <2>1. k \in 0 .. n /\ k - 1 \in 0 .. n
    OBVIOUS
  <2>2. /\ After(rows, closing, k) = closing - Sum(k) /\ Sum(k) \in Int
        /\ After(rows, closing, k - 1) = closing - Sum(k - 1) /\ Sum(k - 1) \in Int
    BY <1>2, <2>1
  <2>3. QED
    BY <1>1, <1>4, <2>2
<1>6. After(rows, closing, 0) = closing
  BY <1>2, <1>3
<1>7. QED
  BY <1>5, <1>6

\* The dashboard's balance is the one the cash book begins with.
LEMMA DashboardIsBalance ==
  ASSUME NEW rows \in Seq(Operation)
  PROVE  DashboardBalance(rows) = CashBalance(rows)
<1> DEFINE f == [i \in DOMAIN rows |-> DashboardEffect(rows[i])]
           S == DOMAIN rows
           AddsDashboard(g) ==
             g = [s \in SUBSET S |-> IF s = {} THEN 0
                                     ELSE DashboardEffect(rows[Pick(s)]) + g[s \ {Pick(s)}]]
<1>1. \A o \in Operation : DashboardEffect(o) = CashEffect(o)
  <2> SUFFICES ASSUME NEW o \in Operation PROVE DashboardEffect(o) = CashEffect(o)
    OBVIOUS
  <2>1. /\ o.status \in {"posted", "cancelled"}
        /\ o.type \in {"cash_in", "cash_out", "correction"}
    BY DEF Operation, Type
  <2>2. CASE o.status = "cancelled"
    BY <2>2 DEF DashboardEffect, CashEffect
  <2>3. CASE o.status = "posted" /\ o.type = "cash_in"
    BY <2>3 DEF DashboardEffect, CashEffect
  <2>4. CASE o.status = "posted" /\ o.type = "cash_out"
    BY <2>4 DEF DashboardEffect, CashEffect
  <2>5. CASE o.status = "posted" /\ o.type = "correction" /\ o.direction = "out"
    BY <2>5 DEF DashboardEffect, CashEffect
  <2>6. CASE o.status = "posted" /\ o.type = "correction" /\ o.direction # "out"
    BY <2>6 DEF DashboardEffect, CashEffect
  <2>7. QED
    BY <2>1, <2>2, <2>3, <2>4, <2>5, <2>6
<1>2. DashboardBalance(rows) = (CHOOSE g : AddsDashboard(g))[S]
  BY DEF DashboardBalance, MapThenSumSet, MapThenFoldSet, Pick
<1>3. ASSUME NEW g PROVE AddsDashboard(g) <=> Adds(g, Effects(rows), S)
  <2>1. \A s \in SUBSET S : s # {} =>
          DashboardEffect(rows[Pick(s)]) = Effects(rows)[Pick(s)]
    <3>1. \A i \in S : DashboardEffect(rows[i]) = Effects(rows)[i]
      BY <1>1, EffectsOfBook
    <3>2. QED
      BY <3>1, PickIn
  <2> HIDE DEF S
  <2>2. [s \in SUBSET S |-> IF s = {} THEN 0
                            ELSE DashboardEffect(rows[Pick(s)]) + g[s \ {Pick(s)}]]
          = [s \in SUBSET S |-> IF s = {} THEN 0
                                ELSE Effects(rows)[Pick(s)] + g[s \ {Pick(s)}]]
    BY <2>1
  <2>3. QED
    BY <2>2 DEF Adds
<1>4. (CHOOSE g : AddsDashboard(g)) = (CHOOSE g : Adds(g, Effects(rows), S))
  <2> HIDE DEF AddsDashboard, S
  <2>1. QED
    BY <1>3
<1>5. SumFunctionOnSet(Effects(rows), S) = (CHOOSE g : Adds(g, Effects(rows), S))[S]
  BY SumUnfold
<1>6. CashBalance(rows) = SumFunctionOnSet(Effects(rows), S)
  BY BalanceType DEF CashBalance
<1>7. QED
  BY <1>2, <1>4, <1>5, <1>6

-----------------------------------------------------------------------------
(* Pages *)

\* The k-th newest row, its id and the balance after it.
Newest(rows, k) == BookOrder(rows)[Len(rows) + 1 - k]
BalanceAt(rows, k) == Balance(UpTo(rows, Newest(rows, k)), rows)

\* The rows of a page are rows of the book, from the one after the offset on.
OnPage(rows, offset, n) ==
  offset \in Nat /\ n \in Nat \ {0} /\ offset + n <= Len(rows)
EffectsOnPage(rows, offset, n) ==
  [k \in 1 .. n |-> <<Newest(rows, offset + k), BalanceEffect(rows[Newest(rows, offset + k)])>>]

\* What a reader has read of a book that nobody has changed since.
PageInv ==
  /\ DOMAIN page = DOMAIN NoPage
  /\ page.pc \in {"rows", "closing"} => page.offset \in Nat /\ page.balance = CashBalance(book)
  /\ page.pc = "closing" =>
       \E n \in Nat :
         /\ OnPage(book, page.offset, n)
         /\ page.rows = EffectsOnPage(book, page.offset, n)
         /\ page.newest = Newest(book, page.offset + 1)
  /\ PageAgreesWithBook

\* The balances of the book, from the newest row down.
LEMMA NewestRow ==
  ASSUME NEW rows \in Seq(Operation), NEW k \in 1 .. Len(rows)
  PROVE  /\ Newest(rows, k) \in DOMAIN rows /\ rows[Newest(rows, k)] \in Operation
         /\ Newest(rows, k) \in Int
         /\ BalanceEffect(rows[Newest(rows, k)]) \in Int
         /\ BalanceAt(rows, k) \in Int
         /\ k = 1 => BalanceAt(rows, k) = CashBalance(rows)
         /\ k + 1 <= Len(rows) =>
              BalanceAt(rows, k + 1) = BalanceAt(rows, k) - BalanceEffect(rows[Newest(rows, k)])
<1> DEFINE p == Len(rows) + 1 - k
<1>1. DOMAIN rows = 1 .. Len(rows) /\ Len(rows) \in Nat
  OBVIOUS
<1>2. p \in DOMAIN rows /\ (k = 1 => p = Len(rows))
      /\ (k + 1 <= Len(rows) => p - 1 \in DOMAIN rows /\ p - 1 + 1 = p
                                /\ Len(rows) + 1 - (k + 1) = p - 1)
  BY <1>1
<1> HIDE DEF p
<1>3. Newest(rows, k) = BookOrder(rows)[p]
  BY DEF Newest, p
<1>4. Newest(rows, k) \in DOMAIN rows
  BY <1>2, <1>3, PlacesOfBook
<1>5. /\ rows[Newest(rows, k)] \in Operation /\ Newest(rows, k) \in Int
      /\ BalanceEffect(rows[Newest(rows, k)]) \in Int
  BY <1>4, EffectsOfBook, EffectOfRow
<1>6. BalanceAt(rows, k) \in Int
  <2>1. UpTo(rows, Newest(rows, k)) \subseteq DOMAIN rows
    BY DEF UpTo
  <2>2. QED
    BY <2>1, BalanceType DEF BalanceAt
<1>7. k = 1 => BalanceAt(rows, k) = CashBalance(rows)
  BY <1>2, <1>3, NextRow DEF BalanceAt, CashBalance
<1>8. ASSUME k + 1 <= Len(rows)
      PROVE  BalanceAt(rows, k + 1) = BalanceAt(rows, k) - BalanceEffect(rows[Newest(rows, k)])
  <2> DEFINE q == p - 1
  <2>1. q \in DOMAIN rows /\ q + 1 = p /\ Newest(rows, k + 1) = BookOrder(rows)[q]
    BY <1>2, <1>8 DEF Newest
  <2> HIDE DEF q
  <2>2. Balance(UpTo(rows, BookOrder(rows)[q]), rows)
          = Balance(UpTo(rows, BookOrder(rows)[q + 1]), rows)
              - BalanceEffect(rows[BookOrder(rows)[q + 1]])
    BY <1>2, <2>1, NextRow
  <2>3. QED
    BY <1>3, <2>1, <2>2 DEF BalanceAt
<1>9. QED
  BY <1>4, <1>5, <1>6, <1>7, <1>8

\* Counting back from the right closing balance gives the balances of the book.
LEMMA CountsBack ==
  ASSUME NEW rows \in Seq(Operation), NEW offset \in Nat, NEW n \in Nat, OnPage(rows, offset, n),
         NEW shown, shown = EffectsOnPage(rows, offset, n)
  PROVE  \A k \in 1 .. n :
           /\ After(shown, BalanceAt(rows, offset + 1), k - 1) = BalanceAt(rows, offset + k)
           /\ After(shown, BalanceAt(rows, offset + 1), k)
                = BalanceAt(rows, offset + k) - BalanceEffect(rows[Newest(rows, offset + k)])
<1> DEFINE closing == BalanceAt(rows, offset + 1)
           Back(k) == After(shown, closing, k)
           Right == {k \in 1 .. n : \A j \in 1 .. k : Back(j - 1) = BalanceAt(rows, offset + j)}
<1>1. \A k \in 1 .. n :
        /\ offset + k \in 1 .. Len(rows)
        /\ k + 1 <= n => offset + k + 1 <= Len(rows)
  BY DEF OnPage
<1>2. \A k \in 1 .. n :
        /\ Newest(rows, offset + k) \in Int
        /\ BalanceEffect(rows[Newest(rows, offset + k)]) \in Int
        /\ BalanceAt(rows, offset + k) \in Int
        /\ k + 1 <= n => BalanceAt(rows, offset + k + 1)
             = BalanceAt(rows, offset + k) - BalanceEffect(rows[Newest(rows, offset + k)])
  BY <1>1, NewestRow
<1>3. closing \in Int
  <2>1. 1 \in 1 .. n
    BY DEF OnPage
  <2>2. QED
    BY <1>2, <2>1
<1>4. shown \in [1 .. n -> Int \X Int]
  BY <1>2 DEF EffectsOnPage
<1>5. \A k \in 1 .. n : shown[k][2] = BalanceEffect(rows[Newest(rows, offset + k)])
  BY DEF EffectsOnPage
<1> HIDE DEF closing
<1>6. /\ Back(0) = closing
      /\ \A k \in 1 .. n : Back(k) = Back(k - 1) - shown[k][2]
  BY <1>3, <1>4, AfterRow
<1> HIDE DEF Back
<1>7. 1 \in Right
  <2>1. 1 \in 1 .. n
    BY DEF OnPage
  <2>2. Back(1 - 1) = BalanceAt(rows, offset + 1)
    BY <1>6 DEF closing
  <2>3. QED
    BY <2>1, <2>2
<1>8. \A k \in 1 .. n : Back(k - 1) = BalanceAt(rows, offset + k)
  <2> DEFINE m == Max(Right)
  <2>1. m \in Right /\ \A k \in Right : m >= k
    <3>1. IsFiniteSet(1 .. n) /\ Right \subseteq 1 .. n
      BY FS_Interval
    <3>2. IsFiniteSet(Right) /\ \A k \in Right : k \in Int
      BY <3>1, FS_Subset
    <3> HIDE DEF Right
    <3>3. QED
      BY <1>7, <3>2, GreatestIn
  <2> HIDE DEF m
  <2>2. m \in 1 .. n /\ \A j \in 1 .. m : Back(j - 1) = BalanceAt(rows, offset + j)
    BY <2>1
  <2>3. CASE m = n
    BY <2>2, <2>3
  <2>4. CASE m # n
    <3>1. m + 1 \in 1 .. n /\ m + 1 <= n /\ m + 1 - 1 = m /\ offset + m + 1 = offset + (m + 1)
          /\ m \in 1 .. m
      BY <2>2, <2>4
    <3>2. Back(m) = Back(m - 1) - shown[m][2] /\ Back(m - 1) = BalanceAt(rows, offset + m)
      BY <1>6, <2>2, <3>1
    <3>3. Back(m) = BalanceAt(rows, offset + (m + 1))
      BY <1>2, <1>5, <2>2, <3>1, <3>2
    <3>4. \A j \in 1 .. m + 1 : j \in 1 .. m \/ j = m + 1
      BY <2>2
    <3>5. \A j \in 1 .. m + 1 : Back(j - 1) = BalanceAt(rows, offset + j)
      <4> SUFFICES ASSUME NEW j \in 1 .. m + 1 PROVE Back(j - 1) = BalanceAt(rows, offset + j)
        OBVIOUS
      <4>1. CASE j \in 1 .. m
        BY <2>2, <4>1
      <4>2. CASE j = m + 1
        BY <3>1, <3>3, <4>2
      <4>3. QED
        BY <3>4, <4>1, <4>2
    <3>6. m + 1 \in Right
      BY <3>1, <3>5
    <3>7. ~ (m >= m + 1)
      BY <2>2
    <3>8. QED
      BY <2>1, <3>6, <3>7
  <2>5. QED
    BY <2>3, <2>4
<1>9. \A k \in 1 .. n :
        Back(k) = BalanceAt(rows, offset + k) - BalanceEffect(rows[Newest(rows, offset + k)])
  BY <1>5, <1>6, <1>8
<1>10. QED
  BY <1>8, <1>9 DEF Back, closing

\* What the whole book shows of the k-th newest row.
LEMMA RowOfBook ==
  ASSUME NEW rows \in Seq(Operation), NEW k \in 1 .. Len(rows)
  PROVE  /\ Len(Rows(rows)) = Len(rows)
         /\ Rows(rows)[Len(Rows(rows)) + 1 - k] = <<Newest(rows, k), BalanceAt(rows, k)>>
<1>1. DOMAIN rows = 1 .. Len(rows) /\ Len(rows) \in Nat
  OBVIOUS
<1>2. DOMAIN BookOrder(rows) = DOMAIN rows
  BY DEF BookOrder
<1>3. Rows(rows) = [j \in 1 .. Len(rows) |->
                      <<BookOrder(rows)[j], RunningBalance(rows, BookOrder(rows)[j])>>]
  BY <1>1, <1>2 DEF Rows
<1>4. Len(Rows(rows)) = Len(rows)
  BY <1>1, <1>3
<1>5. Len(rows) + 1 - k \in 1 .. Len(rows)
  BY <1>1
<1>6. RunningBalance(rows, Newest(rows, k)) = BalanceAt(rows, k)
  BY NewestRow, RunningIsBalance DEF BalanceAt
<1>7. Rows(rows)[Len(rows) + 1 - k] = <<Newest(rows, k), RunningBalance(rows, Newest(rows, k))>>
  BY <1>3, <1>5 DEF Newest
<1>8. QED
  BY <1>4, <1>6, <1>7

\* The second statement of a page finds the rows of the same book as the first, the
\* third their closing balance.
LEMMA RowsAreRead ==
  ASSUME CashInv, PageInv, ReadRows PROVE PageInv'
<1> DEFINE newest == Reverse(BookOrder(book))
           last == Min({page.offset + PageSize, Len(newest)})
           ids == SubSeq(newest, page.offset + 1, last)
           n == last - page.offset
           shown == [k \in DOMAIN ids |-> <<ids[k], BalanceEffect(book[ids[k]])>>]
<1>1. /\ page.pc = "rows" /\ book' = book
      /\ page' = [page EXCEPT !.pc = IF ids = <<>> THEN "start" ELSE "closing",
                              !.newest = IF ids = <<>> THEN 0 ELSE ids[1],
                              !.rows = shown]
  BY Zenon DEF ReadRows
<1>2. /\ book \in Seq(Operation) /\ page.offset \in Nat /\ page.balance = CashBalance(book)
      /\ DOMAIN page = DOMAIN NoPage
  BY <1>1 DEF CashInv, TypeOK, PageInv
<1>3. DOMAIN book = 1 .. Len(book) /\ Len(book) \in Nat
  BY <1>2
<1>4. Len(newest) = Len(book) /\ \A k \in 1 .. Len(book) : newest[k] = Newest(book, k)
  <2>1. DOMAIN BookOrder(book) = 1 .. Len(book)
    BY <1>3 DEF BookOrder
  <2>2. Len(BookOrder(book)) = Len(book)
    BY <1>3, <2>1
  <2>3. newest = [k \in 1 .. Len(book) |-> BookOrder(book)[Len(book) - k + 1]]
    BY <2>2 DEF Reverse
  <2>4. \A k \in 1 .. Len(book) : Len(book) - k + 1 = Len(book) + 1 - k
    BY <1>3
  <2> HIDE DEF newest
  <2>5. QED
    BY <1>3, <2>3, <2>4 DEF Newest
<1>5. last \in Nat /\ last <= Len(book)
  <2>1. page.offset + PageSize \in Nat
    BY <1>2, Limit
  <2> DEFINE a == page.offset + PageSize
             b == Len(newest)
  <2>2. a \in Nat /\ b \in Nat /\ b = Len(book)
    BY <1>3, <1>4, <2>1
  <2> HIDE DEF a, b
  <2>3. Min({a, b}) = IF a <= b THEN a ELSE b
    BY <2>2 DEF Min
  <2>4. QED
    BY <2>2, <2>3 DEF a, b
<1> HIDE DEF newest, last
<1>6. ids = [k \in 1 .. n |-> newest[k + page.offset]]
  BY <1>2, <1>4, <1>5
<1>7. CASE ids = <<>>
  <2>1. page'.pc = "start" /\ DOMAIN page' = DOMAIN NoPage
    BY <1>1, <1>2, <1>7 DEF NoPage
  <2>2. QED
    BY <2>1 DEF PageInv, PageAgreesWithBook
<1>8. CASE ids # <<>>
  <2>1. n \in Nat \ {0} /\ page.offset + n <= Len(book)
    <3>1. n \in Int
      BY <1>2, <1>5
    <3>2. n <= 0 => 1 .. n = 1 .. 0
      BY <3>1
    <3>3. ~ (n <= 0)
      <4> HIDE DEF n, ids
      <4>1. n <= 0 => ids = [k \in 1 .. 0 |-> newest[k + page.offset]]
        BY <1>6, <3>2
      <4>2. [k \in 1 .. 0 |-> newest[k + page.offset]] = <<>>
        OBVIOUS
      <4>3. QED
        BY <1>8, <4>1, <4>2
    <3>4. QED
      BY <1>2, <1>5, <3>1, <3>3
  <2> HIDE DEF n
  <2>2. OnPage(book, page.offset, n)
    BY <1>2, <2>1 DEF OnPage
  <2>3. \A k \in 1 .. n : /\ page.offset + k \in 1 .. Len(book)
                          /\ k + page.offset = page.offset + k
    BY <1>2, <1>3, <2>1
  <2>4. DOMAIN ids = 1 .. n /\ \A k \in 1 .. n : ids[k] = Newest(book, page.offset + k)
    BY <1>4, <1>6, <2>3
  <2> HIDE DEF ids
  <2>5. shown = EffectsOnPage(book, page.offset, n)
    BY <2>4 DEF EffectsOnPage
  <2>6. ids[1] = Newest(book, page.offset + 1)
    BY <2>1, <2>4
  <2> HIDE DEF shown
  <2>7. page' = [page EXCEPT !.pc = "closing", !.newest = ids[1], !.rows = shown]
    BY <1>1, <1>8
  <2>8. /\ page'.pc = "closing" /\ DOMAIN page' = DOMAIN NoPage
        /\ page'.offset = page.offset /\ page'.balance = page.balance
        /\ page'.rows = shown /\ page'.newest = ids[1]
    BY <1>2, <2>7 DEF NoPage
  <2>9. PageAgreesWithBook'
    BY <2>8 DEF PageAgreesWithBook
  <2>10. n \in Nat
    BY <2>1
  <2>11. \E m \in Nat :
           /\ OnPage(book', page'.offset, m)
           /\ page'.rows = EffectsOnPage(book', page'.offset, m)
           /\ page'.newest = Newest(book', page'.offset + 1)
    BY <1>1, <2>2, <2>5, <2>6, <2>8, <2>10
  <2>12. QED
    BY <1>1, <1>2, <2>8, <2>9, <2>11 DEF PageInv
<1>9. QED
  BY <1>7, <1>8

LEMMA ClosingIsRead ==
  ASSUME CashInv, PageInv, ReadClosing PROVE PageInv'
<1> DEFINE offset == page.offset
           closing == IF FirstPage(page.offset) THEN page.balance
                      ELSE Balance(UpTo(book, page.newest), book)
           opening == After(page.rows, closing, Len(page.rows))
           shown == [k \in DOMAIN page.rows |->
                       <<page.rows[k][1], After(page.rows, closing, k - 1)>>]
<1>1. /\ page.pc = "closing" /\ book' = book
      /\ page' = [page EXCEPT !.pc = "done", !.closing = closing, !.opening = opening,
                              !.rows = shown]
  BY Zenon DEF ReadClosing
<1>2. /\ book \in Seq(Operation) /\ offset \in Nat /\ page.balance = CashBalance(book)
      /\ DOMAIN page = DOMAIN NoPage
  BY <1>1 DEF CashInv, TypeOK, PageInv
<1>3. PICK n \in Nat :
        /\ OnPage(book, offset, n)
        /\ page.rows = EffectsOnPage(book, offset, n)
        /\ page.newest = Newest(book, offset + 1)
  BY <1>1 DEF PageInv
<1>4. Len(book) \in Nat /\ n \in 1 .. n /\ \A k \in 1 .. n : offset + k \in 1 .. Len(book)
  BY <1>2, <1>3 DEF OnPage
<1> DEFINE read == page.rows
<1>5. /\ DOMAIN read = 1 .. n /\ Len(read) = n
      /\ \A k \in 1 .. n : /\ read[k][1] = Newest(book, offset + k)
                           /\ read[k][2] = BalanceEffect(book[Newest(book, offset + k)])
  BY <1>3 DEF EffectsOnPage
<1>6. closing = BalanceAt(book, offset + 1)
  <2>1. CASE offset = 0
    <3>1. 1 \in 1 .. Len(book)
      BY <1>4, <2>1
    <3>2. BalanceAt(book, 1) = CashBalance(book)
      BY <1>2, <3>1, NewestRow
    <3>3. QED
      BY <1>2, <2>1, <3>2 DEF FirstPage
  <2>2. CASE offset # 0
    BY <1>3, <2>2 DEF FirstPage, BalanceAt
  <2>3. QED
    BY <2>1, <2>2
<1> HIDE DEF closing, offset
<1>7. \A k \in 1 .. n :
        /\ After(read, closing, k - 1) = BalanceAt(book, offset + k)
        /\ After(read, closing, k)
             = BalanceAt(book, offset + k) - BalanceEffect(book[Newest(book, offset + k)])
  <2> HIDE DEF read
  <2>1. read = EffectsOnPage(book, offset, n)
    BY <1>3 DEF read
  <2>2. \A k \in 1 .. n :
          /\ After(read, BalanceAt(book, offset + 1), k - 1) = BalanceAt(book, offset + k)
          /\ After(read, BalanceAt(book, offset + 1), k)
               = BalanceAt(book, offset + k) - BalanceEffect(book[Newest(book, offset + k)])
    BY <1>2, <1>3, <2>1, CountsBack
  <2>3. QED
    BY <1>6, <2>2
<1>8. /\ DOMAIN shown = 1 .. n /\ Len(shown) = n
      /\ \A k \in 1 .. n : shown[k] = <<Newest(book, offset + k), BalanceAt(book, offset + k)>>
  BY <1>5, <1>7
<1>9. opening = BalanceAt(book, offset + n) - BalanceEffect(book[Newest(book, offset + n)])
  BY <1>4, <1>5, <1>7
<1> HIDE DEF shown, opening, read
<1>10. /\ page'.pc = "done" /\ DOMAIN page' = DOMAIN NoPage
       /\ page'.offset = offset /\ page'.balance = page.balance
       /\ page'.rows = shown /\ page'.opening = opening
  BY <1>1, <1>2 DEF NoPage, offset
<1> DEFINE all == Rows(book)
           row(k) == all[Len(all) + 1 - (offset + k)]
<1>11. \A k \in 1 .. n : row(k) = <<Newest(book, offset + k), BalanceAt(book, offset + k)>>
  <2> HIDE DEF all
  <2>1. \A k \in 1 .. n : offset + k \in 1 .. Len(book)
    BY <1>4
  <2>2. QED
    BY <1>2, <2>1, RowOfBook DEF all
<1>12. page'.balance = DashboardBalance(book)
  BY <1>2, <1>10, DashboardIsBalance
<1>13. \A k \in DOMAIN page'.rows : page'.rows[k] = row(k)
  BY <1>8, <1>10, <1>11
<1>14. page'.opening = row(Len(page'.rows))[2] - BalanceEffect(book[row(Len(page'.rows))[1]])
  BY <1>4, <1>8, <1>9, <1>10, <1>11
<1>15. PageAgreesWithBook'
  BY <1>1, <1>10, <1>12, <1>13, <1>14 DEF PageAgreesWithBook
<1>16. QED
  BY <1>10, <1>15 DEF PageInv

LEMMA PageStep ==
  ASSUME CashInv, PageInv, [Next]_vars PROVE PageInv'
<1>1. ASSUME NEW s \in Session, NEW rows, Commit(s, rows) PROVE PageInv'
  <2>1. page' = IF page.pc = "start" THEN page ELSE Torn
    BY <1>1 DEF Commit
  <2>2. page'.pc \in {"start", "torn"} /\ DOMAIN page' = DOMAIN NoPage
    BY <2>1 DEF PageInv, Torn, NoPage
  <2>3. QED
    BY <2>2 DEF PageInv, PageAgreesWithBook
<1>2. ASSUME NEW s \in Session, CashOperation(s) \/ Correction(s) PROVE PageInv'
  BY <1>1, <1>2, RowIsBooked
<1>3. ASSUME NEW s \in Session, CancelOperation(s) \/ CancelPaymentOperations(s) PROVE PageInv'
  BY <1>1, <1>3, RowIsCancelled
<1>4. ASSUME book' = book, page' = page PROVE PageInv'
  BY <1>4 DEF PageInv, PageAgreesWithBook
<1>5. ASSUME book' = book, Answered PROVE PageInv'
  <2>1. page' = NoPage /\ page'.pc = "start"
    BY <1>5 DEF Answered, NoPage
  <2>2. QED
    BY <2>1 DEF PageInv, PageAgreesWithBook
<1>6. ASSUME NEW offset \in 0 .. MaxOperations - 1, ReadBalance(offset) PROVE PageInv'
  <2>1. /\ book' = book
        /\ page' = [NoPage EXCEPT !.pc = "rows", !.offset = offset, !.balance = CashBalance(book)]
    BY <1>6, Zenon DEF ReadBalance
  <2>2. /\ page'.pc = "rows" /\ DOMAIN page' = DOMAIN NoPage /\ page'.offset \in Nat
        /\ page'.balance = CashBalance(book')
    BY <2>1 DEF NoPage
  <2>3. QED
    BY <2>2 DEF PageInv, PageAgreesWithBook
<1>7. ASSUME \A s \in Session : /\ ~ CashOperation(s) /\ ~ Correction(s)
                                /\ ~ CancelOperation(s) /\ ~ CancelPaymentOperations(s)
      PROVE  PageInv'
  <2>1. /\ book' = book
        /\ \/ page' = page \/ Answered
           \/ \E offset \in 0 .. MaxOperations - 1 : ReadBalance(offset)
           \/ ReadRows \/ ReadClosing
    BY <1>7, BookStays
  <2>2. QED
    BY <1>4, <1>5, <1>6, <2>1, RowsAreRead, ClosingIsRead
<1>8. QED
  BY <1>2, <1>3, <1>7

\* A page that is read while nobody commits shows rows and balances of the whole book,
\* wherever it begins and however many rows a page has; the dashboard's balance is its.
THEOREM PagesAgree == Spec => []PageAgreesWithBook
<1>1. Init => CashInv /\ PageInv
  <2>1. Init => PageInv
    BY DEF Init, NoPage, PageInv, PageAgreesWithBook
  <2>2. QED
    BY <2>1, CashInit
<1>2. CashInv /\ PageInv /\ [Next]_vars => CashInv' /\ PageInv'
  BY CashStep, PageStep
<1>3. PageInv => PageAgreesWithBook
  BY DEF PageInv
<1>4. QED
  BY <1>1, <1>2, <1>3, PTL DEF Spec
=============================================================================
