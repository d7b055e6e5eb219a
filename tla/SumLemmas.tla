------------------------------ MODULE SumLemmas ------------------------------
(* Sums of integers over finite sets, SumFunctionOnSet of the community       *)
(* modules: what the sums of the models (the total of a document, what is     *)
(* settled of it, what a posting moves) need.  The sum is a recursive         *)
(* function; the proofs go by a smallest set for which a fact would fail,     *)
(* since finite sets are well-founded by inclusion.                           *)
EXTENDS Integers, Functions, FiniteSetTheorems, TLAPS

Pick(s) == CHOOSE x \in s : TRUE

\* g gives every subset of S the sum of f over it.
Adds(g, f, S) ==
    g = [s \in SUBSET S |-> IF s = {} THEN 0 ELSE f[Pick(s)] + g[s \ {Pick(s)}]]

LEMMA SumUnfold ==
  ASSUME NEW f, NEW S
  PROVE  SumFunctionOnSet(f, S) = (CHOOSE g : Adds(g, f, S))[S]
BY DEF SumFunctionOnSet, FoldFunctionOnSet, MapThenFoldSet, Adds, Pick

LEMMA PickIn == ASSUME NEW s, s # {} PROVE Pick(s) \in s
BY DEF Pick

\* A nonempty set of subsets of a finite set has a smallest one.
LEMMA Smallest ==
  ASSUME NEW S, IsFiniteSet(S), NEW T, T \subseteq SUBSET S, T # {}
  PROVE  \E x \in T : \A y \in T : y \subseteq x => y = x
<1>1. IsWellFoundedOn(StrictSubsetOrdering(S), SUBSET S)
  BY FS_FiniteSubsetsOfFinite, FS_StrictSubsetOrderingWellFounded
<1>2. PICK x \in T : \A y \in T : ~(<<y, x>> \in StrictSubsetOrdering(S))
  BY <1>1, WFMin
<1>3. ASSUME NEW y \in T, y \subseteq x PROVE y = x
  <2>1. <<y, x>> \notin StrictSubsetOrdering(S)
    BY <1>2
  <2>2. <<y, x>> \in (SUBSET S) \X (SUBSET S)
    OBVIOUS
  <2>3. QED
    BY <1>3, <2>1, <2>2 DEF StrictSubsetOrdering
<1>4. QED
  BY <1>2, <1>3

\* A finite set with a strict order, given as what lies below each element, has an
\* element nothing lies below.
LEMMA Least ==
  ASSUME NEW S, IsFiniteSet(S), S # {}, NEW below,
         \A x \in S : x \notin below[x],
         \A x, y \in S : y \in below[x] => below[y] \subseteq below[x]
  PROVE  \E x \in S : \A y \in S : y \notin below[x]
<1> DEFINE upTo(x) == S \cap (below[x] \cup {x})
           T == {upTo(x) : x \in S}
<1>1. PICK t \in T : \A y \in T : y \subseteq t => y = t
  <2>1. T \subseteq SUBSET S
    OBVIOUS
  <2>2. \A x \in S : upTo(x) \in T
    OBVIOUS
  <2> HIDE DEF T
  <2>3. T # {}
    BY <2>2
  <2>4. QED
    BY <2>1, <2>3, Smallest
<1>2. PICK x \in S : t = upTo(x)
  BY <1>1
<1>3. ASSUME NEW y \in S, y \in below[x] PROVE FALSE
  <2>1. upTo(y) \subseteq upTo(x) /\ upTo(y) \in T
    BY <1>3
  <2>2. upTo(y) = upTo(x) /\ x \in upTo(x)
    BY <2>1, <1>1, <1>2
  <2>3. QED
    BY <2>2, <1>3
<1>4. QED
  BY <1>3

\* Finitely many numbers have a least and a greatest.
LEMMA LeastAndGreatest ==
  ASSUME NEW S, S \subseteq Int, IsFiniteSet(S), S # {}
  PROVE  (\E x \in S : \A y \in S : x <= y) /\ (\E x \in S : \A y \in S : y <= x)
<1>1. \A x, y, z \in S : ~ x < x /\ (y < x /\ z < y => z < x)
  OBVIOUS
<1>2. ASSUME NEW below, below = [i \in S |-> {j \in S : j < i}]
      PROVE  \E x \in S : \A y \in S : y \notin below[x]
  <2>1. \A x \in S : x \notin below[x]
    BY <1>1, <1>2
  <2>2. \A x, y \in S : y \in below[x] => below[y] \subseteq below[x]
    BY <1>1, <1>2
  <2>3. QED
    BY ONLY <2>1, <2>2, Least, IsFiniteSet(S), S # {}
<1>3. ASSUME NEW above, above = [i \in S |-> {j \in S : i < j}]
      PROVE  \E x \in S : \A y \in S : y \notin above[x]
  <2>1. \A x \in S : x \notin above[x]
    BY <1>1, <1>3
  <2>2. \A x, y \in S : y \in above[x] => above[y] \subseteq above[x]
    BY <1>1, <1>3
  <2>3. QED
    BY ONLY <2>1, <2>2, Least, IsFiniteSet(S), S # {}
<1>4. \A x, y \in S : ~ y < x <=> x <= y
  OBVIOUS
<1>5. PICK below : below = [i \in S |-> {j \in S : j < i}]
  OBVIOUS
<1>6. PICK above : above = [i \in S |-> {j \in S : i < j}]
  OBVIOUS
<1>7. \E x \in S : \A y \in S : ~ y < x
  BY <1>2, <1>5
<1>8. \E x \in S : \A y \in S : ~ x < y
  BY <1>3, <1>6
<1>9. QED
  BY <1>4, <1>7, <1>8

\* Two functions that add f up agree.
LEMMA AddsAgree ==
  ASSUME NEW S, IsFiniteSet(S), NEW R, R \subseteq S, NEW f, NEW g, NEW h,
         Adds(g, f, S), Adds(h, f, R)
  PROVE  \A s \in SUBSET R : g[s] = h[s]
<1> DEFINE T == {s \in SUBSET R : g[s] # h[s]}
<1> SUFFICES ASSUME T # {} PROVE FALSE
  OBVIOUS
<1>1. PICK x \in T : \A y \in T : y \subseteq x => y = x
  <2>1. IsFiniteSet(R) /\ T \subseteq SUBSET R
    BY FS_Subset
  <2> HIDE DEF T
  <2>2. QED
    BY <2>1, Smallest
<1>2. x # {}
  BY DEF Adds
<1>3. Pick(x) \in x
  BY <1>2, PickIn
<1>4. g[x \ {Pick(x)}] = h[x \ {Pick(x)}]
  BY <1>1, <1>3
<1>5. /\ g[x] = f[Pick(x)] + g[x \ {Pick(x)}]
      /\ h[x] = f[Pick(x)] + h[x \ {Pick(x)}]
  BY <1>2 DEF Adds
<1>6. QED
  BY <1>1, <1>4, <1>5

\* There is one for every finite set.
LEMMA AddsExists ==
  ASSUME NEW S, IsFiniteSet(S), NEW f
  PROVE  \E g : Adds(g, f, S)
<1> DEFINE T == {s \in SUBSET S : ~ \E g : Adds(g, f, s)}
           H(s) == CHOOSE g : Adds(g, f, s)
<1> SUFFICES ASSUME T # {} PROVE FALSE
  OBVIOUS
<1>1. PICK x \in T : \A y \in T : y \subseteq x => y = x
  <2>1. T \subseteq SUBSET S
    OBVIOUS
  <2> HIDE DEF T
  <2>2. QED
    BY <2>1, Smallest
<1>2. \A s \in SUBSET x : s # x => Adds(H(s), f, s)
  <2> SUFFICES ASSUME NEW s \in SUBSET x, s # x PROVE Adds(H(s), f, s)
    OBVIOUS
  <2>1. \E g : Adds(g, f, s)
    BY <1>1
  <2>2. QED
    BY <2>1
<1>3. IsFiniteSet(x)
  BY FS_Subset
<1> DEFINE g == [s \in SUBSET x |-> IF s = {} THEN 0
                                    ELSE f[Pick(s)] + H(s \ {Pick(s)})[s \ {Pick(s)}]]
<1>4. ASSUME NEW r \in SUBSET x, r # x PROVE g[r] = H(r)[r]
  <2>1. Adds(H(r), f, r)
    BY <1>2, <1>4
  <2>2. CASE r = {}
    BY <2>1, <2>2 DEF Adds
  <2>3. CASE r # {}
    <3> DEFINE q == r \ {Pick(r)}
    <3>1. q \in SUBSET r /\ q # x /\ q \in SUBSET x
      BY <1>4, <2>3, PickIn
    <3>2. Adds(H(q), f, q)
      BY <1>2, <3>1
    <3>3. IsFiniteSet(r)
      BY <1>3, FS_Subset
    <3> HIDE DEF H, q
    <3>4. H(r)[q] = H(q)[q]
      BY <2>1, <3>1, <3>2, <3>3, AddsAgree
    <3>5. H(r)[r] = f[Pick(r)] + H(r)[q]
      BY <2>1, <2>3 DEF Adds, q
    <3>6. g[r] = f[Pick(r)] + H(q)[q]
      BY <2>3 DEF q
    <3>7. QED
      BY <3>4, <3>5, <3>6
  <2>4. QED
    BY <2>2, <2>3
<1>5. Adds(g, f, x)
  <2>1. ASSUME NEW s \in SUBSET x
        PROVE  g[s] = IF s = {} THEN 0 ELSE f[Pick(s)] + g[s \ {Pick(s)}]
    <3>1. CASE s = {}
      BY <3>1
    <3>2. CASE s # {}
      <4>1. s \ {Pick(s)} \in SUBSET x /\ s \ {Pick(s)} # x
        BY <3>2, PickIn
      <4>2. g[s \ {Pick(s)}] = H(s \ {Pick(s)})[s \ {Pick(s)}]
        BY <1>4, <4>1
      <4> HIDE DEF H
      <4>3. g[s] = f[Pick(s)] + H(s \ {Pick(s)})[s \ {Pick(s)}]
        BY <3>2
      <4>4. QED
        BY <3>2, <4>2, <4>3
    <3>3. QED
      BY <3>1, <3>2
  <2>2. g = [s \in SUBSET x |-> g[s]]
    OBVIOUS
  <2> HIDE DEF g
  <2>3. QED
    BY <2>1, <2>2 DEF Adds
<1>6. QED
  BY <1>1, <1>5

\* The equations of a sum.
LEMMA SumEmpty == ASSUME NEW f PROVE SumFunctionOnSet(f, {}) = 0
<1> DEFINE g == CHOOSE g : Adds(g, f, {})
<1>1. Adds(g, f, {})
  <2>1. \E h : Adds(h, f, {})
    BY FS_EmptySet, AddsExists
  <2>2. QED
    BY <2>1
<1>2. g[{}] = 0
  BY <1>1 DEF Adds
<1>3. QED
  BY <1>2, SumUnfold

LEMMA SumPick ==
  ASSUME NEW S, IsFiniteSet(S), S # {}, NEW f
  PROVE  SumFunctionOnSet(f, S) = f[Pick(S)] + SumFunctionOnSet(f, S \ {Pick(S)})
<1> DEFINE R == S \ {Pick(S)}
           g == CHOOSE g : Adds(g, f, S)
           h == CHOOSE h : Adds(h, f, R)
<1>1. IsFiniteSet(R) /\ R \subseteq S
  BY FS_RemoveElement
<1>2. Adds(g, f, S)
  BY AddsExists
<1>3. Adds(h, f, R)
  BY <1>1, AddsExists
<1>4. SumFunctionOnSet(f, S) = g[S] /\ SumFunctionOnSet(f, R) = h[R]
  BY SumUnfold
<1> HIDE DEF g, h
<1>5. g[R] = h[R]
  BY <1>1, <1>2, <1>3, AddsAgree
<1>6. g[S] = f[Pick(S)] + g[R]
  BY <1>2 DEF Adds
<1>7. QED
  BY <1>4, <1>5, <1>6
-----------------------------------------------------------------------------
\* A sum of integers is an integer.
LEMMA SumInt ==
  ASSUME NEW S, IsFiniteSet(S), NEW f, \A x \in S : f[x] \in Int
  PROVE  SumFunctionOnSet(f, S) \in Int
<1> DEFINE T == {s \in SUBSET S : SumFunctionOnSet(f, s) \notin Int}
<1> SUFFICES ASSUME T # {} PROVE FALSE
  OBVIOUS
<1>1. PICK x \in T : \A y \in T : y \subseteq x => y = x
  <2>1. T \subseteq SUBSET S
    OBVIOUS
  <2> HIDE DEF T
  <2>2. QED
    BY <2>1, Smallest
<1>2. x # {}
  BY SumEmpty
<1>3. IsFiniteSet(x) /\ Pick(x) \in x
  BY <1>2, FS_Subset, PickIn
<1>4. x \ {Pick(x)} \notin T
  BY <1>1, <1>3
<1>5. SumFunctionOnSet(f, x \ {Pick(x)}) \in Int /\ f[Pick(x)] \in Int
  BY <1>3, <1>4
<1>6. SumFunctionOnSet(f, x) = f[Pick(x)] + SumFunctionOnSet(f, x \ {Pick(x)})
  BY <1>2, <1>3, SumPick
<1>7. SumFunctionOnSet(f, x) \in Int
  BY <1>5, <1>6
<1>8. QED
  BY <1>7

\* An element can be taken out of a sum.
LEMMA SumRemove ==
  ASSUME NEW S, IsFiniteSet(S), NEW f, \A x \in S : f[x] \in Int, NEW a \in S
  PROVE  SumFunctionOnSet(f, S) = f[a] + SumFunctionOnSet(f, S \ {a})
<1> DEFINE Sum(s) == SumFunctionOnSet(f, s)
           T == {s \in SUBSET S : \E b \in s : Sum(s) # f[b] + Sum(s \ {b})}
<1> SUFFICES ASSUME T # {} PROVE FALSE
  OBVIOUS
<1>1. PICK x \in T : \A y \in T : y \subseteq x => y = x
  <2>1. T \subseteq SUBSET S
    OBVIOUS
  <2> HIDE DEF T
  <2>2. QED
    BY <2>1, Smallest
<1>2. PICK b \in x : Sum(x) # f[b] + Sum(x \ {b})
  OBVIOUS
<1> DEFINE p == Pick(x)
           r == (x \ {p}) \ {b}
<1>3. IsFiniteSet(x) /\ p \in x /\ x \in SUBSET S
  BY <1>2, FS_Subset, PickIn
<1>4. Sum(x) = f[p] + Sum(x \ {p})
  BY <1>3, SumPick
<1>5. b # p
  BY <1>2, <1>4
<1>6. x \ {p} \notin T /\ x \ {b} \notin T
  BY <1>1, <1>3
<1>7. Sum(x \ {p}) = f[b] + Sum(r)
  BY <1>3, <1>5, <1>6
<1>8. Sum(x \ {b}) = f[p] + Sum((x \ {b}) \ {p})
  BY <1>3, <1>5, <1>6
<1>9. (x \ {b}) \ {p} = r
  OBVIOUS
<1>10. f[b] \in Int /\ f[p] \in Int /\ Sum(r) \in Int
  <2>1. IsFiniteSet(r) /\ r \subseteq S
    BY <1>3, FS_RemoveElement
  <2>2. QED
    BY <1>3, <2>1, SumInt
<1>11. Sum(x \ {b}) = f[p] + Sum(r)
  BY <1>8, <1>9
<1> HIDE DEF T, Sum, p, r
<1>12. Sum(x) = f[b] + Sum(x \ {b})
  BY <1>4, <1>7, <1>10, <1>11
<1>13. QED
  BY <1>2, <1>12
\* A sum of natural numbers is one, and no more than a sum of larger ones.
LEMMA SumLess ==
  ASSUME NEW S, IsFiniteSet(S), NEW f, NEW g,
         \A x \in S : f[x] \in Int /\ g[x] \in Int /\ f[x] <= g[x]
  PROVE  SumFunctionOnSet(f, S) <= SumFunctionOnSet(g, S)
<1> DEFINE T == {s \in SUBSET S : ~(SumFunctionOnSet(f, s) <= SumFunctionOnSet(g, s))}
<1> SUFFICES ASSUME T # {} PROVE FALSE
  OBVIOUS
<1>1. PICK x \in T : \A y \in T : y \subseteq x => y = x
  <2>1. T \subseteq SUBSET S
    OBVIOUS
  <2> HIDE DEF T
  <2>2. QED
    BY <2>1, Smallest
<1>2. x # {}
  BY SumEmpty
<1> DEFINE p == Pick(x)
           r == x \ {p}
<1>3. IsFiniteSet(x) /\ p \in x /\ IsFiniteSet(r) /\ r \subseteq S
  BY <1>2, FS_Subset, PickIn
<1>4. r \notin T
  BY <1>1, <1>3
<1>5. SumFunctionOnSet(f, r) <= SumFunctionOnSet(g, r)
  BY <1>3, <1>4
<1>6. SumFunctionOnSet(f, r) \in Int /\ SumFunctionOnSet(g, r) \in Int
  <2> HIDE DEF r
  <2>1. QED
    BY <1>3, SumInt
<1>7. /\ SumFunctionOnSet(f, x) = f[p] + SumFunctionOnSet(f, r)
      /\ SumFunctionOnSet(g, x) = g[p] + SumFunctionOnSet(g, r)
  BY <1>2, <1>3, SumPick
<1>8. f[p] \in Int /\ g[p] \in Int /\ f[p] <= g[p]
  BY <1>3
<1>9. SumFunctionOnSet(f, x) <= SumFunctionOnSet(g, x)
  <2> HIDE DEF p, r
  <2>1. QED
    BY <1>5, <1>6, <1>7, <1>8
<1>10. QED
  BY <1>9

LEMMA SumSame ==
  ASSUME NEW S, IsFiniteSet(S), NEW f, NEW g, \A x \in S : f[x] \in Int /\ f[x] = g[x]
  PROVE  SumFunctionOnSet(f, S) = SumFunctionOnSet(g, S)
<1>1. /\ SumFunctionOnSet(f, S) <= SumFunctionOnSet(g, S)
      /\ SumFunctionOnSet(g, S) <= SumFunctionOnSet(f, S)
      /\ SumFunctionOnSet(f, S) \in Int /\ SumFunctionOnSet(g, S) \in Int
  BY SumLess, SumInt
<1>2. QED
  BY <1>1

\* Functions that differ in one place have sums that differ by as much.
LEMMA SumChange ==
  ASSUME NEW S, IsFiniteSet(S), NEW f, NEW g, NEW a \in S,
         \A x \in S : f[x] \in Int /\ g[x] \in Int /\ (x # a => f[x] = g[x])
  PROVE  SumFunctionOnSet(g, S) = SumFunctionOnSet(f, S) + g[a] - f[a]
<1> DEFINE r == S \ {a}
<1>1. /\ SumFunctionOnSet(f, S) = f[a] + SumFunctionOnSet(f, r)
      /\ SumFunctionOnSet(g, S) = g[a] + SumFunctionOnSet(g, r)
  BY SumRemove
<1>2. IsFiniteSet(r) /\ \A x \in r : f[x] \in Int /\ f[x] = g[x]
  BY FS_RemoveElement
<1> HIDE DEF r
<1>3. SumFunctionOnSet(f, r) = SumFunctionOnSet(g, r) /\ SumFunctionOnSet(f, r) \in Int
  BY <1>2, SumSame, SumInt
<1>4. QED
  BY <1>1, <1>3

\* What is 0 adds nothing.
LEMMA SumNothing ==
  ASSUME NEW S, IsFiniteSet(S), NEW f, \A x \in S : f[x] = 0
  PROVE  SumFunctionOnSet(f, S) = 0
<1> DEFINE T == {s \in SUBSET S : SumFunctionOnSet(f, s) # 0}
<1> SUFFICES ASSUME T # {} PROVE FALSE
  OBVIOUS
<1>1. PICK x \in T : \A y \in T : y \subseteq x => y = x
  <2>1. T \subseteq SUBSET S
    OBVIOUS
  <2> HIDE DEF T
  <2>2. QED
    BY <2>1, Smallest
<1>2. x # {}
  BY SumEmpty
<1>3. IsFiniteSet(x) /\ Pick(x) \in x
  BY <1>2, FS_Subset, PickIn
<1>4. SumFunctionOnSet(f, x \ {Pick(x)}) = 0 /\ f[Pick(x)] = 0
  BY <1>1, <1>3
<1>5. SumFunctionOnSet(f, x) = f[Pick(x)] + SumFunctionOnSet(f, x \ {Pick(x)})
  BY <1>2, <1>3, SumPick
<1>6. SumFunctionOnSet(f, x) = 0
  BY <1>4, <1>5
<1>7. QED
  BY <1>6

\* The sum over a set is that over the part where there is something to add.
LEMMA SumSupport ==
  ASSUME NEW S, IsFiniteSet(S), NEW R, R \subseteq S, NEW f,
         \A x \in S : f[x] \in Int /\ (x \notin R => f[x] = 0)
  PROVE  SumFunctionOnSet(f, R) = SumFunctionOnSet(f, S)
<1> DEFINE T == {s \in SUBSET S : R \subseteq s /\ SumFunctionOnSet(f, s) # SumFunctionOnSet(f, R)}
<1> SUFFICES ASSUME T # {} PROVE FALSE
  OBVIOUS
<1>1. PICK x \in T : \A y \in T : y \subseteq x => y = x
  <2>1. T \subseteq SUBSET S
    OBVIOUS
  <2> HIDE DEF T
  <2>2. QED
    BY <2>1, Smallest
<1>2. PICK a \in x : a \notin R
  <2>1. x # R /\ R \subseteq x
    OBVIOUS
  <2>2. QED
    BY <2>1
<1>3. IsFiniteSet(x) /\ a \in S /\ f[a] = 0 /\ \A y \in x : f[y] \in Int
  BY <1>2, FS_Subset
<1>4. x \ {a} \notin T
  BY <1>1, <1>2
<1>5. SumFunctionOnSet(f, x \ {a}) = SumFunctionOnSet(f, R)
  BY <1>2, <1>4
<1>6. SumFunctionOnSet(f, x) = f[a] + SumFunctionOnSet(f, x \ {a})
  BY <1>3, SumRemove
<1>7. SumFunctionOnSet(f, R) \in Int
  <2>1. IsFiniteSet(R) /\ \A y \in R : f[y] \in Int
    BY FS_Subset
  <2>2. QED
    BY <2>1, SumInt
<1>8. SumFunctionOnSet(f, x) = SumFunctionOnSet(f, R)
  BY <1>3, <1>5, <1>6, <1>7
<1>9. QED
  BY <1>8

LEMMA SumNat ==
  ASSUME NEW S, IsFiniteSet(S), NEW f, \A x \in S : f[x] \in Nat
  PROVE  SumFunctionOnSet(f, S) \in Nat
<1> DEFINE z == [x \in S |-> 0]
<1>1. \A x \in S : z[x] \in Int /\ f[x] \in Int /\ z[x] <= f[x] /\ z[x] = 0
  OBVIOUS
<1> HIDE DEF z
<1>2. SumFunctionOnSet(z, S) = 0 /\ SumFunctionOnSet(z, S) <= SumFunctionOnSet(f, S)
  BY <1>1, SumNothing, SumLess
<1>3. SumFunctionOnSet(f, S) \in Int
  BY <1>1, SumInt
<1>4. QED
  BY <1>2, <1>3

\* The sum over two sets without common element.
LEMMA SumUnion ==
  ASSUME NEW A, IsFiniteSet(A), NEW B, IsFiniteSet(B), A \cap B = {},
         NEW f, \A x \in A \cup B : f[x] \in Int
  PROVE  SumFunctionOnSet(f, A \cup B) = SumFunctionOnSet(f, A) + SumFunctionOnSet(f, B)
<1> DEFINE Sum(s) == SumFunctionOnSet(f, s)
           T == {s \in SUBSET A : Sum(s \cup B) # Sum(s) + Sum(B)}
<1> SUFFICES ASSUME T # {} PROVE FALSE
  OBVIOUS
<1>1. PICK x \in T : \A y \in T : y \subseteq x => y = x
  <2>1. T \subseteq SUBSET A
    OBVIOUS
  <2> HIDE DEF T
  <2>2. QED
    BY <2>1, Smallest
<1>2. Sum(B) \in Int
  BY SumInt
<1>3. x # {}
  <2>1. Sum({}) = 0
    BY SumEmpty
  <2>2. Sum({} \cup B) = Sum({}) + Sum(B)
    <3>1. {} \cup B = B
      OBVIOUS
    <3> HIDE DEF Sum
    <3>2. QED
      BY <1>2, <2>1, <3>1
  <2>3. QED
    BY <1>1, <2>2
<1> DEFINE p == Pick(x)
           r == x \ {p}
<1>4. /\ p \in x /\ r \subseteq A
      /\ IsFiniteSet(x) /\ IsFiniteSet(r) /\ IsFiniteSet(x \cup B)
      /\ (x \cup B) \ {p} = r \cup B
  BY <1>3, FS_Subset, FS_Union, PickIn
<1>5. Sum(r \cup B) = Sum(r) + Sum(B)
  BY <1>1, <1>4
<1>6. Sum(x) = f[p] + Sum(r) /\ Sum(r) \in Int
  BY <1>4, SumRemove, SumInt
<1>7. Sum(x \cup B) = f[p] + Sum(r \cup B)
  <2>1. \A y \in x \cup B : f[y] \in Int
    OBVIOUS
  <2>2. p \in x \cup B
    BY <1>4
  <2>3. Sum(x \cup B) = f[p] + Sum((x \cup B) \ {p})
    BY <1>4, <2>1, <2>2, SumRemove
  <2>4. QED
    BY <1>4, <2>3
<1>8. f[p] \in Int
  BY <1>4
<1> HIDE DEF p, r, Sum
<1>9. Sum(x \cup B) = Sum(x) + Sum(B)
  BY <1>2, <1>5, <1>6, <1>7, <1>8
<1>10. QED
  BY <1>1, <1>9

\* The elements of R that are of one of the classes C.
OfClass(class, R, C) == {i \in R : class[i] \in C}

\* g gives every class of S the sum of f over its elements.
ByClass(g, f, class, R, S) ==
  /\ \A i \in R : f[i] \in Int
  /\ \A e \in S : g[e] = SumFunctionOnSet(f, OfClass(class, R, {e}))

\* A sum over the elements of some classes is the sum of the sums of each class.
LEMMA SumOfClasses ==
  ASSUME NEW S, IsFiniteSet(S), NEW R, IsFiniteSet(R), NEW class, NEW f, NEW g,
         ByClass(g, f, class, R, S)
  PROVE  SumFunctionOnSet(g, S) = SumFunctionOnSet(f, OfClass(class, R, S))
<1> USE DEF ByClass
<1> DEFINE Of(s) == OfClass(class, R, s)
           T == {s \in SUBSET S : SumFunctionOnSet(g, s) # SumFunctionOnSet(f, Of(s))}
<1> SUFFICES ASSUME T # {} PROVE FALSE
  OBVIOUS
<1>1. PICK x \in T : \A y \in T : y \subseteq x => y = x
  <2>1. T \subseteq SUBSET S
    OBVIOUS
  <2> HIDE DEF T
  <2>2. QED
    BY <2>1, Smallest
<1>2. x # {}
  <2>1. Of({}) = {}
    BY DEF OfClass
  <2>2. QED
    BY <2>1, SumEmpty
<1> DEFINE p == Pick(x)
           r == x \ {p}
           c == Of({p})
<1>3. p \in x /\ IsFiniteSet(x) /\ r \in SUBSET S
  BY <1>2, FS_Subset, PickIn
<1>4. SumFunctionOnSet(g, r) = SumFunctionOnSet(f, Of(r))
  BY <1>1, <1>3
<1>5. SumFunctionOnSet(g, x) = g[p] + SumFunctionOnSet(g, r)
  BY <1>2, <1>3, SumPick
<1>6. g[p] = SumFunctionOnSet(f, c)
  BY <1>3
<1>7. /\ Of(x) = c \cup Of(r) /\ c \cap Of(r) = {}
      /\ IsFiniteSet(c) /\ IsFiniteSet(Of(r))
      /\ \A i \in c \cup Of(r) : f[i] \in Int
  BY <1>3, FS_Subset DEF OfClass
<1> HIDE DEF Of, c, p, r
<1>8. SumFunctionOnSet(f, c \cup Of(r)) = SumFunctionOnSet(f, c) + SumFunctionOnSet(f, Of(r))
  BY <1>7, SumUnion
<1>9. SumFunctionOnSet(g, x) = SumFunctionOnSet(f, Of(x))
  BY <1>4, <1>5, <1>6, <1>7, <1>8
<1>10. QED
  BY <1>1, <1>9

LEMMA SumByClass ==
  ASSUME NEW S, IsFiniteSet(S), NEW R, IsFiniteSet(R), NEW class,
         NEW f, \A i \in R : f[i] \in Int,
         NEW g, \A e \in S : g[e] = SumFunctionOnSet(f, OfClass(class, R, {e}))
  PROVE  SumFunctionOnSet(g, S) = SumFunctionOnSet(f, OfClass(class, R, S))
<1>1. ByClass(g, f, class, R, S)
  BY DEF ByClass
<1>2. QED
  BY <1>1, SumOfClasses

\* Sums of two functions, added up.
LEMMA SumAdd ==
  ASSUME NEW S, IsFiniteSet(S), NEW f, NEW g, NEW h,
         \A x \in S : f[x] \in Int /\ g[x] \in Int /\ h[x] = f[x] + g[x]
  PROVE  SumFunctionOnSet(h, S) = SumFunctionOnSet(f, S) + SumFunctionOnSet(g, S)
<1> DEFINE T == {s \in SUBSET S : SumFunctionOnSet(h, s)
                                    # SumFunctionOnSet(f, s) + SumFunctionOnSet(g, s)}
<1> SUFFICES ASSUME T # {} PROVE FALSE
  OBVIOUS
<1>1. PICK x \in T : \A y \in T : y \subseteq x => y = x
  <2>1. T \subseteq SUBSET S
    OBVIOUS
  <2> HIDE DEF T
  <2>2. QED
    BY <2>1, Smallest
<1>2. x # {}
  <2>1. SumFunctionOnSet(h, {}) = 0 /\ SumFunctionOnSet(f, {}) = 0 /\ SumFunctionOnSet(g, {}) = 0
    BY SumEmpty
  <2>2. SumFunctionOnSet(h, x) # SumFunctionOnSet(f, x) + SumFunctionOnSet(g, x)
    OBVIOUS
  <2>3. SUFFICES ASSUME x = {} PROVE FALSE
    OBVIOUS
  <2> HIDE DEF T
  <2>4. 0 # 0 + 0
    BY ONLY <2>1, <2>2, <2>3
  <2>5. QED
    BY <2>4
<1> DEFINE p == Pick(x)
           r == x \ {p}
<1>3. p \in x /\ IsFiniteSet(x) /\ r \in SUBSET S /\ IsFiniteSet(r) /\ x \in SUBSET S
  BY <1>2, FS_Subset, PickIn
<1>4. SumFunctionOnSet(h, r) = SumFunctionOnSet(f, r) + SumFunctionOnSet(g, r)
  BY <1>1, <1>3
<1>5. /\ SumFunctionOnSet(h, x) = h[p] + SumFunctionOnSet(h, r)
      /\ SumFunctionOnSet(f, x) = f[p] + SumFunctionOnSet(f, r)
      /\ SumFunctionOnSet(g, x) = g[p] + SumFunctionOnSet(g, r)
  BY <1>2, <1>3, SumPick
<1>6. SumFunctionOnSet(f, r) \in Int /\ SumFunctionOnSet(g, r) \in Int
  BY <1>3, SumInt
<1>7. f[p] \in Int /\ g[p] \in Int /\ h[p] = f[p] + g[p]
  BY <1>3
<1>8. SumFunctionOnSet(h, x) = SumFunctionOnSet(f, x) + SumFunctionOnSet(g, x)
  <2> HIDE DEF T, p, r
  <2>1. QED
    BY ONLY <1>4, <1>5, <1>6, <1>7
<1>9. QED
  BY <1>1, <1>8

\* The sum over one set less the sum over another is the sum of the signed amounts.
LEMMA SumSigned ==
  ASSUME NEW S, IsFiniteSet(S), NEW A, NEW B, A \subseteq S, B \subseteq S, A \cap B = {},
         NEW f, \A x \in S : f[x] \in Int,
         NEW e, \A x \in S : e[x] = (IF x \in A THEN f[x] ELSE IF x \in B THEN - f[x] ELSE 0)
  PROVE  SumFunctionOnSet(e, S) = SumFunctionOnSet(f, A) - SumFunctionOnSet(f, B)
<1>1. PICK a : a = [x \in S |-> IF x \in A THEN f[x] ELSE 0]
  OBVIOUS
<1>2. PICK b : b = [x \in S |-> IF x \in B THEN f[x] ELSE 0]
  OBVIOUS
<1>3. /\ \A x \in S : a[x] \in Int /\ (x \notin A => a[x] = 0)
      /\ \A x \in S : b[x] \in Int /\ (x \notin B => b[x] = 0)
      /\ \A x \in A : f[x] \in Int /\ f[x] = a[x]
      /\ \A x \in B : f[x] \in Int /\ f[x] = b[x]
  BY <1>1, <1>2
<1>4. \A x \in S : e[x] \in Int /\ b[x] \in Int /\ a[x] = e[x] + b[x]
  BY <1>1, <1>2
<1>5. IsFiniteSet(A) /\ IsFiniteSet(B)
  BY FS_Subset
<1>6. SumFunctionOnSet(a, S) = SumFunctionOnSet(e, S) + SumFunctionOnSet(b, S)
  BY ONLY <1>4, IsFiniteSet(S), SumAdd
<1>7. SumFunctionOnSet(a, A) = SumFunctionOnSet(a, S)
  BY <1>3, SumSupport
<1>8. SumFunctionOnSet(b, B) = SumFunctionOnSet(b, S)
  BY <1>3, SumSupport
<1>9. SumFunctionOnSet(f, A) = SumFunctionOnSet(a, A)
  BY ONLY <1>3, <1>5, SumSame
<1>10. SumFunctionOnSet(f, B) = SumFunctionOnSet(b, B)
  BY ONLY <1>3, <1>5, SumSame
<1>11. SumFunctionOnSet(e, S) \in Int /\ SumFunctionOnSet(b, S) \in Int
  BY <1>3, <1>4, SumInt
<1>12. QED
  BY ONLY <1>6, <1>7, <1>8, <1>9, <1>10, <1>11

LEMMA SumOne == ASSUME NEW a, NEW f, f[a] \in Int PROVE SumFunctionOnSet(f, {a}) = f[a]
<1>1. IsFiniteSet({a}) /\ \A x \in {a} : f[x] \in Int
  BY FS_Singleton
<1>2. SumFunctionOnSet(f, {a}) = f[a] + SumFunctionOnSet(f, {a} \ {a})
  BY <1>1, SumRemove
<1>3. {a} \ {a} = {}
  OBVIOUS
<1>4. QED
  BY <1>2, <1>3, SumEmpty

\* The same numbers under other names.
LEMMA SumRenamed ==
  ASSUME NEW R, IsFiniteSet(R), NEW name, \A i, j \in R : name[i] = name[j] => i = j,
         NEW f, NEW g, \A i \in R : f[i] \in Int /\ g[name[i]] = f[i]
  PROVE  SumFunctionOnSet(g, {name[i] : i \in R}) = SumFunctionOnSet(f, R)
<1> DEFINE N(s) == {name[i] : i \in s}
           T == {s \in SUBSET R : SumFunctionOnSet(g, N(s)) # SumFunctionOnSet(f, s)}
<1> SUFFICES ASSUME T # {} PROVE FALSE
  OBVIOUS
<1>1. PICK x \in T : \A y \in T : y \subseteq x => y = x
  <2>1. T \subseteq SUBSET R
    OBVIOUS
  <2> HIDE DEF T
  <2>2. QED
    BY <2>1, Smallest
<1>2. x # {}
  <2>1. N({}) = {}
    OBVIOUS
  <2>2. QED
    BY <2>1, SumEmpty
<1> DEFINE p == Pick(x)
           r == x \ {p}
<1>3. p \in x /\ IsFiniteSet(x) /\ r \in SUBSET R /\ x \in SUBSET R
  BY <1>2, FS_Subset, PickIn
<1>4. SumFunctionOnSet(g, N(r)) = SumFunctionOnSet(f, r)
  BY <1>1, <1>3
<1>5. SumFunctionOnSet(f, x) = f[p] + SumFunctionOnSet(f, r)
  BY <1>2, <1>3, SumPick
<1>6. IsFiniteSet(N(x))
  <2>1. PICK n : n = [i \in x |-> name[i]]
    OBVIOUS
  <2>2. n \in Surjection(x, N(x))
    BY <2>1 DEF Surjection
  <2>3. QED
    BY <1>3, <2>2, FS_Surjection
<1>7. /\ name[p] \in N(x) /\ N(x) \ {name[p]} = N(r) /\ \A e \in N(x) : g[e] \in Int
      /\ g[name[p]] = f[p]
  BY <1>3
<1>8. SumFunctionOnSet(g, N(x)) = g[name[p]] + SumFunctionOnSet(g, N(x) \ {name[p]})
  <2> HIDE DEF N, p
  <2>1. QED
    BY <1>6, <1>7, SumRemove
<1>9. SumFunctionOnSet(g, N(x)) = SumFunctionOnSet(f, x)
  BY <1>4, <1>5, <1>7, <1>8
<1>10. QED
  BY <1>1, <1>9

\* Some of the numbers add up to no more than all of them.
LEMMA SumPart ==
  ASSUME NEW S, IsFiniteSet(S), NEW R, R \subseteq S, NEW f, \A x \in S : f[x] \in Nat
  PROVE  SumFunctionOnSet(f, R) <= SumFunctionOnSet(f, S)
<1>1. IsFiniteSet(R) /\ IsFiniteSet(S \ R) /\ R \cup (S \ R) = S /\ R \cap (S \ R) = {}
  BY FS_Subset
<1>2. SumFunctionOnSet(f, R \cup (S \ R)) = SumFunctionOnSet(f, R) + SumFunctionOnSet(f, S \ R)
  BY <1>1, SumUnion
<1>3. SumFunctionOnSet(f, R) \in Nat /\ SumFunctionOnSet(f, S \ R) \in Nat
  BY <1>1, SumNat
<1>4. SumFunctionOnSet(f, S) = SumFunctionOnSet(f, R) + SumFunctionOnSet(f, S \ R)
  BY <1>1, <1>2
<1>5. QED
  BY ONLY <1>3, <1>4
=============================================================================
