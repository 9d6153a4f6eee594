---------------------- MODULE KarmarkarKarpProofs ----------------------
(* What karmarkar_karp returns, for every list of weights and every number *)
(* of partitions.                                                          *)
EXTENDS KarmarkarKarp, FiniteSetTheorems, TLAPS

StateType == [1..k -> [sum : Nat, items : SUBSET Items]]
KKTypeOK == /\ weight \in Seq(Nat) /\ k \in Nat \ {0} /\ equal \in BOOLEAN
            /\ heap \in SUBSET StateType /\ IsFiniteSet(heap)

\* There are enough items, and for sets of equal size a multiple.
Enough == heap # {} => k <= Len(weight) /\ (equal => Len(weight) % k = 0)

\* What has no item weighs nothing, so that in decreasing order it comes last.
EmptyIsLight == \A s \in heap : \A i \in 1..k : s[i].items = {} => s[i].sum = 0
InOrder == \A s \in heap : Decreasing(s)

\* The sets of a State are of one size; or, when sizes are free, none is empty or none has two items.
OneSize(s) == \A i, j \in 1..k : /\ s[i].items # {}
                                 /\ Cardinality(s[i].items) = Cardinality(s[j].items)
NoneBare(s) == \A i \in 1..k : s[i].items # {}
NoneTwo(s) == \A i \in 1..k : \A x, y \in s[i].items : x = y
Alike == \A s \in heap : IF equal THEN OneSize(s) ELSE NoneBare(s) \/ NoneTwo(s)

KKInv == KKTypeOK /\ Enough /\ EmptyIsLight /\ InOrder /\ EachItemOnce /\ Alike /\ SpreadBounded

-----------------------------------------------------------------------------
\* The sorted list

Below(w, x) == {y \in 1..Len(w) : w[y] < w[x] \/ (w[y] = w[x] /\ y <= x)}
Precedes(w, x, y) == w[x] < w[y] \/ (w[x] = w[y] /\ x < y)

\* An item that precedes another has the lower place; places are positions of the list.
LEMMA PlaceOrder ==
    ASSUME NEW w \in Seq(Nat), NEW x \in 1..Len(w), NEW y \in 1..Len(w)
    PROVE  /\ Place(w, x) \in 1..Len(w)
           /\ Precedes(w, x, y) => Place(w, x) < Place(w, y)
<1>1. IsFiniteSet(1..Len(w)) /\ Cardinality(1..Len(w)) = Len(w) /\ Len(w) \in Nat
  <2>1. Len(w) \in Nat /\ Len(w) \in Int /\ 1 \in Int /\ ~(1 > Len(w)) /\ Len(w) - 1 + 1 = Len(w)
      OBVIOUS
  <2>2. /\ IsFiniteSet(1..Len(w))
        /\ Cardinality(1..Len(w)) = IF 1 > Len(w) THEN 0 ELSE Len(w) - 1 + 1
      BY <2>1, FS_Interval, Zenon
  <2> QED
      BY <2>1, <2>2
<1>2. \A z \in 1..Len(w) : /\ IsFiniteSet(Below(w, z)) /\ Cardinality(Below(w, z)) \in Nat
                           /\ Cardinality(Below(w, z)) <= Len(w)
                           /\ z \in Below(w, z)
  <2> TAKE z \in 1..Len(w)
  <2>1. Below(w, z) \in SUBSET (1..Len(w))
      BY DEF Below
  <2>2. IsFiniteSet(Below(w, z)) /\ Cardinality(Below(w, z)) <= Len(w)
      BY <1>1, <2>1, FS_Subset
  <2>3. z \in Below(w, z)
      BY DEF Below
  <2> QED
      BY <2>2, <2>3, FS_CardinalityType
<1>3. Place(w, x) = Cardinality(Below(w, x)) /\ Place(w, y) = Cardinality(Below(w, y))
    BY DEF Place, Below
<1>4. Cardinality(Below(w, x)) # 0
    BY <1>2, FS_EmptySet
<1>5. ASSUME Precedes(w, x, y) PROVE Cardinality(Below(w, x)) < Cardinality(Below(w, y))
  <2>1. \A z \in 1..Len(w) : w[z] \in Nat
      OBVIOUS
  <2>2. Below(w, x) \in SUBSET Below(w, y)
      BY <1>5, <2>1 DEF Below, Precedes
  <2>3. y \notin Below(w, x)
      BY <1>5, <2>1 DEF Below, Precedes
  <2>4. Below(w, x) # Below(w, y)
      BY <1>2, <2>3
  <2>5. /\ Cardinality(Below(w, x)) <= Cardinality(Below(w, y))
        /\ Cardinality(Below(w, y)) = Cardinality(Below(w, x)) => Below(w, y) = Below(w, x)
      BY <1>2, <2>2, FS_Subset
  <2> QED
      BY <1>2, <2>4, <2>5
<1> QED
    BY <1>1, <1>2, <1>3, <1>4, <1>5

\* Every position holds one item, and positions go up with the weight.
LEMMA Sorted ==
    ASSUME NEW w \in Seq(Nat)
    PROVE  /\ \A p \in 1..Len(w) : At(w, p) \in 1..Len(w) /\ Place(w, At(w, p)) = p
           /\ \A x \in 1..Len(w) : Place(w, x) \in 1..Len(w) /\ At(w, Place(w, x)) = x
           /\ \A p, q \in 1..Len(w) : p < q => w[At(w, p)] <= w[At(w, q)]
<1> DEFINE f == [x \in 1..Len(w) |-> Place(w, x)]
<1>1. Len(w) \in Nat /\ \A z \in 1..Len(w) : w[z] \in Nat
    OBVIOUS
<1>2. f \in [1..Len(w) -> 1..Len(w)]
    BY PlaceOrder
<1>3. \A x, y \in 1..Len(w) : Place(w, x) = Place(w, y) => x = y
  <2> TAKE x, y \in 1..Len(w)
  <2>1. x = y \/ Precedes(w, x, y) \/ Precedes(w, y, x)
      BY <1>1 DEF Precedes
  <2>2. Precedes(w, x, y) => Place(w, x) < Place(w, y)
      BY PlaceOrder
  <2>3. Precedes(w, y, x) => Place(w, y) < Place(w, x)
      BY PlaceOrder
  <2>4. Place(w, x) \in Int /\ Place(w, y) \in Int
      BY PlaceOrder
  <2> QED
      BY <2>1, <2>2, <2>3, <2>4
<1>4. f \in Injection(1..Len(w), 1..Len(w))
    BY <1>2, <1>3 DEF Injection, IsInjective
<1>5. IsFiniteSet(1..Len(w))
    BY <1>1, FS_Interval
<1>6. f \in Surjection(1..Len(w), 1..Len(w))
    BY <1>4, <1>5, FS_Injection
<1>7. \A p \in 1..Len(w) : \E x \in 1..Len(w) : Place(w, x) = p
    BY <1>6 DEF Surjection
<1>8. \A p \in 1..Len(w) : At(w, p) \in 1..Len(w) /\ Place(w, At(w, p)) = p
    BY <1>7 DEF At
<1>9. \A x \in 1..Len(w) : Place(w, x) \in 1..Len(w) /\ At(w, Place(w, x)) = x
  <2> TAKE x \in 1..Len(w)
  <2>1. Place(w, x) \in 1..Len(w)
      BY PlaceOrder
  <2> QED
      BY <1>3, <1>8, <2>1
<1>10. \A p, q \in 1..Len(w) : p < q => w[At(w, p)] <= w[At(w, q)]
  <2> TAKE p, q \in 1..Len(w)
  <2>1. Precedes(w, At(w, q), At(w, p)) => q < p
      BY <1>8, PlaceOrder
  <2>2. w[At(w, p)] \in Nat /\ w[At(w, q)] \in Nat
      BY <1>1, <1>8
  <2> QED
      BY <2>1, <2>2 DEF Precedes
<1> QED
    BY <1>8, <1>9, <1>10

-----------------------------------------------------------------------------
\* The first States of a job

LEMMA Interval ==
    ASSUME NEW n \in Nat
    PROVE  IsFiniteSet(1..n) /\ Cardinality(1..n) = n
<1>1. 1 \in Int /\ n \in Int /\ (1 > n => n = 0) /\ n - 1 + 1 = n
    OBVIOUS
<1>2. IsFiniteSet(1..n) /\ Cardinality(1..n) = IF 1 > n THEN 0 ELSE n - 1 + 1
    BY <1>1, FS_Interval, Zenon
<1> QED
    BY <1>1, <1>2

\* The values of a function with a finite domain are finitely many.
LEMMA FiniteRange ==
    ASSUME NEW n \in Nat, NEW T, NEW f \in [1..n -> T], \A t \in T : \E x \in 1..n : f[x] = t
    PROVE  IsFiniteSet(T)
<1>1. f \in Surjection(1..n, T)
    BY DEF Surjection
<1> QED
    BY <1>1, Interval, FS_Surjection

LEMMA StartStates ==
    ASSUME NEW w, NEW n, IsJob(w, n, FALSE),
           weight' = w, k' = n, equal' = FALSE, heap' = States(w, n)
    PROVE  KKInv'
<1> DEFINE L == Len(w)
<1>1. /\ w \in Seq(Nat) /\ L \in Nat /\ n \in 1..L /\ n \in Nat \ {0} /\ 1 \in 1..n
      /\ \A x \in 1..L : w[x] \in Nat
    BY MaxItemsAssumption DEF IsJob
<1>2. PICK S : S = [x \in 1..L |-> [i \in 1..n |-> IF i = 1 THEN Single(w, x) ELSE Empty]]
    OBVIOUS
<1>3. heap' = {S[x] : x \in 1..L} /\ Items' = 1..L /\ S \in [1..L -> heap']
    BY <1>2 DEF States, Items
<1>4. \A x \in 1..L : /\ S[x][1].sum = w[x] /\ S[x][1].items = {x}
                      /\ \A i \in 1..n : i # 1 => S[x][i].sum = 0 /\ S[x][i].items = {}
                      /\ DOMAIN S[x] = 1..n
                      /\ S[x] \in [1..n -> [sum : Nat, items : SUBSET (1..L)]]
    BY <1>1, <1>2 DEF Single, Empty
<1>5. KKTypeOK'
  <2>1. S \in [1..L -> heap'] /\ \A s \in heap' : \E x \in 1..L : S[x] = s
      BY <1>3
  <2>2. IsFiniteSet(heap')
      BY <1>1, <2>1, FiniteRange
  <2>3. heap' \in SUBSET [1..n -> [sum : Nat, items : SUBSET (1..L)]]
      BY <1>3, <1>4
  <2> QED
      BY <1>1, <1>3, <2>2, <2>3 DEF KKTypeOK, StateType
<1>6. Enough'
    BY <1>1 DEF Enough
<1>7. EmptyIsLight'
  <2> SUFFICES ASSUME NEW x \in 1..L, NEW i \in 1..n, S[x][i].items = {}
               PROVE  S[x][i].sum = 0
      BY <1>3 DEF EmptyIsLight
  <2> QED
      BY <1>4
<1>8. InOrder'
  <2> SUFFICES ASSUME NEW s \in heap', NEW i \in 1..n, NEW j \in 1..n, i < j
               PROVE  ~Heavier(s[j], s[i])
    <3>1. \A s \in heap' : DOMAIN s = 1..n
        BY <1>3, <1>4
    <3> QED
        BY <3>1 DEF InOrder, Decreasing
  <2>1. PICK x \in 1..L : s = S[x]
      BY <1>3
  <2>2. j # 1
      BY <1>1
  <2>3. s[j].sum = 0 /\ s[j].items = {}
      BY <1>4, <2>1, <2>2
  <2>4. (s[i].sum = 0 /\ s[i].items = {}) \/ (s[i].sum = w[x] /\ s[i].items = {x})
      BY <1>4, <2>1
  <2>5. Cardinality({}) = 0 /\ Cardinality({x}) = 1 /\ w[x] \in Nat
      BY <1>1, FS_EmptySet, FS_Singleton
  <2>6. s[i].sum \in Nat /\ Cardinality(s[i].items) \in Nat
    <3>1. CASE s[i].sum = 0 /\ s[i].items = {}
        BY <2>5, <3>1
    <3>2. CASE s[i].sum = w[x] /\ s[i].items = {x}
      <4>1. Cardinality(s[i].items) = 1
          BY <2>5, <3>2, Zenon
      <4> QED
          BY <2>5, <3>2, <4>1
    <3> QED
        BY <2>4, <3>1, <3>2
  <2>7. Cardinality(s[j].items) = 0
      BY <2>3, <2>5
  <2> QED
      BY <2>3, <2>6, <2>7 DEF Heavier
<1>9. EachItemOnce'
  <2>1. ASSUME NEW x \in 1..L
        PROVE  \E s \in heap' : \E i \in 1..n : x \in s[i].items
      BY <1>1, <1>3, <1>4
  <2>2. ASSUME NEW s \in heap', NEW t \in heap', NEW i \in 1..k', NEW j \in 1..k',
               s[i].items \cap t[j].items # {}
        PROVE  s = t /\ i = j
    <3>1. PICK x \in 1..L : s = S[x]
        BY <1>3
    <3>2. PICK y \in 1..L : t = S[y]
        BY <1>3
    <3>3. i = 1 /\ j = 1
        BY <1>4, <2>2, <3>1, <3>2
    <3> QED
        BY <1>4, <2>2, <3>1, <3>2, <3>3
  <2>3. Items' = 1..L
      BY <1>3
  <2>4. \A x \in Items' : \E s \in heap' : \E i \in 1..k' : x \in s[i].items
      BY <2>1, <2>3
  <2>5. \A s, t \in heap' : \A i, j \in 1..k' : s[i].items \cap t[j].items # {} => s = t /\ i = j
      BY <2>2
  <2> QED
      BY <2>4, <2>5 DEF EachItemOnce
<1>10. Alike'
  <2> SUFFICES ASSUME NEW x \in 1..L
               PROVE  \A i \in 1..n : \A y, z \in S[x][i].items : y = z
      BY <1>3 DEF Alike, NoneTwo
  <2> QED
      BY <1>4
<1>11. SpreadBounded'
  <2> SUFFICES ASSUME NEW x \in 1..L, NEW i \in 1..n, NEW j \in 1..n
               PROVE  S[x][i].sum <= S[x][j].sum + w[x]
      BY <1>3 DEF SpreadBounded
  <2>1. (S[x][i].sum = 0 \/ S[x][i].sum = w[x]) /\ S[x][j].sum \in Nat /\ w[x] \in Nat
      BY <1>1, <1>4
  <2> QED
      BY <2>1
<1> QED
    BY <1>5, <1>6, <1>7, <1>8, <1>9, <1>10, <1>11 DEF KKInv

\* Cutting 1..L into rows of n: division, and where a position stands.
LEMMA DivMod ==
    ASSUME NEW a \in Nat, NEW n \in Nat \ {0}
    PROVE  /\ a \div n \in Nat /\ a % n \in 0..(n - 1)
           /\ a = (a \div n) * n + (a % n)
OBVIOUS

LEMMA QuotientRemainder ==
    ASSUME NEW a \in Nat, NEW n \in Nat \ {0}
    PROVE  \E q \in Nat, r \in 0..(n - 1) : a = q * n + r
<1>1. a \div n \in Nat /\ a % n \in 0..(n - 1) /\ a = (a \div n) * n + (a % n)
    BY DivMod
<1> QED
    BY <1>1

LEMMA Grows ==
    ASSUME NEW a \in Nat, NEW b \in Nat, NEW n \in Nat, a <= b
    PROVE  a * n <= b * n
OBVIOUS

\* P[g][i] is the position of column i, counted from the end, of row g.
RowPositions(P, L, n, c) ==
    /\ \A g \in 1..c : \A i \in 1..n : P[g][i] = g * n + 1 - i
    /\ \A g \in 1..c : \A i \in 1..n : P[g][i] \in 1..L
    /\ \A p \in 1..L : \E g \in 1..c : \E i \in 1..n : p = P[g][i]
    /\ \A g, h \in 1..c : \A i, j \in 1..n : P[g][i] = P[h][j] => g = h /\ i = j
    /\ \A g \in 1..c : \A i, j \in 1..n : i < j => P[g][j] < P[g][i]

LEMMA Positions ==
    ASSUME NEW L \in Nat, NEW n \in Nat \ {0}, L % n = 0, NEW c, c = L \div n
    PROVE  c \in Nat /\ \E P : RowPositions(P, L, n, c)
<1>1. c \in Nat /\ L = c * n
    BY DivMod
<1>2. ASSUME NEW g \in 1..c, NEW i \in 1..n
      PROVE  g * n + 1 - i \in 1..L
  <2>1. 1 * n <= g * n /\ g * n <= c * n /\ g * n \in Nat
      BY Grows
  <2> QED
      BY <1>1, <2>1
<1>3. ASSUME NEW p \in 1..L
      PROVE  \E g \in 1..c : \E i \in 1..n : p = g * n + 1 - i
  <2>1. p - 1 \in Nat
      OBVIOUS
  <2>2. PICK q \in Nat, r \in 0..(n - 1) : p - 1 = q * n + r
      BY <2>1, QuotientRemainder
  <2>3. q < c
    <3>1. q >= c => c * n <= q * n
        BY Grows
    <3>2. q * n \in Nat
        OBVIOUS
    <3> QED
        BY <1>1, <2>2, <3>1, <3>2
  <2>4. (q + 1) * n = q * n + n
      OBVIOUS
  <2>5. q * n \in Nat
      OBVIOUS
  <2>6. p = (q + 1) * n + 1 - (n - r)
      BY <2>2, <2>4, <2>5
  <2>7. q + 1 \in 1..c /\ n - r \in 1..n
      BY <2>3
  <2> QED
      BY <2>6, <2>7
<1>4. ASSUME NEW g \in 1..c, NEW h \in 1..c, NEW i \in 1..n, NEW j \in 1..n, g * n + 1 - i = h * n + 1 - j
      PROVE  g = h /\ i = j
  <2>1. g * n \in Nat /\ h * n \in Nat
      OBVIOUS
  <2>2. g < h => (g + 1) * n <= h * n
      BY Grows
  <2>3. h < g => (h + 1) * n <= g * n
      BY Grows
  <2>4. (g + 1) * n = g * n + n /\ (h + 1) * n = h * n + n
      OBVIOUS
  <2>5. ~(g < h) /\ ~(h < g)
      BY <1>4, <2>1, <2>2, <2>3, <2>4
  <2>6. g = h
      BY <2>5
  <2> QED
      BY <1>4, <2>1, <2>6
<1>5. PICK P : P = [g \in 1..c |-> [i \in 1..n |-> g * n + 1 - i]]
    OBVIOUS
<1>6. \A g \in 1..c : \A i \in 1..n : P[g][i] = g * n + 1 - i
    BY <1>5
<1>7. \A g \in 1..c : \A i \in 1..n : P[g][i] \in 1..L
    BY <1>2, <1>6
<1>8. \A p \in 1..L : \E g \in 1..c : \E i \in 1..n : p = P[g][i]
  <2> TAKE p \in 1..L
  <2>1. PICK g \in 1..c : \E i \in 1..n : p = g * n + 1 - i
      BY <1>3
  <2>2. PICK i \in 1..n : p = g * n + 1 - i
      BY <2>1
  <2>3. P[g][i] = p
      BY <1>6, <2>2, Zenon
  <2> QED
      BY <2>3
<1>9. \A g, h \in 1..c : \A i, j \in 1..n : P[g][i] = P[h][j] => g = h /\ i = j
  <2> SUFFICES ASSUME NEW g \in 1..c, NEW h \in 1..c, NEW i \in 1..n, NEW j \in 1..n, P[g][i] = P[h][j]
               PROVE  g = h /\ i = j
      OBVIOUS
  <2>1. P[g][i] = g * n + 1 - i /\ P[h][j] = h * n + 1 - j
      BY <1>6, Zenon
  <2>2. g * n + 1 - i = h * n + 1 - j
      BY <2>1
  <2> QED
      BY <1>4, <2>2
<1>10. \A g \in 1..c : \A i, j \in 1..n : i < j => P[g][j] < P[g][i]
  <2>1. \A g \in 1..c : g * n \in Nat
      BY <1>1
  <2> QED
      BY <1>6, <2>1
<1> QED
    BY <1>1, <1>6, <1>7, <1>8, <1>9, <1>10 DEF RowPositions

LEMMA StartGroups ==
    ASSUME NEW w, NEW n, IsJob(w, n, TRUE),
           weight' = w, k' = n, equal' = TRUE, heap' = Groups(w, n)
    PROVE  KKInv'
<1>1. PICK L : L = Len(w)
    OBVIOUS
<1>2. /\ w \in Seq(Nat) /\ L \in Nat /\ n \in 1..L /\ n \in Nat \ {0} /\ L % n = 0
      /\ \A x \in 1..L : w[x] \in Nat
    BY <1>1, MaxItemsAssumption DEF IsJob
<1>3. /\ \A p \in 1..L : At(w, p) \in 1..L /\ Place(w, At(w, p)) = p
      /\ \A x \in 1..L : Place(w, x) \in 1..L /\ At(w, Place(w, x)) = x
      /\ \A p, q \in 1..L : p < q => w[At(w, p)] <= w[At(w, q)]
    BY <1>1, <1>2, Sorted, Zenon
<1>4. PICK c : c = L \div n
    OBVIOUS
<1>5. c \in Nat /\ \E P : RowPositions(P, L, n, c)
    BY <1>2, <1>4, Positions
<1>6. PICK P : RowPositions(P, L, n, c)
    BY <1>5
<1>7. PICK a : a = [g \in 1..c |-> [i \in 1..n |-> At(w, P[g][i])]]
    OBVIOUS
<1>8. PICK S : S = [g \in 1..c |-> [i \in 1..n |-> [sum |-> w[a[g][i]], items |-> {a[g][i]}]]]
    OBVIOUS
<1>9. heap' = {S[g] : g \in 1..c} /\ Items' = 1..L /\ S \in [1..c -> heap']
  <2>1. \A g \in 1..c : \A i \in 1..n :
          Single(w, At(w, g * n + 1 - i)) = [sum |-> w[a[g][i]], items |-> {a[g][i]}]
      BY <1>6, <1>7 DEF Single, RowPositions
  <2>2. \A g \in 1..c : [i \in 1..n |-> Single(w, At(w, g * n + 1 - i))] = S[g]
      BY <1>8, <2>1
  <2>3. heap' = {[i \in 1..n |-> Single(w, At(w, g * n + 1 - i))] : g \in 1..c}
      BY <1>1, <1>4 DEF Groups
  <2>4. heap' = {S[g] : g \in 1..c}
    <3>1. ASSUME NEW s \in heap' PROVE s \in {S[g] : g \in 1..c}
      <4>1. PICK g \in 1..c : s = [i \in 1..n |-> Single(w, At(w, g * n + 1 - i))]
          BY <2>3
      <4>2. s = S[g]
          BY <2>2, <4>1, Zenon
      <4> QED
          BY <4>2
    <3>2. ASSUME NEW g \in 1..c PROVE S[g] \in heap'
        BY <2>2, <2>3, Zenon
    <3> QED
        BY <3>1, <3>2
  <2> QED
      BY <1>1, <1>8, <2>4 DEF Items
<1>10. ASSUME NEW g \in 1..c, NEW i \in 1..n
      PROVE  a[g][i] \in 1..L /\ w[a[g][i]] \in Nat /\ Place(w, a[g][i]) = P[g][i]
  <2>1. P[g][i] \in 1..L /\ a[g][i] = At(w, P[g][i])
      BY <1>6, <1>7 DEF RowPositions
  <2> QED
      BY <1>2, <1>3, <2>1
<1>11. ASSUME NEW g \in 1..c
      PROVE  /\ DOMAIN S[g] = 1..n
             /\ \A i \in 1..n : S[g][i].sum = w[a[g][i]] /\ S[g][i].items = {a[g][i]}
             /\ S[g] \in [1..n -> [sum : Nat, items : SUBSET (1..L)]]
    BY <1>8, <1>10
<1>12. ASSUME NEW x \in 1..L
       PROVE  \E g \in 1..c : \E i \in 1..n : a[g][i] = x
  <2>1. Place(w, x) \in 1..L /\ At(w, Place(w, x)) = x
      BY <1>3
  <2>2. PICK g \in 1..c : \E i \in 1..n : Place(w, x) = P[g][i]
      BY <1>6, <2>1 DEF RowPositions
  <2> QED
      BY <1>7, <2>1, <2>2
<1>13. ASSUME NEW g \in 1..c, NEW h \in 1..c, NEW i \in 1..n, NEW j \in 1..n, a[g][i] = a[h][j]
       PROVE  g = h /\ i = j
  <2>1. P[g][i] = P[h][j]
      BY <1>10, <1>13
  <2> QED
      BY <1>6, <2>1 DEF RowPositions
<1>14. ASSUME NEW g \in 1..c, NEW i \in 1..n, NEW j \in 1..n, i < j
       PROVE  w[a[g][j]] <= w[a[g][i]]
  <2>1. /\ P[g][j] \in 1..L /\ P[g][i] \in 1..L /\ P[g][j] < P[g][i]
        /\ a[g][j] = At(w, P[g][j]) /\ a[g][i] = At(w, P[g][i])
      BY <1>6, <1>7, <1>14 DEF RowPositions
  <2> QED
      BY <1>2, <1>3, <2>1
<1>15. KKTypeOK'
  <2>1. S \in [1..c -> heap'] /\ \A s \in heap' : \E x \in 1..c : S[x] = s
      BY <1>9
  <2>2. IsFiniteSet(heap')
      BY <1>5, <2>1, FiniteRange
  <2>3. heap' \in SUBSET [1..n -> [sum : Nat, items : SUBSET (1..L)]]
      BY <1>9, <1>11
  <2> QED
      BY <1>2, <1>9, <2>2, <2>3 DEF KKTypeOK, StateType
<1>16. Enough'
    BY <1>1, <1>2 DEF Enough
<1>17. EmptyIsLight'
  <2>1. ASSUME NEW s \in heap', NEW i \in 1..n
        PROVE  s[i].items # {}
    <3>1. PICK g \in 1..c : s = S[g]
        BY <1>9
    <3> QED
        BY <1>11, <3>1
  <2> QED
      BY <2>1 DEF EmptyIsLight
<1>18. InOrder'
  <2> SUFFICES ASSUME NEW s \in heap', NEW i \in 1..n, NEW j \in 1..n, i < j
               PROVE  ~Heavier(s[j], s[i])
    <3>1. \A s \in heap' : DOMAIN s = 1..n
        BY <1>9, <1>11
    <3> QED
        BY <3>1 DEF InOrder, Decreasing
  <2>1. PICK g \in 1..c : s = S[g]
      BY <1>9
  <2>2. s[i].items = {a[g][i]} /\ s[j].items = {a[g][j]}
      BY <1>11, <2>1
  <2>3. Cardinality(s[i].items) = 1 /\ Cardinality(s[j].items) = 1
      BY <2>2, FS_Singleton, Zenon
  <2>4. s[j].sum = w[a[g][j]] /\ s[i].sum = w[a[g][i]]
      BY <1>11, <2>1
  <2>5. w[a[g][j]] <= w[a[g][i]] /\ w[a[g][j]] \in Nat /\ w[a[g][i]] \in Nat
      BY <1>10, <1>14
  <2> QED
      BY <2>3, <2>4, <2>5 DEF Heavier
<1>19. EachItemOnce'
  <2>1. ASSUME NEW x \in 1..L
        PROVE  \E s \in heap' : \E i \in 1..n : x \in s[i].items
    <3>1. PICK g \in 1..c : \E i \in 1..n : a[g][i] = x
        BY <1>12
    <3>2. PICK i \in 1..n : a[g][i] = x
        BY <3>1
    <3>3. S[g] \in heap' /\ x \in S[g][i].items
        BY <1>9, <1>11, <3>2
    <3> QED
        BY <3>3
  <2>2. ASSUME NEW s \in heap', NEW t \in heap', NEW i \in 1..k', NEW j \in 1..k',
               s[i].items \cap t[j].items # {}
        PROVE  s = t /\ i = j
    <3>1. PICK g \in 1..c : s = S[g]
        BY <1>9
    <3>2. PICK h \in 1..c : t = S[h]
        BY <1>9
    <3>3. a[g][i] = a[h][j]
        BY <1>11, <2>2, <3>1, <3>2
    <3> QED
        BY <1>13, <3>1, <3>2, <3>3
  <2>3. Items' = 1..L
      BY <1>9
  <2>4. \A x \in Items' : \E s \in heap' : \E i \in 1..k' : x \in s[i].items
      BY <2>1, <2>3
  <2>5. \A s, t \in heap' : \A i, j \in 1..k' : s[i].items \cap t[j].items # {} => s = t /\ i = j
      BY <2>2
  <2> QED
      BY <2>4, <2>5 DEF EachItemOnce
<1>20. Alike'
  <2>1. ASSUME NEW s \in heap', NEW i \in 1..n
        PROVE  s[i].items # {} /\ Cardinality(s[i].items) = 1
    <3>1. PICK g \in 1..c : s = S[g]
        BY <1>9
    <3>2. s[i].items = {a[g][i]}
        BY <1>11, <3>1
    <3> QED
        BY <3>2, FS_Singleton, Zenon
  <2> QED
      BY <2>1 DEF Alike, OneSize
<1>21. SpreadBounded'
  <2>1. ASSUME NEW s \in heap', NEW i \in 1..n, NEW j \in 1..n
        PROVE  \E x, y \in 1..L : s[i].sum + w[y] <= s[j].sum + w[x]
    <3>1. PICK g \in 1..c : s = S[g]
        BY <1>9
    <3>2. s[i].sum = w[a[g][i]] /\ s[j].sum = w[a[g][j]]
        BY <1>11, <3>1
    <3>3. a[g][i] \in 1..L /\ a[g][j] \in 1..L /\ w[a[g][i]] \in Nat /\ w[a[g][j]] \in Nat
        BY <1>10
    <3>4. s[i].sum + w[a[g][j]] <= s[j].sum + w[a[g][i]]
        BY <3>2, <3>3
    <3> QED
        BY <3>3, <3>4
  <2>2. Items' = 1..L
      BY <1>9
  <2> QED
      BY <2>1, <2>2 DEF SpreadBounded
<1> QED
    BY <1>15, <1>16, <1>17, <1>18, <1>19, <1>20, <1>21 DEF KKInv

-----------------------------------------------------------------------------
\* A merge

\* m, in which set i was made of set o[i] of s and set r[i] of t, is put in their place.
IsMerge(s, t, m, o, r) ==
    /\ s \in heap /\ t \in heap /\ s # t /\ heap' = (heap \ {s, t}) \cup {m}
    /\ \A i \in 1..k : o[i] \in 1..k /\ r[i] \in 1..k /\ r[i] = k + 1 - o[i]
    /\ \A i, j \in 1..k : o[i] = o[j] => i = j
    /\ \A i, j \in 1..k : r[i] = r[j] => i = j
    /\ \A j \in 1..k : \E i \in 1..k : o[i] = j
    /\ \A j \in 1..k : \E i \in 1..k : r[i] = j
    /\ DOMAIN m = 1..k /\ m \in StateType
    /\ \A i \in 1..k : m[i].sum = s[o[i]].sum + t[r[i]].sum
    /\ \A i \in 1..k : m[i].items = s[o[i]].items \cup t[r[i]].items
    /\ Decreasing(m)
    /\ weight' = weight /\ k' = k /\ equal' = equal

LEMMA MergeIsMerge ==
    ASSUME KKTypeOK, Merge
    PROVE  \E s, t, m, o, r : IsMerge(s, t, m, o, r)
<1>1. PICK s \in First(heap) : \E t \in First(heap \ {s}) : \E m \in Merged(s, t) :
         heap' = (heap \ {s, t}) \cup {m} /\ UNCHANGED <<weight, k, equal>>
    BY DEF Merge
<1>2. PICK t \in First(heap \ {s}) : \E m \in Merged(s, t) :
         heap' = (heap \ {s, t}) \cup {m} /\ UNCHANGED <<weight, k, equal>>
    BY <1>1
<1>3. PICK m \in Merged(s, t) : heap' = (heap \ {s, t}) \cup {m} /\ UNCHANGED <<weight, k, equal>>
    BY <1>2
<1>4. s \in heap /\ t \in heap /\ s # t
    BY DEF First
<1>5. PICK o \in Arrangements(k) : m = [i \in 1..k |-> Union(s, t, o[i])]
    BY <1>3 DEF Merged
<1>6. o \in [1..k -> 1..k] /\ k \in Nat /\ s \in StateType /\ t \in StateType
    BY <1>4, <1>5 DEF Arrangements, KKTypeOK
<1>7. Decreasing(m)
    BY <1>3 DEF Merged
<1>8. PICK r : r = [i \in 1..k |-> k + 1 - o[i]]
    OBVIOUS
<1>9. ASSUME NEW i \in 1..k
      PROVE  o[i] \in 1..k /\ r[i] \in 1..k /\ r[i] = k + 1 - o[i]
  <2>1. o[i] \in 1..k
      BY <1>6
  <2>2. r[i] = k + 1 - o[i]
      BY <1>8
  <2> QED
      BY <1>6, <2>1, <2>2
<1>10. (\A i, j \in 1..k : o[i] = o[j] => i = j) /\ (\A j \in 1..k : \E i \in 1..k : o[i] = j)
    BY <1>5 DEF Arrangements
<1>11. ASSUME NEW i \in 1..k, NEW j \in 1..k, r[i] = r[j]
       PROVE  i = j
  <2>1. o[i] = o[j]
      BY <1>6, <1>9, <1>11
  <2> QED
      BY <1>10, <2>1
<1>12. ASSUME NEW j \in 1..k
       PROVE  \E i \in 1..k : r[i] = j
  <2>1. k + 1 - j \in 1..k
      BY <1>6
  <2>2. PICK i \in 1..k : o[i] = k + 1 - j
      BY <1>10, <2>1
  <2>3. r[i] = k + 1 - o[i]
      BY <1>9
  <2>4. r[i] = j
      BY <1>6, <2>2, <2>3
  <2> QED
      BY <2>4
<1>13. \A i \in 1..k : m[i] = [sum |-> s[o[i]].sum + t[r[i]].sum, items |-> s[o[i]].items \cup t[r[i]].items]
    BY <1>5, <1>9 DEF Union
<1>14. ASSUME NEW i \in 1..k
       PROVE  /\ m[i].sum = s[o[i]].sum + t[r[i]].sum
              /\ m[i].items = s[o[i]].items \cup t[r[i]].items
              /\ m[i] \in [sum : Nat, items : SUBSET Items]
  <2>1. o[i] \in 1..k /\ r[i] \in 1..k
      BY <1>9
  <2>2. s[o[i]] \in [sum : Nat, items : SUBSET Items] /\ t[r[i]] \in [sum : Nat, items : SUBSET Items]
      BY <1>6, <2>1 DEF StateType
  <2>3. s[o[i]].sum + t[r[i]].sum \in Nat /\ s[o[i]].items \cup t[r[i]].items \in SUBSET Items
      BY <2>2
  <2>4. PICK a \in Nat : a = s[o[i]].sum + t[r[i]].sum
      BY <2>3
  <2>5. PICK b \in SUBSET Items : b = s[o[i]].items \cup t[r[i]].items
      BY <2>3
  <2>6. m[i] = [sum |-> a, items |-> b]
      BY <1>13, <2>4, <2>5
  <2>7. m[i].sum = a /\ m[i].items = b /\ m[i] \in [sum : Nat, items : SUBSET Items]
      BY <2>6
  <2> QED
      BY <2>4, <2>5, <2>7
<1>15. DOMAIN m = 1..k /\ m \in StateType
    BY <1>5, <1>14 DEF StateType
<1>16. weight' = weight /\ k' = k /\ equal' = equal /\ heap' = (heap \ {s, t}) \cup {m}
    BY <1>3
<1>17. IsMerge(s, t, m, o, r)
    BY <1>4, <1>7, <1>9, <1>14, <1>15, <1>10, <1>11, <1>12, <1>16 DEF IsMerge
<1> QED
    BY <1>17

LEMMA MergeTypes ==
    ASSUME KKInv, NEW s, NEW t, NEW m, NEW o, NEW r, IsMerge(s, t, m, o, r)
    PROVE  KKTypeOK' /\ Enough' /\ InOrder'
<1>1. weight' = weight /\ k' = k /\ equal' = equal /\ heap' = (heap \ {s, t}) \cup {m} /\ heap # {}
    BY DEF IsMerge
<1>2. StateType' = StateType
    BY <1>1 DEF StateType, Items
<1>3. IsFiniteSet(heap')
  <2>1. IsFiniteSet(heap \ {s, t})
      BY FS_Difference DEF KKInv, KKTypeOK
  <2> QED
      BY <1>1, <2>1, FS_AddElement
<1>4. heap' \in SUBSET StateType
    BY <1>1 DEF IsMerge, KKInv, KKTypeOK
<1>5. KKTypeOK'
    BY <1>1, <1>2, <1>3, <1>4 DEF KKInv, KKTypeOK
<1>6. Enough'
    BY <1>1 DEF KKInv, Enough
<1>7. InOrder'
    BY <1>1 DEF KKInv, InOrder, IsMerge, Decreasing, Heavier
<1> QED
    BY <1>5, <1>6, <1>7

\* The items of two States are those of their merge, each where one set of each went.
LEMMA MergeItems ==
    ASSUME KKInv, NEW s, NEW t, NEW m, NEW o, NEW r, IsMerge(s, t, m, o, r)
    PROVE  EachItemOnce'
<1>1. /\ weight' = weight /\ k' = k /\ heap' = (heap \ {s, t}) \cup {m} /\ k \in Nat
      /\ s \in heap /\ t \in heap /\ s # t
    BY DEF IsMerge, KKInv, KKTypeOK
<1>2. \A x \in Items : \E u \in heap : \E i \in 1..k : x \in u[i].items
    BY DEF KKInv, EachItemOnce
<1>3. \A i \in 1..k : o[i] \in 1..k /\ r[i] \in 1..k
    BY DEF IsMerge
<1>4. \A i, j \in 1..k : (o[i] = o[j] \/ r[i] = r[j]) => i = j
    BY DEF IsMerge
<1>5. \A j \in 1..k : (\E i \in 1..k : o[i] = j) /\ (\E i \in 1..k : r[i] = j)
    BY DEF IsMerge
<1>6. \A i \in 1..k : m[i].items = s[o[i]].items \cup t[r[i]].items
    BY DEF IsMerge
<1>7. \A u, v \in heap : \A i, j \in 1..k : u[i].items \cap v[j].items # {} => u = v /\ i = j
    BY DEF KKInv, EachItemOnce
<1>8. ASSUME NEW x \in Items
      PROVE  \E u \in heap' : \E i \in 1..k : x \in u[i].items
  <2>1. PICK u \in heap, j \in 1..k : x \in u[j].items
      BY <1>2
  <2>2. CASE u = s
    <3>1. PICK i \in 1..k : o[i] = j
        BY <1>5
    <3>2. x \in m[i].items
        BY <1>6, <2>1, <2>2, <3>1
    <3> QED
        BY <1>1, <3>2
  <2>3. CASE u = t
    <3>1. PICK i \in 1..k : r[i] = j
        BY <1>5
    <3>2. x \in m[i].items
        BY <1>6, <2>1, <2>3, <3>1
    <3> QED
        BY <1>1, <3>2
  <2> QED
      BY <1>1, <2>1, <2>2, <2>3
\* an item of m in another State would be in s or t and that State
<1>9. ASSUME NEW u \in heap \ {s, t}, NEW i \in 1..k, NEW j \in 1..k
      PROVE  u[i].items \cap m[j].items = {}
  <2>1. u[i].items \cap s[o[j]].items = {}
      BY <1>1, <1>3, <1>7
  <2>2. u[i].items \cap t[r[j]].items = {}
      BY <1>1, <1>3, <1>7
  <2> QED
      BY <1>6, <2>1, <2>2
<1>10. ASSUME NEW i \in 1..k, NEW j \in 1..k, m[i].items \cap m[j].items # {}
      PROVE  i = j
  <2>1. s[o[i]].items \cap t[r[j]].items = {} /\ t[r[i]].items \cap s[o[j]].items = {}
      BY <1>1, <1>3, <1>7
  <2>2. \/ s[o[i]].items \cap s[o[j]].items # {}
        \/ t[r[i]].items \cap t[r[j]].items # {}
      BY <1>6, <1>10, <2>1
  <2>3. o[i] = o[j] \/ r[i] = r[j]
      BY <1>1, <1>3, <1>7, <2>2
  <2> QED
      BY <1>4, <2>3
<1>11. ASSUME NEW u \in heap', NEW v \in heap', NEW i \in 1..k, NEW j \in 1..k, u[i].items \cap v[j].items # {}
      PROVE  u = v /\ i = j
  <2>1. CASE u # m /\ v # m
      BY <1>1, <1>7, <1>11, <2>1
  <2>2. CASE u = m /\ v = m
      BY <1>10, <1>11, <2>2
  <2>3. CASE u # m /\ v = m
      BY <1>1, <1>9, <1>11, <2>3
  <2>4. CASE u = m /\ v # m
      BY <1>1, <1>9, <1>11, <2>4
  <2> QED
      BY <2>1, <2>2, <2>3, <2>4
<1>12. Items' = Items
    BY <1>1 DEF Items
<1> QED
    BY <1>1, <1>8, <1>11, <1>12 DEF EachItemOnce

\* In a State the weights go down, and what comes after a set without items has none either.
LEMMA Descending ==
    ASSUME KKInv, NEW u \in heap, NEW i \in 1..k, NEW j \in 1..k
    PROVE  /\ u[i].sum \in Nat /\ IsFiniteSet(u[i].items) /\ u[i].items \in SUBSET Items
           /\ i < j => u[j].sum <= u[i].sum
           /\ i < j /\ u[i].items = {} => u[j].items = {}
<1>1. u \in StateType
    BY DEF KKInv, KKTypeOK
<1>2. /\ u[i].sum \in Nat /\ u[j].sum \in Nat
      /\ u[i].items \in SUBSET Items /\ u[j].items \in SUBSET Items
    BY <1>1 DEF StateType
<1>3. IsFiniteSet(Items)
    BY Interval DEF Items, KKInv, KKTypeOK
<1>4. IsFiniteSet(u[i].items) /\ IsFiniteSet(u[j].items)
    BY <1>2, <1>3, FS_Subset
<1>5. i < j => ~Heavier(u[j], u[i])
    BY <1>1 DEF KKInv, InOrder, Decreasing, StateType
<1>6. i < j => u[j].sum <= u[i].sum
    BY <1>2, <1>5 DEF Heavier
<1>7. ASSUME i < j, u[i].items = {}
      PROVE  u[j].items = {}
  <2>1. u[i].sum = 0
      BY <1>7 DEF KKInv, EmptyIsLight
  <2>2. u[j].sum = u[i].sum
      BY <1>2, <1>6, <1>7, <2>1
  <2>3. Cardinality(u[i].items) = 0
      BY <1>7, FS_EmptySet
  <2>4. Cardinality(u[j].items) \in Nat
      BY <1>4, FS_CardinalityType
  <2>5. Cardinality(u[j].items) = 0
      BY <1>5, <1>7, <2>2, <2>3, <2>4 DEF Heavier
  <2> QED
      BY <1>4, <2>5, FS_EmptySet
<1> QED
    BY <1>2, <1>4, <1>6, <1>7

LEMMA MergeAlike ==
    ASSUME KKInv, NEW s, NEW t, NEW m, NEW o, NEW r, IsMerge(s, t, m, o, r)
    PROVE  EmptyIsLight' /\ Alike'
<1>1. weight' = weight /\ k' = k /\ equal' = equal /\ heap' = (heap \ {s, t}) \cup {m}
    BY DEF IsMerge
<1>2. s \in heap /\ t \in heap /\ s # t /\ k \in Nat /\ equal \in BOOLEAN
    BY DEF IsMerge, KKInv, KKTypeOK
<1>3. ASSUME NEW i \in 1..k
      PROVE  /\ o[i] \in 1..k /\ r[i] \in 1..k /\ r[i] = k + 1 - o[i]
             /\ m[i].sum = s[o[i]].sum + t[r[i]].sum
             /\ m[i].items = s[o[i]].items \cup t[r[i]].items
    BY DEF IsMerge
<1>4. EmptyIsLight'
  <2>1. ASSUME NEW i \in 1..k, m[i].items = {}
        PROVE  m[i].sum = 0
    <3>1. s[o[i]].items = {} /\ t[r[i]].items = {}
        BY <1>3, <2>1
    <3>2. s[o[i]].sum = 0 /\ t[r[i]].sum = 0
        BY <1>2, <1>3, <3>1 DEF KKInv, EmptyIsLight
    <3> QED
        BY <1>3, <3>2
  <2> QED
      BY <1>1, <2>1 DEF KKInv, EmptyIsLight
<1>5. ASSUME equal
      PROVE  OneSize(m)
  <2>1. OneSize(s) /\ OneSize(t)
      BY <1>2, <1>5 DEF KKInv, Alike
  <2>2. ASSUME NEW i \in 1..k
        PROVE  /\ m[i].items # {}
               /\ Cardinality(m[i].items) = Cardinality(s[1].items) + Cardinality(t[1].items)
    <3>1. 1 \in 1..k
        BY <1>2
    <3>2. s[o[i]].items # {} /\ Cardinality(s[o[i]].items) = Cardinality(s[1].items)
        BY <1>3, <2>1, <3>1 DEF OneSize
    <3>3. Cardinality(t[r[i]].items) = Cardinality(t[1].items)
        BY <1>3, <2>1, <3>1 DEF OneSize
    <3>4. s[o[i]].items \cap t[r[i]].items = {}
        BY <1>2, <1>3 DEF KKInv, EachItemOnce
    <3>5. IsFiniteSet(s[o[i]].items) /\ IsFiniteSet(t[r[i]].items)
        BY <1>2, <1>3, Descending
    <3>6. /\ Cardinality(s[o[i]].items) \in Nat /\ Cardinality(t[r[i]].items) \in Nat
          /\ Cardinality({}) = 0
        BY <3>5, FS_CardinalityType, FS_EmptySet
    <3>7. Cardinality(m[i].items) = Cardinality(s[o[i]].items) + Cardinality(t[r[i]].items) - Cardinality({})
        BY <1>3, <3>4, <3>5, FS_Union
    <3>8. m[i].items # {}
        BY <1>3, <3>2
    <3> QED
        BY <3>2, <3>3, <3>6, <3>7, <3>8
  <2> QED
      BY <2>2 DEF OneSize
<1>6. ASSUME ~equal
      PROVE  NoneBare(m) \/ NoneTwo(m)
  <2>1. (NoneBare(s) \/ NoneTwo(s)) /\ (NoneBare(t) \/ NoneTwo(t))
      BY <1>2, <1>6 DEF KKInv, Alike
  <2>2. CASE NoneBare(s) \/ NoneBare(t)
    <3>1. ASSUME NEW i \in 1..k PROVE m[i].items # {}
        BY <1>3, <2>2, ZenonT(20) DEF NoneBare
    <3> QED
        BY <3>1 DEF NoneBare
  \* the bare sets are the last of both: two cannot meet if elsewhere two that are not bare do
  <2>3. CASE NoneTwo(s) /\ NoneTwo(t)
    <3>1. ASSUME NEW i \in 1..k, NEW j \in 1..k,
                 s[o[i]].items = {}, t[r[i]].items = {}, s[o[j]].items # {}, t[r[j]].items # {}
          PROVE  FALSE
      <4>1. ~(o[i] < o[j]) /\ ~(r[i] < r[j]) /\ o[i] # o[j]
          BY <1>2, <1>3, <3>1, Descending
      <4>2. /\ o[i] \in 1..k /\ r[i] = k + 1 - o[i]
            /\ o[j] \in 1..k /\ r[j] = k + 1 - o[j]
          BY <1>3
      <4> QED
          BY <1>2, <4>1, <4>2
    <3>2. CASE \E i \in 1..k : s[o[i]].items = {} /\ t[r[i]].items = {}
      <4>1. ASSUME NEW j \in 1..k
            PROVE  m[j].items = s[o[j]].items \/ m[j].items = t[r[j]].items
        <5>1. s[o[j]].items = {} \/ t[r[j]].items = {}
            BY <3>1, <3>2
        <5> QED
            BY <1>3, <5>1
      <4>2. ASSUME NEW j \in 1..k, NEW x \in m[j].items, NEW y \in m[j].items
            PROVE  x = y
          BY <1>3, <2>3, <4>1 DEF NoneTwo
      <4> QED
          BY <4>2 DEF NoneTwo
    <3>3. CASE \A i \in 1..k : s[o[i]].items # {} \/ t[r[i]].items # {}
      <4>1. ASSUME NEW i \in 1..k PROVE m[i].items # {}
          BY <1>3, <3>3
      <4> QED
          BY <4>1 DEF NoneBare
    <3> QED
        BY <3>2, <3>3
  <2> QED
      BY <2>1, <2>2, <2>3
<1>7. Alike'
    BY <1>1, <1>2, <1>5, <1>6 DEF KKInv, Alike, OneSize, NoneBare, NoneTwo
<1> QED
    BY <1>4, <1>7

\* Two loads differ by no more than SpreadBounded allows.
Within(a, b) == \E x, y \in Items : IF equal THEN a + weight[y] <= b + weight[x] ELSE a <= b + weight[x]

LEMMA WithinKept ==
    ASSUME KKInv, NEW a \in Nat, NEW b \in Nat, NEW c \in Nat, NEW d \in Nat, Within(a, b), c <= d
    PROVE  Within(a + c, b + d) /\ Within(c + a, d + b)
<1>1. PICK x \in Items, y \in Items :
        IF equal THEN a + weight[y] <= b + weight[x] ELSE a <= b + weight[x]
    BY DEF Within
<1>2. weight[x] \in Nat /\ weight[y] \in Nat
    BY DEF KKInv, KKTypeOK, Items
<1>3. /\ equal => (a + c) + weight[y] <= (b + d) + weight[x]
      /\ ~equal => a + c <= (b + d) + weight[x]
    BY <1>1, <1>2
<1>4. c + a = a + c /\ d + b = b + d
    OBVIOUS
<1>5. Within(a + c, b + d)
    BY <1>3 DEF Within
<1> QED
    BY <1>4, <1>5

\* Merging makes no difference larger: of two sets, the one made of the heavier of s took the lighter of t.
LEMMA MergeSpread ==
    ASSUME KKInv, NEW s, NEW t, NEW m, NEW o, NEW r, IsMerge(s, t, m, o, r)
    PROVE  SpreadBounded'
<1>1. weight' = weight /\ k' = k /\ equal' = equal /\ heap' = (heap \ {s, t}) \cup {m}
    BY DEF IsMerge
<1>2. s \in heap /\ t \in heap /\ k \in Nat
    BY DEF IsMerge, KKInv, KKTypeOK
<1>3. ASSUME NEW i \in 1..k
      PROVE  /\ o[i] \in 1..k /\ r[i] \in 1..k /\ r[i] = k + 1 - o[i]
             /\ m[i].sum = s[o[i]].sum + t[r[i]].sum
             /\ s[o[i]].sum \in Nat /\ t[r[i]].sum \in Nat
  <2>1. /\ o[i] \in 1..k /\ r[i] \in 1..k /\ r[i] = k + 1 - o[i]
        /\ m[i].sum = s[o[i]].sum + t[r[i]].sum
      BY DEF IsMerge
  <2> QED
      BY <1>2, <2>1, Descending
<1>4. \A u \in heap : \A i, j \in 1..k : Within(u[i].sum, u[j].sum)
    BY DEF KKInv, SpreadBounded, Within
<1>5. ASSUME NEW i \in 1..k, NEW j \in 1..k
      PROVE  Within(m[i].sum, m[j].sum)
  <2>1. /\ m[i].sum = s[o[i]].sum + t[r[i]].sum /\ m[j].sum = s[o[j]].sum + t[r[j]].sum
        /\ s[o[i]].sum \in Nat /\ t[r[i]].sum \in Nat /\ s[o[j]].sum \in Nat /\ t[r[j]].sum \in Nat
        /\ o[i] \in 1..k /\ o[j] \in 1..k /\ r[i] \in 1..k /\ r[j] \in 1..k
      BY <1>3
  <2>2. CASE t[r[i]].sum <= t[r[j]].sum
    <3>1. Within(s[o[i]].sum, s[o[j]].sum)
        BY <1>2, <1>4, <2>1
    <3> QED
        BY <2>1, <2>2, <3>1, WithinKept
  <2>3. CASE s[o[i]].sum <= s[o[j]].sum
    <3>1. Within(t[r[i]].sum, t[r[j]].sum)
        BY <1>2, <1>4, <2>1
    <3> QED
        BY <2>1, <2>3, <3>1, WithinKept
  <2>4. t[r[i]].sum <= t[r[j]].sum \/ s[o[i]].sum <= s[o[j]].sum
    <3>1. r[i] = k + 1 - o[i] /\ r[j] = k + 1 - o[j]
        BY <1>3
    <3>2. o[i] \in Int /\ o[j] \in Int /\ k \in Int
        BY <1>2, <2>1
    <3>3. o[i] = o[j] \/ o[j] < o[i] \/ r[j] < r[i]
        BY <3>1, <3>2
    <3> QED
        BY <1>2, <2>1, <3>3, Descending
  <2> QED
      BY <2>2, <2>3, <2>4
<1>6. ASSUME NEW u \in heap', NEW i \in 1..k, NEW j \in 1..k
      PROVE  Within(u[i].sum, u[j].sum)
  <2>1. CASE u = m
      BY <1>5, <2>1
  <2>2. CASE u \in heap
      BY <1>4, <2>2
  <2> QED
      BY <1>1, <2>1, <2>2
<1>7. Items' = Items
    BY <1>1 DEF Items
<1>8. ASSUME NEW u \in heap', NEW i \in 1..k', NEW j \in 1..k'
      PROVE  \E x, y \in Items' : IF equal' THEN u[i].sum + weight'[y] <= u[j].sum + weight'[x]
                                            ELSE u[i].sum <= u[j].sum + weight'[x]
  <2>1. Within(u[i].sum, u[j].sum)
      BY <1>1, <1>6
  <2> QED
      BY <1>1, <1>7, <2>1 DEF Within
<1> QED
    BY <1>8 DEF SpreadBounded

-----------------------------------------------------------------------------
\* The invariant and what follows from it

\* Before the first job.
LEMMA KKInitial == ASSUME KKInit PROVE KKInv
<1>1. weight = <<>> /\ k = 1 /\ equal = FALSE /\ heap = {}
    BY DEF KKInit
<1>2. KKTypeOK
  <2>1. <<>> \in Seq(Nat) /\ 1 \in Nat \ {0} /\ {} \in SUBSET StateType /\ IsFiniteSet({})
      BY FS_EmptySet
  <2>2. equal \in BOOLEAN
      BY <1>1, Zenon
  <2> QED
      BY <1>1, <2>1, <2>2 DEF KKTypeOK
<1>3. Items = {}
    BY <1>1 DEF Items
<1> QED
    BY <1>1, <1>2, <1>3 DEF KKInv, Enough, EmptyIsLight, InOrder, EachItemOnce, Alike, SpreadBounded

\* Every step keeps it.
LEMMA KKStep == ASSUME KKInv, [KKNext]_jobVars PROVE KKInv'
<1>1. CASE Merge
  <2>1. PICK s, t, m, o, r : IsMerge(s, t, m, o, r)
      BY <1>1, MergeIsMerge DEF KKInv
  <2> QED
      BY <2>1, MergeTypes, MergeItems, MergeAlike, MergeSpread DEF KKInv
<1>2. CASE Start
  <2>1. PICK w, n, e : w = weight' /\ n = k' /\ e = equal'
      OBVIOUS
  <2>2. IsJob(w, n, e) /\ StartJob(w, n, e)
      BY <1>2, <2>1 DEF Start
  <2>3. CASE e = TRUE
      BY <2>2, <2>3, StartGroups DEF StartJob
  <2>4. CASE e = FALSE
      BY <2>2, <2>4, StartStates DEF StartJob
  <2> QED
      BY <2>2, <2>3, <2>4 DEF IsJob
<1>3. CASE UNCHANGED jobVars
  <2>1. weight' = weight /\ k' = k /\ equal' = equal /\ heap' = heap
      BY <1>3 DEF jobVars
  <2>2. KKTypeOK' /\ Enough' /\ EmptyIsLight'
      BY <2>1 DEF KKInv, KKTypeOK, StateType, Items, Enough, EmptyIsLight
  <2>3. InOrder'
      BY <2>1 DEF KKInv, InOrder, Decreasing, Heavier
  <2>4. EachItemOnce'
      BY <2>1 DEF KKInv, EachItemOnce, Items
  <2>5. Alike'
      BY <2>1 DEF KKInv, Alike, OneSize, NoneBare, NoneTwo
  <2>6. SpreadBounded'
      BY <2>1 DEF KKInv, SpreadBounded, Items
  <2> QED
      BY <2>2, <2>3, <2>4, <2>5, <2>6 DEF KKInv
<1> QED
    BY <1>1, <1>2, <1>3 DEF KKNext

\* It holds in every behaviour.
THEOREM KKInvariant == KKSpec => []KKInv
BY KKInitial, KKStep, PTL DEF KKSpec

\* One State is left.
LEMMA TheState ==
    ASSUME KKInv, Partitioned
    PROVE  \E s \in heap : heap = {s}
<1>1. PICK s : heap = {s}
    BY FS_Singleton DEF KKInv, KKTypeOK, Partitioned
<1> QED
    BY <1>1

\* As many items as pairs of a set and a place in it.
LEMMA SizesAreEqual == ASSUME KKInv PROVE EqualSizes
<1> SUFFICES ASSUME equal, Partitioned, NEW s \in heap
             PROVE  \A i \in 1..k : Cardinality(s[i].items) * k = Len(weight)
    BY DEF EqualSizes
<1>1. heap = {s}
    BY TheState
<1>2. k \in Nat \ {0} /\ weight \in Seq(Nat) /\ 1 \in 1..k
    BY DEF KKInv, KKTypeOK
<1>3. OneSize(s)
    BY DEF KKInv, Alike
<1>4. \A i \in 1..k : IsFiniteSet(s[i].items) /\ s[i].items \in SUBSET Items
    BY Descending
<1>5. PICK c : c = Cardinality(s[1].items)
    OBVIOUS
<1>6. c \in Nat /\ \A i \in 1..k : Cardinality(s[i].items) = c
    BY <1>2, <1>3, <1>4, <1>5, FS_CardinalityType DEF OneSize
<1>7. \A i \in 1..k : \E b : b \in Bijection(s[i].items, 1..c)
  <2> TAKE i \in 1..k
  <2>1. IsFiniteSet(1..c) /\ Cardinality(1..c) = c
      BY <1>6, Interval
  <2>2. ExistsBijection(s[i].items, 1..c)
      BY <1>4, <1>6, <2>1, FS_SameCardinalityBij
  <2> QED
      BY <2>2 DEF ExistsBijection
<1>8. PICK b : b = [i \in 1..k |-> CHOOSE f : f \in Bijection(s[i].items, 1..c)]
    OBVIOUS
<1>9. ASSUME NEW i \in 1..k
      PROVE  /\ \A x \in s[i].items : b[i][x] \in 1..c
             /\ \A x, y \in s[i].items : b[i][x] = b[i][y] => x = y
             /\ \A p \in 1..c : \E x \in s[i].items : b[i][x] = p
  <2>1. b[i] \in Bijection(s[i].items, 1..c)
      BY <1>7, <1>8
  <2> QED
      BY <2>1 DEF Bijection, Injection, Surjection, IsInjective
<1>10. \A x \in Items : \E i \in 1..k : x \in s[i].items
    BY <1>1 DEF KKInv, EachItemOnce
<1>11. PICK set : set = [x \in Items |-> CHOOSE i \in 1..k : x \in s[i].items]
    OBVIOUS
<1>12. \A x \in Items : set[x] \in 1..k /\ x \in s[set[x]].items
    BY <1>10, <1>11
<1>13. \A x \in Items : \A i \in 1..k : x \in s[i].items => i = set[x]
  <2>1. \A i, j \in 1..k : s[i].items \cap s[j].items # {} => i = j
      BY DEF KKInv, EachItemOnce
  <2> QED
      BY <1>12, <2>1
<1>14. PICK f : f = [x \in Items |-> <<set[x], b[set[x]][x]>>]
    OBVIOUS
<1>15. f \in [Items -> (1..k) \X (1..c)]
    BY <1>9, <1>12, <1>14
<1>16. ASSUME NEW x \in Items, NEW y \in Items, f[x] = f[y]
       PROVE  x = y
  <2>1. set[x] = set[y] /\ b[set[x]][x] = b[set[y]][y]
      BY <1>14, <1>16
  <2> QED
      BY <1>9, <1>12, <2>1
<1>17. ASSUME NEW q \in (1..k) \X (1..c)
       PROVE  \E x \in Items : f[x] = q
  <2>1. PICK i \in 1..k, p \in 1..c : q = <<i, p>>
      OBVIOUS
  <2>2. PICK x \in s[i].items : b[i][x] = p
      BY <1>9
  <2>3. x \in Items /\ set[x] = i
      BY <1>4, <1>13, <2>2
  <2> QED
      BY <1>14, <2>1, <2>2, <2>3
<1>18. f \in Bijection(Items, (1..k) \X (1..c))
    BY <1>15, <1>16, <1>17 DEF Bijection, Injection, Surjection, IsInjective
<1>19. IsFiniteSet(Items) /\ Cardinality(Items) = Len(weight)
    BY <1>2, Interval DEF Items
<1>20. Cardinality((1..k) \X (1..c)) = Len(weight)
    BY <1>18, <1>19, FS_Bijection DEF ExistsBijection
<1>21. Cardinality((1..k) \X (1..c)) = k * c
  <2>1. IsFiniteSet(1..k) /\ Cardinality(1..k) = k
      BY <1>2, Interval
  <2>2. IsFiniteSet(1..c) /\ Cardinality(1..c) = c
      BY <1>6, Interval
  <2>3. Cardinality((1..k) \X (1..c)) = Cardinality(1..k) * Cardinality(1..c)
      BY <2>1, <2>2, FS_Product, Zenon
  <2> QED
      BY <2>1, <2>2, <2>3
<1> QED
    BY <1>2, <1>6, <1>20, <1>21

\* Sets of one item at most: the items, no fewer than the sets, are in different sets, so in all of them.
LEMMA NoneIsEmpty == ASSUME KKInv PROVE NoneEmpty
<1> SUFFICES ASSUME Partitioned, NEW s \in heap, NEW i \in 1..k
             PROVE  s[i].items # {}
    BY DEF NoneEmpty
<1>1. heap = {s}
    BY TheState
<1>2. k \in Nat \ {0} /\ weight \in Seq(Nat) /\ equal \in BOOLEAN /\ k <= Len(weight)
    BY DEF KKInv, KKTypeOK, Enough
<1>3. CASE OneSize(s) \/ NoneBare(s)
    BY <1>3 DEF OneSize, NoneBare
<1>4. CASE NoneTwo(s)
  <2>1. \A x \in Items : \E j \in 1..k : x \in s[j].items
      BY <1>1 DEF KKInv, EachItemOnce
  <2>2. PICK set : set = [x \in Items |-> CHOOSE j \in 1..k : x \in s[j].items]
      OBVIOUS
  <2>3. \A x \in Items : set[x] \in 1..k /\ x \in s[set[x]].items
      BY <2>1, <2>2
  <2>4. \A x, y \in Items : set[x] = set[y] => x = y
      BY <1>4, <2>3 DEF NoneTwo
  <2>5. set \in Injection(Items, 1..k)
      BY <2>2, <2>3, <2>4 DEF Injection, IsInjective
  <2>6. IsFiniteSet(1..k) /\ Cardinality(1..k) = k /\ Cardinality(Items) = Len(weight)
      BY <1>2, Interval DEF Items
  <2>7. /\ Cardinality(Items) <= Cardinality(1..k)
        /\ Cardinality(Items) = Cardinality(1..k) => set \in Surjection(Items, 1..k)
      BY <2>5, <2>6, FS_Injection
  <2>8. set \in Surjection(Items, 1..k)
      BY <1>2, <2>6, <2>7
  <2>9. PICK x \in Items : set[x] = i
      BY <2>8 DEF Surjection
  <2> QED
      BY <2>3, <2>9
<1> QED
    BY <1>2, <1>3, <1>4 DEF KKInv, Alike

\* Whatever the list and the number of partitions, karmarkar_karp returns what it asserts of its result.
THEOREM KKPartitionsSound == KKSpec => []PartitionsSound
<1>1. KKInv => PartitionsSound
    BY SizesAreEqual, NoneIsEmpty DEF PartitionsSound, KKInv
<1> QED
    BY <1>1, KKInvariant, PTL

\* The partitions are as balanced as SpreadBounded says.
THEOREM KKSpreadBounded == KKSpec => []SpreadBounded
<1>1. KKInv => SpreadBounded
    BY DEF KKInv
<1> QED
    BY <1>1, KKInvariant, PTL
========================================================================
