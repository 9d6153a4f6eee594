-------------------------- MODULE BatchPipelineProofs --------------------------
(***************************************************************************)
(* The way of a batch, for every number of ranks, length of rows and bound *)
(* on tokens: the partitions keep every row, the two reorderings, the      *)
(* chunks, the micro-batches and their inverse lose none, and the outputs  *)
(* meet the rows they were computed from; no partitioning and no forward   *)
(* pass stops half way, and every step comes closer to the end.  A sum     *)
(* over a set and a list of lists in a row are recursive functions of the  *)
(* library; what holds of them is shown on a least counterexample.         *)
(***************************************************************************)
EXTENDS BatchPipeline, KarmarkarKarpProofs, SequenceTheorems, FiniteSetTheorems,
        WellFoundedInduction, NaturalsInduction, TLAPS

\* A set of numbers that is not empty has a least one.
LEMMA LeastNumber ==
    ASSUME NEW T, T \subseteq Nat, T # {}
    PROVE  \E n \in T : \A m \in T : n <= m
<1>1. PICK R : R = OpToRel(<, Nat)
    OBVIOUS
<1>2. \E n \in T : \A m \in T : <<m, n>> \notin R
    <2>1. IsWellFoundedOn(R, Nat)
        BY <1>1, NatLessThanWellFounded
    <2> QED
        BY <2>1, WFMin
<1>3. R = {ss \in Nat \X Nat : ss[1] < ss[2]}
    BY <1>1, Zenon DEF OpToRel
<1>4. \A m, n \in Nat : m < n => <<m, n>> \in R
    BY <1>3
<1>5. PICK n \in T : \A m \in T : <<m, n>> \notin R
    BY <1>2
<1>6. \A m \in T : ~(m < n)
    BY <1>4, <1>5, Zenon
<1>7. n \in Nat /\ \A m \in T : m \in Nat
    OBVIOUS
<1>8. \A m \in T : n <= m
    BY <1>6, <1>7
<1> QED
    BY <1>8

\* Among finite sets there is a smallest one.
LEMMA SmallestSet ==
    ASSUME NEW B, B # {}, \A s \in B : IsFiniteSet(s)
    PROVE  \E s \in B : \A t \in B : Cardinality(s) <= Cardinality(t)
<1>1. PICK T : T = {Cardinality(s) : s \in B}
    OBVIOUS
<1>2. \A s \in B : Cardinality(s) \in Nat
    BY FS_CardinalityType
<1>3. T \subseteq Nat /\ T # {}
    BY <1>1, <1>2
<1>4. PICK n \in T : \A m \in T : n <= m
    BY <1>3, LeastNumber
<1> QED
    BY <1>1, <1>4

\* One element less.
LEMMA OneLess ==
    ASSUME NEW s, IsFiniteSet(s), NEW x \in s
    PROVE  /\ IsFiniteSet(s \ {x}) /\ Cardinality(s) \in Nat /\ Cardinality(s \ {x}) \in Nat
           /\ Cardinality(s \ {x}) = Cardinality(s) - 1
BY FS_RemoveElement, FS_CardinalityType

-----------------------------------------------------------------------------
\* Sums

Pick(s) == CHOOSE x \in s : TRUE
\* g adds up w over the subsets of T.
Adds(g, w, T) == g = [s \in SUBSET T |-> IF s = {} THEN 0 ELSE w[Pick(s)] + g[s \ {Pick(s)}]]
SumOver(w, T) == FoldFunctionOnSet(+, 0, w, T)

\* The element a fold takes next is one of the set.
LEMMA PickIn == ASSUME NEW s, s # {} PROVE Pick(s) \in s
BY DEF Pick

\* The library's sum is the value of a function chosen for satisfying the recursive equation.
LEMMA SumIsChosen ==
    ASSUME NEW w, NEW T
    PROVE  SumOver(w, T) = (CHOOSE g : Adds(g, w, T))[T]
BY DEF SumOver, FoldFunctionOnSet, MapThenFoldSet, Adds, Pick

\* The equation, case by case.
LEMMA AddsBy ==
    ASSUME NEW g, NEW w, NEW T, Adds(g, w, T)
    PROVE  /\ g[{}] = 0
           /\ \A s \in SUBSET T : s # {} => g[s] = w[Pick(s)] + g[s \ {Pick(s)}]
<1>1. g = [s \in SUBSET T |-> IF s = {} THEN 0 ELSE w[Pick(s)] + g[s \ {Pick(s)}]]
    BY DEF Adds
<1>2. \A s \in SUBSET T : g[s] = IF s = {} THEN 0 ELSE w[Pick(s)] + g[s \ {Pick(s)}]
    BY <1>1, Zenon
<1> QED
    BY <1>2

\* There is such a function: the subsets of at most n elements can be added up.
LEMMA AddsExists ==
    ASSUME NEW T, IsFiniteSet(T), NEW w, \A x \in T : w[x] \in Nat
    PROVE  \E g \in [SUBSET T -> Nat] : Adds(g, w, T)
<1> DEFINE A(n) == {s \in SUBSET T : Cardinality(s) <= n}
           Eq(g, n) == \A s \in A(n) : g[s] = IF s = {} THEN 0 ELSE w[Pick(s)] + g[s \ {Pick(s)}]
           Good(n) == \E g \in [A(n) -> Nat] : Eq(g, n)
           Bad == {n \in Nat : ~Good(n)}
<1>1. \A s \in SUBSET T : IsFiniteSet(s) /\ Cardinality(s) \in Nat
    BY FS_Subset, FS_CardinalityType
<1>2. Good(0)
  <2>1. \A s \in A(0) : s = {}
      BY <1>1, FS_EmptySet
  <2>2. [s \in A(0) |-> 0] \in [A(0) -> Nat]
      OBVIOUS
  <2>3. Eq([s \in A(0) |-> 0], 0)
      BY <2>1
  <2> QED
      BY <2>2, <2>3, Zenon
<1>3. ASSUME NEW n \in Nat, Good(n) PROVE Good(n + 1)
  <2>1. PICK g \in [A(n) -> Nat] : Eq(g, n)
      BY <1>3, Zenon
  <2>2. ASSUME NEW s \in A(n + 1), s # {}
        PROVE  Pick(s) \in T /\ s \ {Pick(s)} \in A(n)
    <3>1. Pick(s) \in s /\ s \in SUBSET T
        BY <2>2, PickIn
    <3>2. Cardinality(s) <= n + 1 /\ IsFiniteSet(s)
        BY <1>1, <3>1
    <3>3. Cardinality(s \ {Pick(s)}) <= n
        BY <3>1, <3>2, OneLess
    <3> QED
        BY <3>1, <3>3
  <2>3. PICK h : h = [s \in A(n + 1) |-> IF s = {} THEN 0 ELSE w[Pick(s)] + g[s \ {Pick(s)}]]
      OBVIOUS
  <2>4. h \in [A(n + 1) -> Nat]
    <3>1. \A s \in A(n + 1) : (IF s = {} THEN 0 ELSE w[Pick(s)] + g[s \ {Pick(s)}]) \in Nat
      <4> TAKE s \in A(n + 1)
      <4>1. CASE s = {}
          BY <4>1
      <4>2. CASE s # {}
        <5>1. w[Pick(s)] \in Nat
            BY <2>2, <4>2, Zenon
        <5>2. g[s \ {Pick(s)}] \in Nat
            BY <2>1, <2>2, <4>2, Zenon
        <5> QED
            BY <4>2, <5>1, <5>2
      <4> QED
          BY <4>1, <4>2
    <3> HIDE DEF A
    <3> QED
        BY <2>3, <3>1
  <2>5. \A s \in A(n + 1) : h[s] = IF s = {} THEN 0 ELSE w[Pick(s)] + g[s \ {Pick(s)}]
      BY <2>3, Zenon
  <2>6. \A s \in A(n) : s \in A(n + 1) /\ h[s] = g[s]
    <3> TAKE s \in A(n)
    <3>1. s \in A(n + 1)
        BY <1>1
    <3>2. g[s] = IF s = {} THEN 0 ELSE w[Pick(s)] + g[s \ {Pick(s)}]
        BY <2>1, Zenon
    <3> HIDE DEF A
    <3> QED
        BY <2>5, <3>1, <3>2
  <2>7. Eq(h, n + 1)
    <3> SUFFICES ASSUME NEW s \in A(n + 1) PROVE h[s] = IF s = {} THEN 0 ELSE w[Pick(s)] + h[s \ {Pick(s)}]
        BY Zenon
    <3>1. CASE s = {}
        BY <2>5, <3>1, Zenon
    <3>2. CASE s # {}
      <4>1. h[s \ {Pick(s)}] = g[s \ {Pick(s)}]
          BY <2>2, <2>6, <3>2, Zenon
      <4> HIDE DEF A
      <4> QED
          BY <2>5, <3>2, <4>1
    <3> QED
        BY <3>1, <3>2
  <2> QED
      BY <2>4, <2>7, Zenon
<1>4. Bad = {}
  <2> SUFFICES ASSUME Bad # {} PROVE FALSE
      OBVIOUS
  <2>1. PICK n \in Bad : \A m \in Bad : n <= m
      BY LeastNumber
  <2>2. n \in Nat /\ ~Good(n)
      BY <2>1, Zenon
  <2>3. n # 0
      BY <2>2, <1>2, ZenonT(30)
  <2>4. n - 1 \in Nat /\ n - 1 < n /\ (n - 1) + 1 = n
      BY <2>2, <2>3
  <2>5. n - 1 \notin Bad
    <3> HIDE DEF Bad
    <3>1. \A m \in Bad : n <= m
        BY <2>1, Zenon
    <3> QED
        BY <2>2, <2>4, <3>1
  <2>6. Good(n - 1)
      BY <2>4, <2>5, Zenon
  <2>7. Good((n - 1) + 1)
      BY <1>3, <2>4, <2>6, Zenon
  <2> HIDE DEF Good
  <2> QED
      BY <2>2, <2>4, <2>7, Zenon
<1>5. PICK n \in Nat : n = Cardinality(T)
    BY FS_CardinalityType
<1>6. A(n) = SUBSET T
    BY <1>5, FS_Subset
<1>7. n \notin Bad
    BY <1>4, Zenon
<1>8. Good(n)
    BY <1>7, Zenon
<1>9. PICK g \in [A(n) -> Nat] : Eq(g, n)
    BY <1>8, Zenon
<1>10. g \in [SUBSET T -> Nat]
    BY <1>6, <1>9, Zenon
<1>11. \A s \in SUBSET T : g[s] = IF s = {} THEN 0 ELSE w[Pick(s)] + g[s \ {Pick(s)}]
    BY <1>6, <1>9, Zenon
<1>12. Adds(g, w, T)
    BY <1>10, <1>11 DEF Adds
<1> QED
    BY <1>10, <1>12

\* Two such functions agree.
LEMMA AddsAgree ==
    ASSUME NEW g, NEW h, NEW w, NEW T, NEW U, Adds(g, w, T), Adds(h, w, U),
           NEW s \in SUBSET T, s \in SUBSET U, IsFiniteSet(s)
    PROVE  g[s] = h[s]
<1> DEFINE Bad == {u \in SUBSET s : g[u] # h[u]}
<1>1. ASSUME Bad # {} PROVE FALSE
  <2>1. \A u \in Bad : IsFiniteSet(u)
      BY FS_Subset
  <2>2. PICK u \in Bad : \A v \in Bad : Cardinality(u) <= Cardinality(v)
      BY <1>1, <2>1, SmallestSet
  <2>3. u \in SUBSET s /\ g[u] # h[u] /\ IsFiniteSet(u)
      BY <2>1, <2>2
  <2>4. u # {}
      BY <2>3, AddsBy
  <2>5. Pick(u) \in u
      BY <2>4, PickIn
  <2>6. Cardinality(u) \in Nat /\ Cardinality(u \ {Pick(u)}) = Cardinality(u) - 1
      BY <2>3, <2>5, OneLess, Zenon
  <2>7. u \ {Pick(u)} \notin Bad
    <3> HIDE DEF Bad
    <3> QED
        BY <2>2, <2>6
  <2>8. g[u \ {Pick(u)}] = h[u \ {Pick(u)}]
      BY <2>3, <2>7
  <2>9. g[u] = w[Pick(u)] + g[u \ {Pick(u)}] /\ h[u] = w[Pick(u)] + h[u \ {Pick(u)}]
      BY <2>3, <2>4, AddsBy, ZenonT(20)
  <2> QED
      BY <2>3, <2>8, <2>9
<1> QED
    BY <1>1

\* What a sum is: over the empty set, over more, and of what type.
LEMMA SumEmpty == ASSUME NEW w PROVE SumOver(w, {}) = 0
<1>1. PICK g \in [SUBSET {} -> Nat] : Adds(g, w, {})
    BY AddsExists, FS_EmptySet
<1>2. Adds((CHOOSE h : Adds(h, w, {})), w, {})
    BY <1>1, Zenon
<1> QED
    BY <1>2, AddsBy, SumIsChosen

\* The sum over a set with an element taken out, the one the fold takes.
LEMMA SumPick ==
    ASSUME NEW T, IsFiniteSet(T), NEW w, \A x \in T : w[x] \in Nat
    PROVE  /\ SumOver(w, T) \in Nat
           /\ T # {} => SumOver(w, T) = w[Pick(T)] + SumOver(w, T \ {Pick(T)})
<1>1. ASSUME NEW U \in SUBSET T
      PROVE  \E h \in [SUBSET U -> Nat] : Adds(h, w, U) /\ SumOver(w, U) = h[U]
  <2>1. PICK g \in [SUBSET U -> Nat] : Adds(g, w, U)
    <3>1. IsFiniteSet(U) /\ \A x \in U : w[x] \in Nat
        BY FS_Subset
    <3> QED
        BY <3>1, AddsExists, Zenon
  <2>2. PICK h : h = CHOOSE f : Adds(f, w, U)
      OBVIOUS
  <2>3. Adds(h, w, U)
      BY <2>1, <2>2, Zenon
  <2>4. \A s \in SUBSET U : h[s] = g[s]
      BY <2>1, <2>3, AddsAgree, FS_Subset
  <2>5. DOMAIN h = SUBSET U
      BY <2>3, Zenon DEF Adds
  <2>6. h = g
      BY <2>1, <2>3, <2>4, <2>5 DEF Adds
  <2> QED
      BY <2>1, <2>2, <2>6, SumIsChosen
<1>2. PICK g \in [SUBSET T -> Nat] : Adds(g, w, T) /\ SumOver(w, T) = g[T]
    BY <1>1
<1>3. SumOver(w, T) \in Nat
    BY <1>2
<1>4. ASSUME T # {} PROVE SumOver(w, T) = w[Pick(T)] + SumOver(w, T \ {Pick(T)})
  <2>1. PICK U : U = T \ {Pick(T)} /\ U \in SUBSET T
      OBVIOUS
  <2>2. PICK h \in [SUBSET U -> Nat] : Adds(h, w, U) /\ SumOver(w, U) = h[U]
      BY <1>1, <2>1
  <2>3. g[U] = h[U]
      BY <1>2, <2>1, <2>2, AddsAgree, FS_Subset
  <2>4. g[T] = w[Pick(T)] + g[T \ {Pick(T)}]
      BY <1>2, <1>4, AddsBy
  <2> QED
      BY <1>2, <2>1, <2>2, <2>3, <2>4
<1> QED
    BY <1>3, <1>4

\* It does not matter which element is taken out.
LEMMA SumTakeOut ==
    ASSUME NEW T, IsFiniteSet(T), NEW w, \A x \in T : w[x] \in Nat, NEW x \in T
    PROVE  SumOver(w, T) = w[x] + SumOver(w, T \ {x})
<1> DEFINE Bad == {s \in SUBSET T : \E y \in s : SumOver(w, s) # w[y] + SumOver(w, s \ {y})}
<1>1. ASSUME Bad # {} PROVE FALSE
  <2>1. \A s \in SUBSET T : IsFiniteSet(s) /\ \A y \in s : w[y] \in Nat
      BY FS_Subset
  <2>2. PICK s \in Bad : \A v \in Bad : Cardinality(s) <= Cardinality(v)
      BY <1>1, <2>1, SmallestSet
  <2>3. PICK y \in s : SumOver(w, s) # w[y] + SumOver(w, s \ {y})
      BY <2>2
  <2>4. s \in SUBSET T /\ IsFiniteSet(s)
      BY <2>1, <2>2
  <2>5. PICK z \in s : SumOver(w, s) = w[z] + SumOver(w, s \ {z})
      BY <2>1, <2>3, <2>4, PickIn, SumPick
  <2>6. z # y
      BY <2>3, <2>5
  <2>7. \A v \in SUBSET T : Cardinality(v) < Cardinality(s) => v \notin Bad
    <3>1. Cardinality(s) \in Nat /\ \A v \in SUBSET T : Cardinality(v) \in Nat
        BY <2>1, <2>4, FS_CardinalityType
    <3> HIDE DEF Bad
    <3> QED
        BY <2>2, <3>1
  <2>8. PICK u, v : u = s \ {z} /\ v = s \ {y}
      OBVIOUS
  <2>9. /\ u \in SUBSET T /\ v \in SUBSET T /\ y \in u /\ z \in v /\ u \ {y} = v \ {z}
        /\ IsFiniteSet(u) /\ IsFiniteSet(v)
      BY <2>4, <2>6, <2>8, FS_Subset
  <2>10. Cardinality(u) < Cardinality(s) /\ Cardinality(v) < Cardinality(s)
    <3>1. Cardinality(s) \in Nat /\ Cardinality(s \ {z}) = Cardinality(s) - 1 /\ Cardinality(s \ {y}) = Cardinality(s) - 1
        BY <2>3, <2>4, <2>5, OneLess, Zenon
    <3> QED
        BY <2>8, <3>1
  <2>11. u \notin Bad /\ v \notin Bad
      BY <2>7, <2>9, <2>10, Zenon
  <2>12. SumOver(w, u) = w[y] + SumOver(w, u \ {y})
      BY <2>9, <2>11, Zenon
  <2>13. SumOver(w, v) = w[z] + SumOver(w, v \ {z})
      BY <2>9, <2>11, Zenon
  <2>14. SumOver(w, u \ {y}) \in Nat /\ w[y] \in Nat /\ w[z] \in Nat
    <3>1. IsFiniteSet(u \ {y}) /\ \A i \in u \ {y} : w[i] \in Nat
        BY <2>9, <2>1
    <3> QED
        BY <2>1, <2>4, <3>1, SumPick
  <2> QED
      BY <2>3, <2>5, <2>8, <2>9, <2>12, <2>13, <2>14
<1>2. T \notin Bad
    BY <1>1, Zenon
<1> QED
    BY <1>2

\* The sum over one element.
LEMMA SumOne ==
    ASSUME NEW w, NEW x, w[x] \in Nat
    PROVE  SumOver(w, {x}) = w[x]
<1>1. SumOver(w, {x}) = w[x] + SumOver(w, {x} \ {x})
    BY SumTakeOut, FS_Singleton
<1> QED
    BY <1>1, SumEmpty

\* The sum over two sets that share nothing.
LEMMA SumUnion ==
    ASSUME NEW w, NEW S, NEW T, IsFiniteSet(S), IsFiniteSet(T), S \cap T = {},
           \A x \in S \cup T : w[x] \in Nat
    PROVE  SumOver(w, S \cup T) = SumOver(w, S) + SumOver(w, T)
<1> DEFINE Bad == {s \in SUBSET S : SumOver(w, s \cup T) # SumOver(w, s) + SumOver(w, T)}
<1>1. \A s \in SUBSET S : /\ IsFiniteSet(s) /\ IsFiniteSet(s \cup T) /\ \A y \in s \cup T : w[y] \in Nat
                          /\ SumOver(w, s) \in Nat
  <2> TAKE s \in SUBSET S
  <2>1. IsFiniteSet(s)
      BY FS_Subset
  <2>2. IsFiniteSet(s \cup T)
      BY <2>1, FS_Union
  <2> QED
      BY <2>1, <2>2, SumPick
<1>2. SumOver(w, T) \in Nat
    BY SumPick
<1>3. ASSUME Bad # {} PROVE FALSE
  <2>1. PICK s \in Bad : \A v \in Bad : Cardinality(s) <= Cardinality(v)
      BY <1>1, <1>3, SmallestSet
  <2>2. s \in SUBSET S /\ SumOver(w, s \cup T) # SumOver(w, s) + SumOver(w, T)
      BY <2>1
  <2>3. s # {}
    <3>1. SumOver(w, {}) = 0 /\ {} \cup T = T
        BY SumEmpty
    <3> QED
        BY <1>2, <2>2, <3>1
  <2>4. PICK y : y \in s
      BY <2>3
  <2>5. PICK u : u = s \ {y} /\ u \in SUBSET S
      BY <2>2
  <2>6. Cardinality(s) \in Nat /\ Cardinality(u) = Cardinality(s) - 1
      BY <1>1, <2>2, <2>4, <2>5, OneLess, Zenon
  <2>7. u \notin Bad
    <3> HIDE DEF Bad
    <3> QED
        BY <2>1, <2>6
  <2>8. SumOver(w, u \cup T) = SumOver(w, u) + SumOver(w, T)
      BY <2>5, <2>7, Zenon
  <2>9. SumOver(w, s) = w[y] + SumOver(w, u)
      BY <1>1, <2>2, <2>4, <2>5, SumTakeOut
  <2>10. (s \cup T) \ {y} = u \cup T
      BY <2>2, <2>4, <2>5
  <2>11. SumOver(w, s \cup T) = w[y] + SumOver(w, u \cup T)
    <3>1. PICK V : V = s \cup T
        OBVIOUS
    <3>2. y \in V /\ IsFiniteSet(V) /\ \A x \in V : w[x] \in Nat
        BY <1>1, <2>2, <2>4, <3>1
    <3>3. SumOver(w, V) = w[y] + SumOver(w, V \ {y})
        BY <3>2, SumTakeOut
    <3> QED
        BY <2>10, <3>1, <3>3
  <2>12. w[y] \in Nat /\ SumOver(w, u) \in Nat
      BY <1>1, <2>2, <2>4, <2>5
  <2> QED
      BY <1>2, <2>2, <2>8, <2>9, <2>11, <2>12
<1>4. S \notin Bad
    BY <1>3, Zenon
<1> QED
    BY <1>4

-----------------------------------------------------------------------------
\* Lists

\* f[i] is made of the first i of the n lists of q.
BuildsUp(f, q, n, S) == /\ f \in [1..n -> Seq(S)] /\ FlattenSeq(q) = f[n] /\ f[1] = q[1]
                        /\ \A i \in 2..n : f[i] = f[i - 1] \o q[i]

\* Flattening builds up its result list by list.
LEMMA FlattenBy ==
    ASSUME NEW S, NEW c \in Nat \ {0}, NEW q \in Seq(Seq(S)), Len(q) = c
    PROVE  \E f : BuildsUp(f, q, c, S)
<1> DEFINE Eq(f, n) == \A i \in 1..n : f[i] = IF i = 1 THEN q[i] ELSE f[i - 1] \o q[i]
           Good(n) == \E f \in [1..n -> Seq(S)] : Eq(f, n)
           Bad == {n \in 1..c : ~Good(n)}
<1>1. c \in Nat /\ \A i \in 1..c : q[i] \in Seq(S)
    OBVIOUS
<1>2. Good(1)
  <2>1. PICK f : f = [i \in 1..1 |-> q[1]]
      OBVIOUS
  <2>2. f \in [1..1 -> Seq(S)]
      BY <1>1, <2>1
  <2>3. Eq(f, 1)
      BY <2>1
  <2> QED
      BY <2>2, <2>3, Zenon
<1>3. ASSUME NEW n \in Nat, n >= 1, n < c, Good(n) PROVE Good(n + 1)
  <2>1. PICK g \in [1..n -> Seq(S)] : Eq(g, n)
      BY <1>3, Zenon
  <2>2. PICK f : f = [i \in 1..(n + 1) |-> IF i = n + 1 THEN g[n] \o q[n + 1] ELSE g[i]]
      OBVIOUS
  <2>3. g[n] \in Seq(S) /\ q[n + 1] \in Seq(S)
      BY <1>1, <1>3, <2>1
  <2>4. g[n] \o q[n + 1] \in Seq(S)
      BY <2>3
  <2>5. f \in [1..(n + 1) -> Seq(S)]
      BY <2>1, <2>2, <2>4
  <2>6. Eq(f, n + 1)
    <3> SUFFICES ASSUME NEW i \in 1..(n + 1) PROVE f[i] = IF i = 1 THEN q[i] ELSE f[i - 1] \o q[i]
        OBVIOUS
    <3>1. \A j \in 1..n : f[j] = g[j]
        BY <1>3, <2>2
    <3>2. CASE i = n + 1
      <4>1. i # 1 /\ i - 1 = n /\ n \in 1..n
          BY <1>3, <3>2
      <4>2. f[i] = g[n] \o q[n + 1]
          BY <2>2, <3>2
      <4>3. f[n] = g[n]
          BY <3>1, <4>1, Zenon
      <4> QED
          BY <3>2, <4>1, <4>2, <4>3
    <3>3. CASE i # n + 1
      <4>1. i \in 1..n
          BY <3>3
      <4>2. g[i] = IF i = 1 THEN q[i] ELSE g[i - 1] \o q[i]
          BY <2>1, <4>1, Zenon
      <4>3. f[i] = g[i]
          BY <3>1, <4>1, Zenon
      <4>4. i # 1 => i - 1 \in 1..n
          BY <1>3, <4>1
      <4>5. i # 1 => f[i - 1] = g[i - 1]
          BY <3>1, <4>4, Zenon
      <4> QED
          BY <4>2, <4>3, <4>5
    <3> QED
        BY <3>2, <3>3
  <2> QED
      BY <2>5, <2>6, Zenon
<1>4. Bad = {}
  <2> SUFFICES ASSUME Bad # {} PROVE FALSE
      OBVIOUS
  <2>1. Bad \subseteq Nat
      BY <1>1
  <2>2. PICK n \in Bad : \A m \in Bad : n <= m
      BY <2>1, LeastNumber
  <2>3. n \in 1..c /\ ~Good(n)
      BY <2>2, Zenon
  <2>4. n # 1
      BY <2>3, <1>2, Zenon
  <2>5. n - 1 \in 1..c /\ n - 1 \in Nat /\ n - 1 >= 1 /\ n - 1 < c /\ (n - 1) + 1 = n
      BY <1>1, <2>3, <2>4
  <2>6. n - 1 \notin Bad
    <3> HIDE DEF Bad
    <3>1. \A m \in Bad : n <= m
        BY <2>2, Zenon
    <3> QED
        BY <2>3, <2>5, <3>1
  <2>7. Good(n - 1)
      BY <2>5, <2>6, Zenon
  <2>8. Good((n - 1) + 1)
      BY <1>3, <2>5, <2>7, Zenon
  <2> HIDE DEF Good
  <2> QED
      BY <2>3, <2>5, <2>8, Zenon
<1>5. c \in 1..c
    BY <1>1
<1>6. Good(c)
    BY <1>4, <1>5, ZenonT(30)
<1>7. PICK f \in [1..c -> Seq(S)] : Eq(f, c)
    BY <1>6, Zenon
<1>8. PICK r : r = CHOOSE h : h = [i \in 1..c |-> IF i = 1 THEN q[i] ELSE h[i - 1] \o q[i]]
    OBVIOUS
<1>9. f = [i \in 1..c |-> IF i = 1 THEN q[i] ELSE f[i - 1] \o q[i]]
    BY <1>7
<1>10. r = [i \in 1..c |-> IF i = 1 THEN q[i] ELSE r[i - 1] \o q[i]]
    BY <1>8, <1>9, Zenon
<1>11. FlattenSeq(q) = r[c]
  <2>1. Len(q) # 0
      OBVIOUS
  <2>2. FlattenSeq(q) = (CHOOSE h : h = [i \in 1..Len(q) |-> IF i = 1 THEN q[i] ELSE h[i - 1] \o q[i]])[Len(q)]
      BY <2>1 DEF FlattenSeq
  <2> QED
      BY <1>8, <2>2
<1>12. \A i \in 1..c : r[i] = IF i = 1 THEN q[i] ELSE r[i - 1] \o q[i]
    BY <1>10, Zenon
<1>13. \A i \in 1..c : r[i] = f[i]
  <2> DEFINE Off == {i \in 1..c : r[i] # f[i]}
  <2> SUFFICES ASSUME Off # {} PROVE FALSE
      OBVIOUS
  <2>1. Off \subseteq Nat
      BY <1>1
  <2>2. PICK i \in Off : \A j \in Off : i <= j
      BY <2>1, LeastNumber
  <2>3. i \in 1..c /\ r[i] # f[i]
      BY <2>2
  <2>4. f[i] = IF i = 1 THEN q[i] ELSE f[i - 1] \o q[i]
      BY <1>7, <2>3, Zenon
  <2>5. r[i] = IF i = 1 THEN q[i] ELSE r[i - 1] \o q[i]
      BY <1>12, <2>3, Zenon
  <2>6. i # 1
      BY <2>3, <2>4, <2>5
  <2>7. i - 1 \in 1..c /\ i - 1 < i
      BY <1>1, <2>3, <2>6
  <2>8. i - 1 \notin Off
    <3> HIDE DEF Off
    <3> QED
        BY <2>2, <2>3, <2>7
  <2>9. r[i - 1] = f[i - 1]
      BY <2>7, <2>8
  <2> QED
      BY <2>3, <2>4, <2>5, <2>9
<1>14. FlattenSeq(q) = f[c]
    BY <1>5, <1>11, <1>13, Zenon
<1>15. f[1] = q[1]
  <2>1. 1 \in 1..c
      BY <1>1
  <2> QED
      BY <1>7, <2>1, Zenon
<1>16. \A i \in 2..c : f[i] = f[i - 1] \o q[i]
  <2> TAKE i \in 2..c
  <2>1. i \in 1..c /\ i # 1
      BY <1>1
  <2>2. f[i] = IF i = 1 THEN q[i] ELSE f[i - 1] \o q[i]
      BY <1>7, <2>1, Zenon
  <2> QED
      BY <2>1, <2>2
<1> QED
    BY <1>7, <1>14, <1>15, <1>16 DEF BuildsUp

\* Induction from 1 to n, on the set of the numbers it has reached.
LEMMA Climb ==
    ASSUME NEW n \in Nat, NEW G, 1 \in G, \A i \in 1..n : i \in G /\ i < n => i + 1 \in G
    PROVE  \A i \in 1..n : i \in G
<1> DEFINE Bad == {i \in 1..n : i \notin G}
<1> SUFFICES ASSUME Bad # {} PROVE FALSE
    OBVIOUS
<1>1. PICK i \in Bad : \A j \in Bad : i <= j
  <2>1. Bad \subseteq Nat
      OBVIOUS
  <2> QED
      BY <2>1, LeastNumber
<1>2. i \in 1..n /\ i \notin G
    BY <1>1
<1>3. i # 1
    BY <1>2, Zenon
<1>4. i - 1 \in 1..n /\ i - 1 < n /\ (i - 1) + 1 = i /\ i - 1 < i
    BY <1>2, <1>3
<1>5. i - 1 \notin Bad
  <2> HIDE DEF Bad
  <2> QED
      BY <1>1, <1>2, <1>4
<1> QED
    BY <1>2, <1>4, <1>5

\* A function on 1..n is a list of length n.
LEMMA FunctionIsList ==
    ASSUME NEW n \in Nat, NEW S, NEW q \in [1..n -> S]
    PROVE  q \in Seq(S) /\ Len(q) = n
OBVIOUS

\* u lists the elements of A, each once.
Lists(u, A) == /\ u \in Seq(A)
               /\ \A a, b \in 1..Len(u) : u[a] = u[b] => a = b
               /\ \A x \in A : \E a \in 1..Len(u) : u[a] = x

\* A list of a set, each element once, is as long as the set is large.
LEMMA ListLength ==
    ASSUME NEW A, NEW u, Lists(u, A)
    PROVE  IsFiniteSet(A) /\ Len(u) = Cardinality(A)
<1>1. u \in [1..Len(u) -> A] /\ Len(u) \in Nat
    BY DEF Lists
<1>2. u \in Bijection(1..Len(u), A)
    BY <1>1 DEF Lists, Bijection, Injection, Surjection, IsInjective
<1>3. IsFiniteSet(1..Len(u)) /\ Cardinality(1..Len(u)) = Len(u)
  <2>1. PICK n \in Nat : n = Len(u)
      BY <1>1
  <2>2. IsFiniteSet(1..n) /\ Cardinality(1..n) = IF 1 > n THEN 0 ELSE n - 1 + 1
      BY FS_Interval
  <2>3. Cardinality(1..n) = n
      BY <2>2
  <2> QED
      BY <2>1, <2>2, <2>3
<1> QED
    BY <1>2, <1>3, FS_Bijection DEF ExistsBijection

\* Two lists of sets that share nothing, one after the other.
LEMMA ConcatLists ==
    ASSUME NEW A, NEW B, A \cap B = {}, NEW u, NEW v, Lists(u, A), Lists(v, B)
    PROVE  Lists(u \o v, A \cup B)
<1>1. u \in Seq(A \cup B) /\ v \in Seq(A \cup B) /\ Len(u) \in Nat /\ Len(v) \in Nat
    BY DEF Lists
<1>2. /\ u \o v \in Seq(A \cup B) /\ Len(u \o v) = Len(u) + Len(v)
      /\ \A i \in 1 .. Len(u) + Len(v) : (u \o v)[i] = IF i <= Len(u) THEN u[i] ELSE v[i - Len(u)]
    BY <1>1, ConcatProperties, Zenon
<1>3. PICK z, m, n : z = u \o v /\ m = Len(u) /\ n = Len(v)
    OBVIOUS
<1>4. \A i \in 1..(m + n) : /\ i <= m => i \in 1..m /\ z[i] = u[i]
                            /\ i > m => i - m \in 1..n /\ z[i] = v[i - m]
    BY <1>1, <1>2, <1>3
<1>5. (\A i \in 1..m : u[i] \in A) /\ (\A i \in 1..n : v[i] \in B)
    BY <1>3 DEF Lists
<1>6. \A a, b \in 1..m : u[a] = u[b] => a = b
    BY <1>3 DEF Lists
<1>7. \A a, b \in 1..n : v[a] = v[b] => a = b
    BY <1>3 DEF Lists
<1>8. ASSUME NEW a \in 1..(m + n), NEW b \in 1..(m + n), z[a] = z[b] PROVE a = b
  <2>1. CASE a <= m /\ b <= m
      BY <1>4, <1>6, <1>8, <2>1
  <2>2. CASE a > m /\ b > m
    <3>1. a - m \in 1..n /\ b - m \in 1..n /\ v[a - m] = v[b - m]
        BY <1>4, <1>8, <2>2
    <3>2. a - m = b - m
        BY <1>7, <3>1, Zenon
    <3> QED
        BY <1>1, <1>3, <3>2
  <2>3. CASE (a <= m /\ b > m) \/ (a > m /\ b <= m)
    <3>1. (z[a] \in A /\ z[b] \in B) \/ (z[a] \in B /\ z[b] \in A)
        BY <1>4, <1>5, <2>3
    <3> QED
        BY <1>8, <3>1
  <2> QED
      BY <1>1, <1>3, <2>1, <2>2, <2>3
<1>9. ASSUME NEW x \in A \cup B PROVE \E a \in 1..(m + n) : z[a] = x
  <2>1. CASE x \in A
    <3>1. PICK a \in 1..m : u[a] = x
        BY <1>3, <2>1 DEF Lists
    <3>2. a \in 1..(m + n) /\ a <= m
        BY <1>1, <1>3
    <3> QED
        BY <1>4, <3>1, <3>2
  <2>2. CASE x \in B
    <3>1. PICK b \in 1..n : v[b] = x
        BY <1>3, <2>2 DEF Lists
    <3>2. m + b \in 1..(m + n) /\ m + b > m /\ (m + b) - m = b
        BY <1>1, <1>3
    <3>3. z[m + b] = v[b]
        BY <1>4, <3>2
    <3> QED
        BY <3>1, <3>2, <3>3
  <2> QED
      BY <2>1, <2>2
<1> QED
    BY <1>2, <1>3, <1>8, <1>9 DEF Lists

\* The same from the end.
LEMMA ReverseLists ==
    ASSUME NEW A, NEW u, Lists(u, A)
    PROVE  Lists(Reverse(u), A)
<1>1. u \in Seq(A) /\ Len(u) \in Nat
    BY DEF Lists
<1>2. PICK n : n = Len(u)
    OBVIOUS
<1>3. PICK z : z = Reverse(u)
    OBVIOUS
<1>4. z = [i \in 1..n |-> u[(n - i) + 1]]
    BY <1>2, <1>3 DEF Reverse
<1>5. \A i \in 1..n : (n - i) + 1 \in 1..n /\ (n - ((n - i) + 1)) + 1 = i
    BY <1>1, <1>2
<1>6. \A i \in 1..n : u[i] \in A
    BY <1>1, <1>2
<1>7. z \in Seq(A) /\ Len(z) = n
    BY <1>1, <1>2, <1>4, <1>5, <1>6
<1>8. \A a, b \in 1..n : z[a] = z[b] => a = b
  <2> TAKE a, b \in 1..n
  <2>1. z[a] = u[(n - a) + 1] /\ z[b] = u[(n - b) + 1]
      BY <1>4
  <2>2. (n - a) + 1 \in 1..n /\ (n - b) + 1 \in 1..n
      BY <1>5
  <2>3. \A i, j \in 1..n : u[i] = u[j] => i = j
      BY <1>2 DEF Lists
  <2>4. z[a] = z[b] => (n - a) + 1 = (n - b) + 1
      BY <2>1, <2>2, <2>3, Zenon
  <2> QED
      BY <1>1, <1>2, <2>4
<1>9. \A x \in A : \E a \in 1..n : z[a] = x
  <2> TAKE x \in A
  <2>1. PICK b \in 1..n : u[b] = x
      BY <1>2 DEF Lists
  <2>2. z[(n - b) + 1] = x
      BY <1>4, <1>5, <2>1
  <2> QED
      BY <1>5, <2>2
<1> QED
    BY <1>3, <1>7, <1>8, <1>9 DEF Lists

\* Of a list, the first, third, .. and the second, fourth, ..
LEMMA DealLists ==
    ASSUME NEW A, NEW u, Lists(u, A)
    PROVE  \E B, C : /\ B \cap C = {} /\ B \cup C = A
                     /\ Lists(Evens(u), B) /\ Lists(Odds(u), C)
<1>1. u \in Seq(A) /\ Len(u) \in Nat
    BY DEF Lists
<1>2. PICK n : n = Len(u)
    OBVIOUS
<1>3. PICK h, l : h = (n + 2 - 1) \div 2 /\ l = n \div 2
    OBVIOUS
<1>4. h \in Nat /\ l \in Nat /\ n <= 2 * h /\ 2 * h <= n + 1 /\ 2 * l <= n /\ n <= 2 * l + 1
    BY <1>1, <1>2, <1>3
<1>5. PICK e, o : e = Evens(u) /\ o = Odds(u)
    OBVIOUS
<1>6. e = [i \in 1..h |-> u[2 * i - 1]] /\ o = [i \in 1..l |-> u[2 * i]]
    BY <1>2, <1>3, <1>5 DEF Evens, Odds, CeilDiv
<1>7. \A i \in 1..h : 2 * i - 1 \in 1..n
    BY <1>1, <1>2, <1>4
<1>8. \A i \in 1..l : 2 * i \in 1..n
    BY <1>1, <1>2, <1>4
<1>9. PICK B, C : B = {u[2 * i - 1] : i \in 1..h} /\ C = {u[2 * i] : i \in 1..l}
    OBVIOUS
<1>10. \A a, b \in 1..n : u[a] = u[b] => a = b
    BY <1>2 DEF Lists
<1>11. B \cap C = {}
  <2> SUFFICES ASSUME NEW i \in 1..h, NEW j \in 1..l, u[2 * i - 1] = u[2 * j] PROVE FALSE
      BY <1>9
  <2>1. 2 * i - 1 = 2 * j
      BY <1>7, <1>8, <1>10
  <2> QED
      BY <1>4, <2>1
<1>12. B \cup C = A
  <2>1. B \cup C \subseteq A
      BY <1>1, <1>2, <1>7, <1>8, <1>9
  <2>2. ASSUME NEW x \in A PROVE x \in B \cup C
    <3>1. PICK a \in 1..n : u[a] = x
        BY <1>2 DEF Lists
    <3>2. (\E i \in 1..h : a = 2 * i - 1) \/ (\E i \in 1..l : a = 2 * i)
      <4>1. PICK q : q = a \div 2
          OBVIOUS
      <4>2. q \in Nat /\ (a = 2 * q \/ a = 2 * q + 1)
          BY <4>1
      <4>3. CASE a = 2 * q
          BY <1>1, <1>2, <1>4, <4>2, <4>3
      <4>4. CASE a = 2 * q + 1
        <5>1. q + 1 \in 1..h /\ a = 2 * (q + 1) - 1
            BY <1>1, <1>2, <1>4, <4>2, <4>4
        <5> QED
            BY <5>1
      <4> QED
          BY <4>2, <4>3, <4>4
    <3> QED
        BY <1>9, <3>1, <3>2
  <2> QED
      BY <2>1, <2>2
<1>13. Lists(e, B)
  <2>1. e \in Seq(B) /\ Len(e) = h
      BY <1>4, <1>6, <1>9
  <2>2. \A a, b \in 1..h : e[a] = e[b] => a = b
    <3> TAKE a, b \in 1..h
    <3>1. e[a] = e[b] => 2 * a - 1 = 2 * b - 1
        BY <1>6, <1>7, <1>10
    <3> QED
        BY <1>4, <3>1
  <2>3. \A x \in B : \E a \in 1..h : e[a] = x
      BY <1>6, <1>9
  <2> QED
      BY <2>1, <2>2, <2>3 DEF Lists
<1>14. Lists(o, C)
  <2>1. o \in Seq(C) /\ Len(o) = l
      BY <1>4, <1>6, <1>9
  <2>2. \A a, b \in 1..l : o[a] = o[b] => a = b
    <3> TAKE a, b \in 1..l
    <3>1. o[a] = o[b] => 2 * a = 2 * b
        BY <1>6, <1>8, <1>10
    <3> QED
        BY <1>4, <3>1
  <2>3. \A x \in C : \E a \in 1..l : o[a] = x
      BY <1>6, <1>9
  <2> QED
      BY <2>1, <2>2, <2>3 DEF Lists
<1> QED
    BY <1>5, <1>11, <1>12, <1>13, <1>14

\* Sorting: of two elements one is ahead, and what is ahead of it is ahead of the other.
Orders(S, ahead) == /\ \A x \in S : ahead[x] \in SUBSET S /\ x \notin ahead[x]
                    /\ \A x, y \in S : x # y => x \in ahead[y] \/ y \in ahead[x]
                    /\ \A x, y \in S : x \in ahead[y] => ahead[x] \subseteq ahead[y]

\* What is ahead of an element that is ahead of another is less than what is ahead of the other.
LEMMA FewerAhead ==
    ASSUME NEW S, IsFiniteSet(S), NEW ahead, Orders(S, ahead)
    PROVE  \A x, y \in S : x \in ahead[y] =>
              /\ IsFiniteSet(ahead[x]) /\ IsFiniteSet(ahead[y])
              /\ Cardinality(ahead[x]) \in Nat /\ Cardinality(ahead[y]) \in Nat
              /\ Cardinality(ahead[x]) < Cardinality(ahead[y])
<1> TAKE x, y \in S
<1> HAVE x \in ahead[y]
<1>1. ahead[x] \in SUBSET ahead[y] /\ ahead[x] # ahead[y] /\ ahead[y] \in SUBSET S
    BY DEF Orders
<1>2. IsFiniteSet(ahead[y]) /\ IsFiniteSet(ahead[x])
    BY <1>1, FS_Subset
<1>3. Cardinality(ahead[x]) \in Nat /\ Cardinality(ahead[y]) \in Nat
    BY <1>2, FS_CardinalityType
<1>4. Cardinality(ahead[x]) <= Cardinality(ahead[y]) /\ Cardinality(ahead[x]) # Cardinality(ahead[y])
    BY <1>1, <1>2, FS_Subset
<1> QED
    BY <1>2, <1>3, <1>4

\* As many are ahead of the element at a place as there are places before it.
InPlace(z, ahead) == \A p \in 1..Len(z) : Cardinality(ahead[z[p]]) = p - 1

\* A sorted set is a list of it (list.sort loses nothing and repeats nothing), each element in its place.
LEMMA SortPlaces ==
    ASSUME NEW S, IsFiniteSet(S), NEW ahead, Orders(S, ahead)
    PROVE  Lists(SortBy(S, ahead), S) /\ InPlace(SortBy(S, ahead), ahead)
<1>1. PICK n \in Nat : n = Cardinality(S)
    BY FS_CardinalityType
<1>2. PICK c : c = [x \in S |-> Cardinality(ahead[x]) + 1]
    OBVIOUS
<1>3. \A x \in S : /\ IsFiniteSet(ahead[x]) /\ Cardinality(ahead[x]) \in Nat
                   /\ Cardinality(ahead[x]) < n
  <2> TAKE x \in S
  <2>1. ahead[x] \in SUBSET S /\ ahead[x] # S
      BY DEF Orders
  <2>2. IsFiniteSet(ahead[x]) /\ Cardinality(ahead[x]) <= n /\ Cardinality(ahead[x]) # n
      BY <1>1, <2>1, FS_Subset
  <2>3. Cardinality(ahead[x]) \in Nat
      BY <2>2, FS_CardinalityType
  <2> QED
      BY <2>2, <2>3
<1>4. \A x, y \in S : x \in ahead[y] => Cardinality(ahead[x]) < Cardinality(ahead[y])
    BY FewerAhead
<1>5. \A x, y \in S : Cardinality(ahead[x]) = Cardinality(ahead[y]) => x = y
  <2> TAKE x, y \in S
  <2>1. Cardinality(ahead[x]) \in Nat /\ Cardinality(ahead[y]) \in Nat
      BY <1>3
  <2>2. x # y => x \in ahead[y] \/ y \in ahead[x]
      BY DEF Orders
  <2>3. x \in ahead[y] => Cardinality(ahead[x]) < Cardinality(ahead[y])
      BY <1>4
  <2>4. y \in ahead[x] => Cardinality(ahead[y]) < Cardinality(ahead[x])
      BY <1>4
  <2> QED
      BY <2>1, <2>2, <2>3, <2>4
<1>6. \A x \in S : c[x] = Cardinality(ahead[x]) + 1 /\ c[x] \in 1..n
  <2> TAKE x \in S
  <2>1. c[x] = Cardinality(ahead[x]) + 1
      BY <1>2
  <2>2. Cardinality(ahead[x]) \in Nat /\ Cardinality(ahead[x]) < n
      BY <1>3
  <2> QED
      BY <2>1, <2>2
<1>7. \A x, y \in S : c[x] = c[y] => x = y
  <2> TAKE x, y \in S
  <2>1. c[x] = Cardinality(ahead[x]) + 1 /\ c[y] = Cardinality(ahead[y]) + 1
      BY <1>6
  <2>2. Cardinality(ahead[x]) \in Nat /\ Cardinality(ahead[y]) \in Nat
      BY <1>3
  <2>3. c[x] = c[y] => Cardinality(ahead[x]) = Cardinality(ahead[y])
      BY <2>1, <2>2
  <2> QED
      BY <1>5, <2>3
<1>8. c \in [S -> 1..n]
    BY <1>2, <1>6
<1>9. c \in Injection(S, 1..n)
    BY <1>7, <1>8 DEF Injection, IsInjective
<1>10. IsFiniteSet(1..n) /\ Cardinality(1..n) = n
  <2>1. IsFiniteSet(1..n) /\ Cardinality(1..n) = IF 1 > n THEN 0 ELSE n - 1 + 1
      BY FS_Interval
  <2> QED
      BY <2>1
<1>11. c \in Surjection(S, 1..n)
    BY <1>1, <1>9, <1>10, FS_Injection
<1>12. \A p \in 1..n : \E x \in S : c[x] = p
    BY <1>11 DEF Surjection
<1>13. PICK z : z = SortBy(S, ahead)
    OBVIOUS
<1>14. z = [p \in 1..n |-> CHOOSE x \in S : Cardinality(ahead[x]) = p - 1]
    BY <1>1, <1>13 DEF SortBy
<1>15. \A p \in 1..n : z[p] \in S /\ c[z[p]] = p /\ Cardinality(ahead[z[p]]) = p - 1
  <2> TAKE p \in 1..n
  <2>1. PICK x \in S : c[x] = p
      BY <1>12
  <2>2. Cardinality(ahead[x]) = p - 1
      BY <1>3, <1>6, <2>1
  <2>3. z[p] \in S /\ Cardinality(ahead[z[p]]) = p - 1
    <3>1. z[p] = CHOOSE y \in S : Cardinality(ahead[y]) = p - 1
        BY <1>14
    <3> QED
        BY <2>2, <3>1, Zenon
  <2>4. z[p] = x
      BY <1>5, <2>2, <2>3, Zenon
  <2> QED
      BY <2>1, <2>3, <2>4
<1>16. z \in Seq(S) /\ Len(z) = n
  <2>1. z \in [1..n -> S]
      BY <1>14, <1>15
  <2> QED
      BY <2>1
<1>17. \A a, b \in 1..n : z[a] = z[b] => a = b
    BY <1>15, Zenon
<1>18. \A x \in S : \E a \in 1..n : z[a] = x
  <2> TAKE x \in S
  <2>1. c[x] \in 1..n /\ c[z[c[x]]] = c[x] /\ z[c[x]] \in S
      BY <1>6, <1>15
  <2> QED
      BY <1>7, <2>1, Zenon
<1>19. Lists(z, S)
    BY <1>16, <1>17, <1>18 DEF Lists
<1>20. InPlace(z, ahead)
    BY <1>15, <1>16 DEF InPlace
<1> QED
    BY <1>13, <1>19, <1>20

\* A sorted set is a list of it (list.sort loses nothing and repeats nothing).
LEMMA SortLists ==
    ASSUME NEW S, IsFiniteSet(S), NEW ahead, Orders(S, ahead)
    PROVE  Lists(SortBy(S, ahead), S)
BY SortPlaces

\* What is ahead of another stands before it.
LEMMA SortInOrder ==
    ASSUME NEW S, IsFiniteSet(S), NEW ahead, Orders(S, ahead), NEW z, z = SortBy(S, ahead),
           NEW a \in 1..Len(z), NEW b \in 1..Len(z), z[a] \in ahead[z[b]]
    PROVE  a < b
<1>1. Lists(z, S) /\ InPlace(z, ahead)
    BY SortPlaces
<1>2. z[a] \in S /\ z[b] \in S
    BY <1>1 DEF Lists
<1>3. Cardinality(ahead[z[a]]) < Cardinality(ahead[z[b]])
    BY <1>2, FewerAhead
<1>4. Cardinality(ahead[z[a]]) = a - 1 /\ Cardinality(ahead[z[b]]) = b - 1
    BY <1>1 DEF InPlace
<1> QED
    BY <1>3, <1>4

\* Lists of sets that share nothing, in a row.
LEMMA FlattenLists ==
    ASSUME NEW n \in Nat \ {0}, NEW q, q = [i \in 1..n |-> q[i]], NEW A,
           \A i \in 1..n : Lists(q[i], A[i]),
           \A i, j \in 1..n : i # j => A[i] \cap A[j] = {}
    PROVE  Lists(FlattenSeq(q), UNION {A[i] : i \in 1..n})
<1>1. PICK S : S = UNION {A[i] : i \in 1..n}
    OBVIOUS
<1>2. \A i \in 1..n : q[i] \in Seq(S)
    BY <1>1 DEF Lists
<1>3. q \in [1..n -> Seq(S)]
    BY <1>2
<1>4. q \in Seq(Seq(S))
    BY <1>3
<1>5. Len(q) = n
    BY <1>3
<1>6. PICK f : BuildsUp(f, q, n, S)
    BY <1>4, <1>5, FlattenBy
<1>7. /\ f \in [1..n -> Seq(S)] /\ FlattenSeq(q) = f[n] /\ f[1] = q[1]
      /\ \A i \in 2..n : f[i] = f[i - 1] \o q[i]
    BY <1>6 DEF BuildsUp
<1> DEFINE U(m) == UNION {A[i] : i \in 1..m}
           G == {m \in 1..n : Lists(f[m], U(m))}
<1>8. 1 \in G
  <2>1. U(1) = A[1] /\ 1 \in 1..n
      OBVIOUS
  <2>2. Lists(f[1], A[1])
      BY <1>7, <2>1
  <2> QED
      BY <2>1, <2>2
<1>9. ASSUME NEW m \in 1..n, m \in G, m < n PROVE m + 1 \in G
  <2>1. m + 1 \in 2..n /\ m + 1 \in 1..n /\ (m + 1) - 1 = m
      BY <1>9
  <2>2. f[m + 1] = f[m] \o q[m + 1]
      BY <1>7, <2>1
  <2>3. U(m + 1) = U(m) \cup A[m + 1]
    <3>1. 1..(m + 1) = (1..m) \cup {m + 1}
        BY <2>1
    <3> QED
        BY <3>1, Zenon
  <2>4. U(m) \cap A[m + 1] = {}
    <3>1. ASSUME NEW x \in U(m) PROVE x \notin A[m + 1]
      <4>1. PICK i \in 1..m : x \in A[i]
          OBVIOUS
      <4>2. i \in 1..n /\ i # m + 1
          BY <2>1
      <4>3. A[i] \cap A[m + 1] = {}
          BY <2>1, <4>2, Zenon
      <4> QED
          BY <4>1, <4>3
    <3> QED
        BY <3>1, Zenon
  <2>5. Lists(f[m], U(m)) /\ Lists(q[m + 1], A[m + 1])
      BY <1>9, <2>1
  <2>6. Lists(f[m] \o q[m + 1], U(m) \cup A[m + 1])
    <3> HIDE DEF U
    <3> QED
        BY <2>4, <2>5, ConcatLists, Zenon
  <2> HIDE DEF U
  <2> QED
      BY <2>1, <2>2, <2>3, <2>6
<1>10. n \in G
  <2> HIDE DEF G
  <2>1. n \in 1..n
      OBVIOUS
  <2> QED
      BY <1>8, <1>9, <2>1, Climb
<1> QED
    BY <1>7, <1>10

\* When m takes each element of the lists q to its counterpart in the lists t, it does so in a row.
Matches(q, t, n, m) == \A i \in 1..n : /\ Len(t[i]) = Len(q[i])
                                       /\ \A j \in 1..Len(q[i]) : t[i][j] = m[q[i][j]]
TakesTo(m, z, c) == Len(c) = Len(z) /\ \A p \in 1..Len(z) : c[p] = m[z[p]]

LEMMA FlattenAlike ==
    ASSUME NEW n \in Nat \ {0}, NEW S, NEW V, NEW q \in Seq(Seq(S)), NEW t \in Seq(Seq(V)),
           Len(q) = n, Len(t) = n, NEW m, Matches(q, t, n, m)
    PROVE  TakesTo(m, FlattenSeq(q), FlattenSeq(t))
<1>1. \A i \in 1..n : Len(t[i]) = Len(q[i]) /\ \A j \in 1..Len(q[i]) : t[i][j] = m[q[i][j]]
    BY DEF Matches
<1>2. PICK f : BuildsUp(f, q, n, S)
    BY FlattenBy
<1>3. /\ f \in [1..n -> Seq(S)] /\ FlattenSeq(q) = f[n] /\ f[1] = q[1]
      /\ \A i \in 2..n : f[i] = f[i - 1] \o q[i]
    BY <1>2 DEF BuildsUp
<1>4. PICK g : BuildsUp(g, t, n, V)
    BY FlattenBy
<1>5. /\ g \in [1..n -> Seq(V)] /\ FlattenSeq(t) = g[n] /\ g[1] = t[1]
      /\ \A i \in 2..n : g[i] = g[i - 1] \o t[i]
    BY <1>4 DEF BuildsUp
<1> DEFINE Same(i) == Len(g[i]) = Len(f[i]) /\ \A p \in 1..Len(f[i]) : g[i][p] = m[f[i][p]]
           G == {i \in 1..n : Same(i)}
<1>6. 1 \in G
  <2>1. 1 \in 1..n
      OBVIOUS
  <2> QED
      BY <1>1, <1>3, <1>5, <2>1
<1>7. ASSUME NEW i \in 1..n, i \in G, i < n PROVE i + 1 \in G
  <2>1. i + 1 \in 2..n /\ i + 1 \in 1..n /\ (i + 1) - 1 = i
      BY <1>7
  <2>2. PICK a, b, c, d : a = f[i] /\ b = q[i + 1] /\ c = g[i] /\ d = t[i + 1]
      OBVIOUS
  <2>3. f[i + 1] = a \o b /\ g[i + 1] = c \o d
      BY <1>3, <1>5, <2>1, <2>2
  <2>4. a \in Seq(S) /\ b \in Seq(S) /\ c \in Seq(V) /\ d \in Seq(V)
      BY <1>3, <1>5, <2>1, <2>2
  <2>5. Len(c) = Len(a) /\ \A p \in 1..Len(a) : c[p] = m[a[p]]
      BY <1>7, <2>2
  <2>6. Len(d) = Len(b) /\ \A p \in 1..Len(b) : d[p] = m[b[p]]
      BY <1>1, <2>1, <2>2
  <2>7. Len(a) \in Nat /\ Len(b) \in Nat
      BY <2>4
  <2>8. /\ a \in Seq(S \cup V) /\ b \in Seq(S \cup V)
         /\ c \in Seq(S \cup V) /\ d \in Seq(S \cup V)
      BY <2>4
  <2>9. /\ Len(a \o b) = Len(a) + Len(b)
        /\ \A p \in 1 .. Len(a) + Len(b) : (a \o b)[p] = IF p <= Len(a) THEN a[p] ELSE b[p - Len(a)]
      BY <2>8, ConcatProperties
  <2>10. /\ Len(c \o d) = Len(c) + Len(d)
        /\ \A p \in 1 .. Len(c) + Len(d) : (c \o d)[p] = IF p <= Len(c) THEN c[p] ELSE d[p - Len(c)]
      BY <2>8, ConcatProperties
  <2>11. Len(c \o d) = Len(a \o b)
      BY <2>5, <2>6, <2>9, <2>10
  <2>12. ASSUME NEW p \in 1..Len(a \o b) PROVE (c \o d)[p] = m[(a \o b)[p]]
    <3>1. p \in 1 .. Len(a) + Len(b) /\ p \in 1 .. Len(c) + Len(d)
        BY <2>5, <2>6, <2>9
    <3>2. CASE p <= Len(a)
      <4>1. p \in 1..Len(a)
          BY <2>7, <3>1, <3>2
      <4>2. (a \o b)[p] = a[p] /\ (c \o d)[p] = c[p]
          BY <2>5, <2>9, <2>10, <3>1, <3>2
      <4> QED
          BY <2>5, <4>1, <4>2
    <3>3. CASE ~(p <= Len(a))
      <4>1. p - Len(a) \in 1..Len(b)
          BY <2>7, <3>1, <3>3
      <4>2. (a \o b)[p] = b[p - Len(a)] /\ (c \o d)[p] = d[p - Len(a)]
          BY <2>5, <2>9, <2>10, <3>1, <3>3
      <4> QED
          BY <2>6, <4>1, <4>2
    <3> QED
        BY <3>2, <3>3
  <2>13. Same(i + 1)
      BY <2>3, <2>11, <2>12
  <2> HIDE DEF Same
  <2> QED
      BY <2>1, <2>13
<1>8. n \in G
  <2> HIDE DEF G
  <2>1. n \in 1..n
      OBVIOUS
  <2> QED
      BY <1>6, <1>7, <2>1, Climb
<1>9. Same(n) /\ n \in 1..n
    BY <1>8
<1> QED
    BY <1>3, <1>5, <1>9 DEF TakesTo

\* A list cut into pieces of one size, in a row.
Cuts(q, o, n, C) == q = [r \in 1..n |-> SubSeq(o, (r - 1) * C + 1, r * C)]

LEMMA FlattenCut ==
    ASSUME NEW n \in Nat \ {0}, NEW C \in Nat, NEW S, NEW o \in Seq(S), Len(o) = n * C,
           NEW q, Cuts(q, o, n, C)
    PROVE  FlattenSeq(q) = o
<1>1. q = [r \in 1..n |-> SubSeq(o, (r - 1) * C + 1, r * C)]
    BY DEF Cuts
<1>2. PICK M : M = [r \in 0..n |-> r * C]
    OBVIOUS
<1>3. /\ M \in [0..n -> Nat] /\ M[0] = 0 /\ M[n] = Len(o)
      /\ \A r \in 1..n : M[r] = M[r - 1] + C
      /\ M[1] = C
  <2>1. \A r \in 0..n : r * C \in Nat
      OBVIOUS
  <2>2. 0 \in 0..n /\ n \in 0..n /\ 0 * C = 0
      OBVIOUS
  <2>3. \A r \in 1..n : r - 1 \in 0..n /\ r \in 0..n /\ r * C = (r - 1) * C + C
      OBVIOUS
  <2>4. 1 \in 0..n /\ 1 * C = C
      OBVIOUS
  <2> QED
      BY <1>2, <2>1, <2>2, <2>3, <2>4
<1>4. \A r \in 1..n : q[r] = SubSeq(o, M[r - 1] + 1, M[r])
    BY <1>1, <1>2
<1>5. \A r \in 0..n : M[r] <= Len(o)
  <2>1. \A r \in 0..n : r * C <= n * C
    <3> TAKE r \in 0..n
    <3>1. PICK a \in Nat : n = r + a
        <4>1. n - r \in Nat /\ n = r + (n - r)
            OBVIOUS
        <4> QED
            BY <4>1
    <3>2. n * C = r * C + a * C
        BY <3>1
    <3>3. r * C \in Nat /\ a * C \in Nat /\ n * C \in Nat
        BY <3>1
    <3> QED
        BY <3>2, <3>3
  <2> QED
      BY <1>2, <2>1
<1>6. \A r \in 1..n : q[r] \in Seq(S)
  <2> TAKE r \in 1..n
  <2>1. r - 1 \in 0..n /\ r \in 0..n
      OBVIOUS
  <2>2. PICK a, b : a = M[r - 1] + 1 /\ b = M[r]
      OBVIOUS
  <2>3. a \in Nat /\ b \in Nat /\ 1 <= a /\ b <= Len(o)
    <3>1. M[r - 1] \in Nat /\ M[r] \in Nat /\ M[r] <= Len(o)
        BY <1>3, <1>5, <2>1
    <3> QED
        BY <2>2, <3>1
  <2>4. SubSeq(o, a, b) \in Seq(S)
      BY <2>3
  <2> QED
      BY <1>4, <2>2, <2>4
<1>7. q \in [1..n -> Seq(S)]
    BY <1>1, <1>6
<1>8. q \in Seq(Seq(S))
    BY <1>7, FunctionIsList
<1>9. Len(q) = n
    BY <1>7, FunctionIsList
<1>10. PICK f : BuildsUp(f, q, n, S)
    BY <1>8, <1>9, FlattenBy
<1>11. /\ f \in [1..n -> Seq(S)] /\ FlattenSeq(q) = f[n] /\ f[1] = q[1]
      /\ \A i \in 2..n : f[i] = f[i - 1] \o q[i]
    BY <1>10 DEF BuildsUp
<1> DEFINE G == {i \in 1..n : f[i] = SubSeq(o, 1, M[i])}
<1>12. 1 \in G
  <2>1. 1 \in 1..n /\ 1 - 1 = 0 /\ 0 + 1 = 1
      OBVIOUS
  <2>2. q[1] = SubSeq(o, M[1 - 1] + 1, M[1])
      BY <1>4, <2>1, Zenon
  <2>3. f[1] = SubSeq(o, 1, M[1])
      BY <1>3, <1>11, <2>1, <2>2
  <2> QED
      BY <2>1, <2>3
<1>13. ASSUME NEW i \in 1..n, i \in G, i < n PROVE i + 1 \in G
  <2>1. i + 1 \in 2..n /\ i + 1 \in 1..n /\ (i + 1) - 1 = i /\ i \in 0..n /\ i + 1 \in 0..n
      BY <1>13
  <2>2. f[i + 1] = SubSeq(o, 1, M[i]) \o SubSeq(o, M[i] + 1, M[i + 1])
      BY <1>4, <1>11, <1>13, <2>1
  <2>3. PICK a, b : a = M[i] /\ b = M[i + 1]
      OBVIOUS
  <2>4. a \in Nat /\ b \in Nat /\ a <= b /\ b <= Len(o)
      BY <1>3, <1>5, <2>1, <2>3
  <2>5. SubSeq(o, 1, a) \o SubSeq(o, a + 1, b) = SubSeq(o, 1, b)
    <3>1. 1 \in 1 .. Len(o) + 1 /\ a \in 1 - 1 .. Len(o) /\ b \in a .. Len(o)
        BY <2>4
    <3> QED
        BY <3>1, ConcatAdjacentSubSeq
  <2> QED
      BY <2>1, <2>2, <2>3, <2>5
<1>14. n \in G
  <2> HIDE DEF G
  <2>1. n \in 1..n
      OBVIOUS
  <2> QED
      BY <1>12, <1>13, <2>1, Climb
<1>15. f[n] = SubSeq(o, 1, Len(o))
    BY <1>3, <1>14
<1> QED
    BY <1>11, <1>15, SubSeqFull

-----------------------------------------------------------------------------
\* Sizes

\* The chunks are equal and not empty.
LEMMA ChunkSizes ==
    /\ Dp \in Nat \ {0} /\ MaxItems \in Nat \ {0} /\ ChunkSize \in Nat \ {0} /\ ChunkSize <= MaxItems
    /\ MaxItems = Dp * ChunkSize /\ MaxLen \in Nat \ {0} /\ MaxTokenLen \in Nat \ {0}
<1>1. Dp \in Nat \ {0} /\ MaxItems \in Nat \ {0} /\ MaxItems % Dp = 0 /\ Dp <= MaxItems
    BY PipelineAssumption, MaxItemsAssumption
<1>2. PICK c : c = MaxItems \div Dp
    OBVIOUS
<1>3. c \in Nat /\ MaxItems = c * Dp + (MaxItems % Dp)
    BY <1>1, <1>2, DivMod
<1>4. MaxItems = c * Dp
    BY <1>1, <1>3
<1>5. c # 0
    BY <1>1, <1>4
<1>6. MaxItems = Dp * c /\ c <= MaxItems
  <2>1. c * Dp = Dp * c
      BY <1>1, <1>3
  <2>2. PICK d \in Nat : Dp = d + 1
    <3>1. Dp - 1 \in Nat /\ Dp = (Dp - 1) + 1
        BY <1>1
    <3> QED
        BY <3>1
  <2>3. c * Dp = c * d + c /\ c * d \in Nat
      BY <1>3, <2>2
  <2> QED
      BY <1>3, <1>4, <2>1, <2>3
<1>7. MaxLen \in Nat \ {0} /\ MaxTokenLen \in Nat \ {0}
    BY PipelineAssumption
<1> QED
    BY <1>1, <1>2, <1>3, <1>5, <1>6, <1>7 DEF ChunkSize

\* A chunk is a list of as many rows as the others (DataProto.chunk).
LEMMA ChunkRows ==
    ASSUME order \in [Rows -> Rows], NEW r \in Ranks
    PROVE  Chunk(r) \in Seq(Rows) /\ Len(Chunk(r)) = ChunkSize
<1>1. PICK c, a, b : c = ChunkSize /\ a = (r - 1) * c /\ b = r * c
    OBVIOUS
<1>2. a \in Nat /\ b = a + c /\ b <= MaxItems /\ c \in Nat
  <2>1. r \in Nat /\ r - 1 \in Nat /\ Dp - r \in Nat /\ c \in Nat
      BY <1>1, ChunkSizes DEF Ranks
  <2>2. (r - 1) * c \in Nat /\ r * c = (r - 1) * c + c
      BY <2>1
  <2>3. PICK d \in Nat : Dp = r + d
    <3>1. Dp = r + (Dp - r)
        BY <2>1, ChunkSizes
    <3> QED
        BY <2>1, <3>1
  <2>4. Dp * c = r * c + d * c /\ d * c \in Nat /\ r * c \in Nat
      BY <2>1, <2>3
  <2>5. MaxItems = Dp * c
      BY <1>1, ChunkSizes
  <2> QED
      BY <1>1, <2>1, <2>2, <2>4, <2>5
<1>3. order \in Seq(Rows) /\ Len(order) = MaxItems
    BY ChunkSizes, FunctionIsList DEF Rows
<1>4. Chunk(r) = SubSeq(order, a + 1, b)
    BY <1>1 DEF Chunk
<1>5. SubSeq(order, a + 1, b) \in Seq(Rows) /\ Len(SubSeq(order, a + 1, b)) = c
    BY <1>2, <1>3
<1> QED
    BY <1>1, <1>4, <1>5

\* The token counts of a chunk.
LEMMA LengthsOfChunk ==
    ASSUME order \in [Rows -> Rows], lengths \in [Rows -> 1..MaxLen], NEW r \in Ranks
    PROVE  ChunkLengths(r) \in [1..ChunkSize -> 1..MaxLen]
<1>1. \A i \in 1..ChunkSize : Chunk(r)[i] \in Rows
  <2>1. Chunk(r) \in Seq(Rows) /\ Len(Chunk(r)) = ChunkSize
      BY ChunkRows
  <2> QED
      BY <2>1
<1> QED
    BY <1>1 DEF ChunkLengths

\* What karmarkar_karp is given: the workload of each row (calculate_workload).
LEMMA LoadsOfLengths ==
    ASSUME NEW n \in Nat, NEW lens \in [1..n -> 1..MaxLen]
    PROVE  Workloads(lens) \in Seq(Nat) /\ Len(Workloads(lens)) = n
<1>1. Len(lens) = n
    BY FunctionIsList
<1>2. \A i \in 1..n : Workload(lens[i]) \in Nat
  <2> TAKE i \in 1..n
  <2>1. PICK a \in Nat : a = lens[i]
      BY ChunkSizes
  <2>2. 24576 * a + a * a \in Nat
      OBVIOUS
  <2> QED
      BY <2>1, <2>2 DEF Workload
<1>3. Workloads(lens) = [i \in 1..n |-> Workload(lens[i])]
    BY <1>1 DEF Workloads
<1>4. Workloads(lens) \in [1..n -> Nat]
    BY <1>2, <1>3
<1> QED
    BY <1>4, FunctionIsList

\* A chunk needs one micro-batch at least, and no more than it has rows.
LEMMA LocalCounts ==
    ASSUME order \in [Rows -> Rows], lengths \in [Rows -> 1..MaxLen], NEW r \in Ranks
    PROVE  LocalCount(r) \in 1..ChunkSize
<1>1. PICK q : q = ChunkLengths(r)
    OBVIOUS
<1>2. q \in [1..ChunkSize -> 1..MaxLen] /\ ChunkSize \in Nat \ {0}
    BY <1>1, LengthsOfChunk, ChunkSizes
<1>3. Total(q) = SumOver(q, 1..ChunkSize)
  <2>1. DOMAIN q = 1..ChunkSize
      BY <1>2
  <2>2. Total(q) = SumOver(q, DOMAIN q)
      BY DEF Total, FoldSeq, FoldFunction, SumOver
  <2> QED
      BY <2>1, <2>2
<1>4. /\ IsFiniteSet(1..ChunkSize) /\ IsFiniteSet((1..ChunkSize) \ {1})
      /\ \A i \in 1..ChunkSize : q[i] \in Nat /\ q[i] >= 1
  <2>1. IsFiniteSet(1..ChunkSize)
      BY <1>2, FS_Interval
  <2>2. IsFiniteSet((1..ChunkSize) \ {1})
      BY <2>1, FS_Subset
  <2>3. \A i \in 1..ChunkSize : q[i] \in Nat /\ q[i] >= 1
      BY <1>2, ChunkSizes
  <2> QED
      BY <2>1, <2>2, <2>3
<1>5. SumOver(q, 1..ChunkSize) = q[1] + SumOver(q, (1..ChunkSize) \ {1})
  <2>1. PICK T : T = 1..ChunkSize
      OBVIOUS
  <2>2. IsFiniteSet(T) /\ (\A i \in T : q[i] \in Nat) /\ 1 \in T
      BY <1>2, <1>4, <2>1
  <2>3. SumOver(q, T) = q[1] + SumOver(q, T \ {1})
      BY <2>2, SumTakeOut
  <2> QED
      BY <2>1, <2>3
<1>6. SumOver(q, (1..ChunkSize) \ {1}) \in Nat
    BY <1>4, SumPick
<1>7. PICK t \in Nat : t = Total(q) /\ t >= 1
    BY <1>2, <1>3, <1>4, <1>5, <1>6
<1>8. CeilDiv(t, MaxTokenLen) \in Nat /\ CeilDiv(t, MaxTokenLen) >= 1
  <2>1. PICK m \in Nat \ {0} : m = MaxTokenLen
      BY ChunkSizes
  <2>2. PICK a \in Nat : a = t + m - 1 /\ a >= m
      BY <1>7, <2>1
  <2>3. a \div m \in Nat /\ a % m \in 0..(m - 1) /\ a = (a \div m) * m + (a % m)
      BY <2>1, <2>2, DivMod
  <2>4. a \div m # 0
      BY <2>1, <2>2, <2>3
  <2> QED
      BY <2>1, <2>2, <2>3, <2>4 DEF CeilDiv
<1>9. LocalCount(r) = IF CeilDiv(t, MaxTokenLen) < ChunkSize THEN CeilDiv(t, MaxTokenLen) ELSE ChunkSize
    BY <1>1, <1>7 DEF LocalCount
<1> QED
    BY <1>2, <1>8, <1>9

\* The number the ranks agree on is one a rank asked for.
LEMMA AgreedCounts ==
    ASSUME NEW local, \A r \in Ranks : local[r] \in 1..ChunkSize, NEW rk
    PROVE  Agreed(local, rk) \in 1..ChunkSize
<1>1. PICK T : T = {ChunkSize - local[r] : r \in Ranks}
    OBVIOUS
<1>2. \A r \in Ranks : local[r] \in Nat /\ local[r] <= ChunkSize
    BY ChunkSizes
<1>3. T \subseteq Nat
    BY <1>1, <1>2, ChunkSizes
<1>4. 1 \in Ranks
    BY ChunkSizes DEF Ranks
<1>5. T # {}
    BY <1>1, <1>4
<1>6. PICK n \in T : \A m \in T : n <= m
    BY <1>3, <1>5, LeastNumber
<1>7. PICK r \in Ranks : n = ChunkSize - local[r]
    BY <1>1, <1>6
<1>8. \A s \in Ranks : local[s] <= local[r]
  <2> TAKE s \in Ranks
  <2>1. ChunkSize - local[r] <= ChunkSize - local[s]
      BY <1>1, <1>6, <1>7
  <2> QED
      BY <1>2, <2>1, ChunkSizes
<1>9. AllReduceMax(local) \in {local[s] : s \in Ranks}
  <2>1. \E x \in {local[s] : s \in Ranks} : \A s \in Ranks : local[s] <= x
      BY <1>8
  <2> QED
      BY <2>1, Zenon DEF AllReduceMax
<1> QED
    BY <1>9 DEF Agreed

-----------------------------------------------------------------------------
\* The two reorderings

\* Each partition's rows stay in it.
LEMMA EndsLightLists ==
    ASSUME KKTypeOK, NEW items \in SUBSET Items
    PROVE  Lists(EndsLight(items), items)
<1>1. Len(weight) \in Nat /\ \A x \in Items : weight[x] \in Nat /\ x \in Nat
    BY DEF KKTypeOK, Items
<1>2. IsFiniteSet(items)
  <2>1. IsFiniteSet(Items)
      BY <1>1, FS_Interval DEF Items
  <2> QED
      BY <2>1, FS_Subset
<1>3. PICK ahead : ahead = LightAhead(items)
    OBVIOUS
<1>4. \A x \in items : ahead[x] = {y \in items : weight[y] < weight[x] \/ (weight[y] = weight[x] /\ y < x)}
    BY <1>3 DEF LightAhead
<1>5. \A x \in items : weight[x] \in Nat /\ x \in Nat
    BY <1>1
<1>6. Orders(items, ahead)
  <2>1. \A x \in items : ahead[x] \in SUBSET items /\ x \notin ahead[x]
      BY <1>4, <1>5
  <2>2. \A x, y \in items : x # y => x \in ahead[y] \/ y \in ahead[x]
      BY <1>4, <1>5
  <2>3. \A x, y \in items : x \in ahead[y] => ahead[x] \subseteq ahead[y]
      BY <1>4, <1>5
  <2> QED
      BY <2>1, <2>2, <2>3 DEF Orders
<1>7. PICK p : p = SortBy(items, ahead)
    OBVIOUS
<1>8. Lists(p, items)
    BY <1>2, <1>6, <1>7, SortLists
<1>9. PICK B, C : B \cap C = {} /\ B \cup C = items /\ Lists(Evens(p), B) /\ Lists(Odds(p), C)
    BY <1>8, DealLists
<1>10. Lists(Evens(p) \o Reverse(Odds(p)), items)
    BY <1>9, ReverseLists, ConcatLists
<1> QED
    BY <1>3, <1>7, <1>10 DEF EndsLight

\* The items of a State's sets: each is in one of them.
LEMMA SetsOfState ==
    ASSUME KKInv, NEW s, heap = {s}
    PROVE  /\ \A i \in 1..k : s[i].items \in SUBSET Items
           /\ \A i, j \in 1..k : i # j => s[i].items \cap s[j].items = {}
           /\ UNION {s[i].items : i \in 1..k} = Items
<1>1. s \in heap /\ s \in StateType
    BY DEF KKInv, KKTypeOK
<1>2. \A i \in 1..k : s[i].items \in SUBSET Items
    BY <1>1 DEF StateType
<1>3. \A i, j \in 1..k : i # j => s[i].items \cap s[j].items = {}
    BY <1>1 DEF KKInv, EachItemOnce
<1>4. \A x \in Items : \E i \in 1..k : x \in s[i].items
    BY DEF KKInv, EachItemOnce
<1> QED
    BY <1>2, <1>3, <1>4

\* The partitions in a row, as _balance_batch reorders the batch: each item once.
LEMMA ReorderLists ==
    ASSUME KKInv, NEW s, heap = {s}
    PROVE  Lists(FlattenSeq([i \in 1..k |-> EndsLight(s[i].items)]), Items)
<1>1. PICK q, A : q = [i \in 1..k |-> EndsLight(s[i].items)] /\ A = [i \in 1..k |-> s[i].items]
    OBVIOUS
<1>2. k \in Nat \ {0} /\ KKTypeOK
    BY DEF KKInv, KKTypeOK
<1>3. \A i \in 1..k : Lists(q[i], A[i])
  <2> TAKE i \in 1..k
  <2>1. s[i].items \in SUBSET Items
      BY SetsOfState
  <2>2. Lists(EndsLight(s[i].items), s[i].items)
      BY <1>2, <2>1, EndsLightLists
  <2> QED
      BY <1>1, <2>2
<1>4. \A i, j \in 1..k : i # j => A[i] \cap A[j] = {}
    BY <1>1, SetsOfState
<1>5. UNION {A[i] : i \in 1..k} = Items
  <2>1. {A[i] : i \in 1..k} = {s[i].items : i \in 1..k}
      BY <1>1
  <2> QED
      BY <2>1, SetsOfState
<1>6. q = [i \in 1..k |-> q[i]]
    BY <1>1
<1>7. Lists(FlattenSeq(q), UNION {A[i] : i \in 1..k})
    BY <1>2, <1>3, <1>4, <1>6, FlattenLists
<1> QED
    BY <1>1, <1>5, <1>7

\* sorted(list(partition)) keeps the partition.
LEMMA AscendingLists ==
    ASSUME NEW items \in SUBSET Nat, IsFiniteSet(items)
    PROVE  Lists(Ascending(items), items)
<1>1. PICK ahead : ahead = [x \in items |-> {y \in items : y < x}]
    OBVIOUS
<1>2. Orders(items, ahead)
  <2>1. \A x \in items : ahead[x] = {y \in items : y < x} /\ x \in Nat
      BY <1>1
  <2>2. \A x \in items : ahead[x] \in SUBSET items /\ x \notin ahead[x]
      BY <2>1
  <2>3. \A x, y \in items : x # y => x \in ahead[y] \/ y \in ahead[x]
      BY <2>1
  <2>4. ASSUME NEW x \in items, NEW y \in items, x \in ahead[y], NEW z \in ahead[x] PROVE z \in ahead[y]
    <3>1. z \in items /\ z < x /\ x < y /\ z \in Nat /\ x \in Nat /\ y \in Nat
        BY <2>1, <2>4
    <3>2. z < y
        BY <3>1
    <3> QED
        BY <2>1, <3>1, <3>2
  <2> QED
      BY <2>2, <2>3, <2>4 DEF Orders
<1> QED
    BY <1>1, <1>2, SortLists DEF Ascending

\* The load of a partition is a number.
LEMMA LoadTypes ==
    ASSUME KKTypeOK, NEW items \in SUBSET Items
    PROVE  Load(items) \in Nat
<1>1. IsFiniteSet(items) /\ \A x \in items : weight[x] \in Nat
  <2>1. Len(weight) \in Nat /\ \A x \in Items : weight[x] \in Nat
      BY DEF KKTypeOK, Items
  <2>2. IsFiniteSet(Items)
      BY <2>1, FS_Interval DEF Items
  <2> QED
      BY <2>1, <2>2, FS_Subset
<1> QED
    BY <1>1, SumPick DEF Load, SumOver

\* q cuts up 1..n: the lists in a row list the numbers, and there is one at least.
CutsUp(q, n) == /\ q \in Seq(Seq(1..n)) /\ Len(q) \in Nat \ {0}
                /\ Lists(FlattenSeq(q), 1..n)

\* The micro-batches, in whatever order of load, have each row of the chunk once (rearrange_micro_batches).
LEMMA MicroLists ==
    ASSUME KKInv, NEW s, heap = {s}
    PROVE  CutsUp(MicroBatches(s), Len(weight))
<1>1. k \in Nat \ {0} /\ KKTypeOK /\ Len(weight) \in Nat /\ Items = 1..Len(weight) /\ IsFiniteSet(Items)
    BY FS_Interval DEF KKInv, KKTypeOK, Items
<1>2. PICK asc, load : /\ asc = [i \in 1..k |-> Ascending(s[i].items)]
                       /\ load = [i \in 1..k |-> Load(s[i].items)]
    OBVIOUS
<1>3. PICK A : A = [i \in 1..k |-> s[i].items]
    OBVIOUS
<1>4. \A i \in 1..k : A[i] \in SUBSET Items /\ IsFiniteSet(A[i]) /\ A[i] # {}
  <2>1. Partitioned
      BY FS_Singleton DEF Partitioned
  <2>2. \A i \in 1..k : s[i].items # {}
      BY <2>1, NoneIsEmpty DEF NoneEmpty
  <2>3. \A i \in 1..k : s[i].items \in SUBSET Items
      BY SetsOfState
  <2>4. \A i \in 1..k : IsFiniteSet(s[i].items)
      BY <1>1, <2>3, FS_Subset
  <2> QED
      BY <1>3, <2>2, <2>3, <2>4
<1>5. \A i, j \in 1..k : i # j => A[i] \cap A[j] = {}
    BY <1>3, SetsOfState
<1>6. \A i \in 1..k : Lists(asc[i], A[i])
  <2> TAKE i \in 1..k
  <2>1. A[i] \in SUBSET Nat /\ IsFiniteSet(A[i])
      BY <1>1, <1>4
  <2>2. Lists(Ascending(A[i]), A[i])
      BY <2>1, AscendingLists
  <2> QED
      BY <1>2, <1>3, <2>2
<1>7. \A i \in 1..k : load[i] \in Nat /\ asc[i][1] \in Nat /\ asc[i][1] \in A[i]
  <2> TAKE i \in 1..k
  <2>1. load[i] \in Nat
    <3>1. s[i].items \in SUBSET Items
        BY SetsOfState
    <3>2. Load(s[i].items) \in Nat
        BY <1>1, <3>1, LoadTypes
    <3> QED
        BY <1>2, <3>2
  <2>2. asc[i] \in Seq(A[i]) /\ Len(asc[i]) # 0
      BY <1>4, <1>6 DEF Lists
  <2>3. asc[i][1] \in A[i]
      BY <2>2
  <2> QED
      BY <1>1, <1>4, <2>1, <2>3
<1>8. \A i, j \in 1..k : asc[i][1] = asc[j][1] => i = j
    BY <1>5, <1>7
<1>9. PICK ahead : ahead = HeavyAhead(s)
    OBVIOUS
<1>10. ahead = [i \in 1..k |-> {j \in 1..k : \/ load[j] > load[i]
                                             \/ load[j] = load[i] /\ asc[j][1] > asc[i][1]}]
    BY <1>2, <1>9 DEF HeavyAhead
<1>11. Orders(1..k, ahead)
  <2>1. \A i, j \in 1..k : j \in ahead[i] <=> load[j] > load[i] \/ (load[j] = load[i] /\ asc[j][1] > asc[i][1])
      BY <1>10
  <2>2. \A i \in 1..k : ahead[i] \in SUBSET (1..k) /\ i \notin ahead[i]
      BY <1>7, <1>10
  <2>3. \A i, j \in 1..k : i # j => i \in ahead[j] \/ j \in ahead[i]
    <3> TAKE i, j \in 1..k
    <3>1. load[i] \in Nat /\ load[j] \in Nat /\ asc[i][1] \in Nat /\ asc[j][1] \in Nat
        BY <1>7
    <3>2. i # j => asc[i][1] # asc[j][1]
        BY <1>8
    <3> QED
        BY <2>1, <3>1, <3>2
  <2>4. ASSUME NEW i \in 1..k, NEW j \in 1..k, i \in ahead[j], NEW h \in ahead[i] PROVE h \in ahead[j]
    <3>1. h \in 1..k
        BY <2>2, <2>4
    <3>2. /\ load[i] \in Nat /\ load[j] \in Nat /\ load[h] \in Nat
          /\ asc[i][1] \in Nat /\ asc[j][1] \in Nat /\ asc[h][1] \in Nat
        BY <1>7, <3>1
    <3>3. load[i] > load[j] \/ (load[i] = load[j] /\ asc[i][1] > asc[j][1])
        BY <2>1, <2>4
    <3>4. load[h] > load[i] \/ (load[h] = load[i] /\ asc[h][1] > asc[i][1])
        BY <2>1, <2>4, <3>1
    <3>5. load[h] > load[j] \/ (load[h] = load[j] /\ asc[h][1] > asc[j][1])
        BY <3>2, <3>3, <3>4
    <3> QED
        BY <2>1, <3>1, <3>5
  <2> QED
      BY <2>2, <2>3, <2>4 DEF Orders
<1>12. PICK p : p = SortBy(1..k, ahead)
    OBVIOUS
<1>13. Lists(p, 1..k)
    BY <1>1, <1>11, <1>12, SortLists, FS_Interval
<1>14. PICK B, C : B \cap C = {} /\ B \cup C = 1..k /\ Lists(Evens(p), B) /\ Lists(Odds(p), C)
    BY <1>13, DealLists
<1>15. PICK front : front = Reverse(Evens(p)) \o Odds(p)
    OBVIOUS
<1>16. Lists(front, 1..k)
  <2>1. Lists(Reverse(Evens(p)), B)
      BY <1>14, ReverseLists
  <2>2. Lists(front, B \cup C)
      BY <1>14, <1>15, <2>1, ConcatLists
  <2> QED
      BY <1>14, <2>2
<1>17. Len(front) = k
  <2>1. Len(front) = Cardinality(1..k)
      BY <1>16, ListLength
  <2>2. Cardinality(1..k) = k
      BY <1>1, Interval
  <2> QED
      BY <2>1, <2>2
<1>18. /\ \A n \in 1..k : front[n] \in 1..k
       /\ \A m, n \in 1..k : front[m] = front[n] => m = n
       /\ \A i \in 1..k : \E n \in 1..k : front[n] = i
    BY <1>16, <1>17 DEF Lists
<1>19. PICK q : q = MicroBatches(s)
    OBVIOUS
<1>20. q = [n \in 1..k |-> Ascending(s[front[n]].items)]
    BY <1>9, <1>12, <1>15, <1>19 DEF MicroBatches
<1>21. PICK F : F = [n \in 1..k |-> A[front[n]]]
    OBVIOUS
<1>22. \A n \in 1..k : Lists(q[n], F[n]) /\ F[n] \in SUBSET Items
  <2> TAKE n \in 1..k
  <2>1. q[n] = asc[front[n]] /\ F[n] = A[front[n]]
      BY <1>2, <1>18, <1>20, <1>21
  <2> QED
      BY <1>4, <1>6, <1>18, <2>1
<1>23. \A m, n \in 1..k : m # n => F[m] \cap F[n] = {}
    BY <1>5, <1>18, <1>21, ZenonT(20)
<1>24. UNION {F[n] : n \in 1..k} = Items
  <2>1. \A x \in Items : \E n \in 1..k : x \in F[n]
    <3> TAKE x \in Items
    <3>1. PICK i \in 1..k : x \in A[i]
        BY <1>3, SetsOfState
    <3>2. PICK n \in 1..k : front[n] = i
        BY <1>18
    <3> QED
        BY <1>21, <3>1, <3>2
  <2> QED
      BY <1>22, <2>1
<1>25. q = [n \in 1..k |-> q[n]]
    BY <1>20
<1>26. Lists(FlattenSeq(q), UNION {F[n] : n \in 1..k})
    BY <1>1, <1>22, <1>23, <1>25, FlattenLists
<1>27. \A n \in 1..k : q[n] \in Seq(Items)
  <2> TAKE n \in 1..k
  <2>1. q[n] \in Seq(F[n]) /\ F[n] \in SUBSET Items
      BY <1>22 DEF Lists
  <2> QED
      BY <2>1
<1>28. q \in [1..k -> Seq(Items)]
    BY <1>25, <1>27
<1>29. q \in Seq(Seq(Items)) /\ Len(q) = k
    BY <1>1, <1>28, FunctionIsList
<1> QED
    BY <1>1, <1>19, <1>24, <1>26, <1>29 DEF CutsUp

-----------------------------------------------------------------------------
\* The invariant

Counted == {"counted", "splitting", "computing", "collected"}
PipelineTypes ==
    /\ lengths \in [Rows -> 1..MaxLen] /\ balance \in BOOLEAN
    /\ stage \in {"received", "balancing", "dispatched"} \cup Counted
    /\ rank \in Ranks /\ (stage \notin Counted => rank = 1)
    /\ counts \in [Ranks -> 0..ChunkSize]
    /\ order \in [Rows -> Rows] /\ IsInjective(order)
    /\ stage \in Counted => \A r \in Ranks : counts[r] \in 1..ChunkSize

\* The list that is partitioned is that of all rows, or of one chunk.
JobLength ==
    /\ stage = "balancing" => Len(weight) = MaxItems
    /\ stage = "splitting" => Len(weight) = ChunkSize

\* The ranks that have their micro-batches, and what they have computed.
IsSplit(r) == (stage \in {"counted", "splitting"} /\ r < rank) \/ stage \in {"computing", "collected"}
MicroSound == /\ DOMAIN micro = Ranks
              /\ \A r \in Ranks : IsSplit(r) => CutsUp(micro[r], ChunkSize)
OutputsSound ==
    /\ DOMAIN outputs = Ranks
    /\ stage \notin {"computing", "collected"} => \A r \in Ranks : outputs[r] = <<>>
    /\ stage \in {"computing", "collected"} => \A r \in Ranks :
          /\ outputs[r] \in Seq(Seq(Rows)) /\ Len(outputs[r]) <= Len(micro[r])
          /\ \A j \in 1..Len(outputs[r]) : outputs[r][j] = RowsOf(r, micro[r][j])

PipelineInv == /\ PipelineTypes /\ KKInv /\ SumsAreTrue /\ JobLength /\ MicroSound /\ OutputsSound
               /\ RowsMeetTheirOutputs

\* The invariant holds of a batch that has just arrived.
LEMMA PipelineInitial == ASSUME PipelineInit PROVE PipelineInv
<1>1. /\ lengths \in [Rows -> 1..MaxLen] /\ balance \in BOOLEAN
      /\ order = [i \in Rows |-> i] /\ stage = "received" /\ rank = 1
      /\ counts = [r \in Ranks |-> 0]
      /\ micro = [r \in Ranks |-> <<>>] /\ outputs = [r \in Ranks |-> <<>>]
      /\ heap = {}
    BY DEF PipelineInit, KKInit
<1>2. KKInv
    BY KKInitial DEF PipelineInit
<1>3. rank \in Ranks /\ 0 \in 0..ChunkSize
    BY <1>1, ChunkSizes DEF Ranks
<1>4. order \in [Rows -> Rows] /\ IsInjective(order)
    BY <1>1 DEF IsInjective
<1>5. PipelineTypes
    BY <1>1, <1>3, <1>4 DEF PipelineTypes, Counted
<1>6. SumsAreTrue /\ JobLength /\ RowsMeetTheirOutputs
    BY <1>1 DEF SumsAreTrue, JobLength, RowsMeetTheirOutputs
<1>7. MicroSound
    BY <1>1 DEF MicroSound, IsSplit
<1>8. OutputsSound
    BY <1>1 DEF OutputsSound
<1> QED
    BY <1>2, <1>5, <1>6, <1>7, <1>8 DEF PipelineInv

\* The load after a step is the sum over the weights there are then.
LEMMA LoadNext == ASSUME NEW T PROVE Load(T)' = SumOver(weight', T)
BY Zenon DEF Load, SumOver, FoldFunctionOnSet, MapThenFoldSet

\* What SumsAreTrue says of the library's sum, now and after a step.
LEMMA SumsNow == SumsAreTrue <=> \A s \in heap : \A i \in 1..k : s[i].sum = SumOver(weight, s[i].items)
BY Zenon DEF SumsAreTrue, Load, SumOver

LEMMA SumsNext == SumsAreTrue' <=> \A s \in heap' : \A i \in 1..k' : s[i].sum = SumOver(weight', s[i].items)
BY LoadNext DEF SumsAreTrue

\* A job made of single rows.
LEMMA StartSums ==
    ASSUME NEW w, NEW n, NEW e, IsJob(w, n, e), StartJob(w, n, e)
    PROVE  SumsAreTrue'
<1>1. w \in Seq(Nat) /\ Len(w) \in Nat /\ n \in Nat \ {0} /\ n <= Len(w) /\ (e => Len(w) % n = 0) /\ e \in BOOLEAN
    BY DEF IsJob
<1>2. weight' = w /\ k' = n /\ heap' = IF e THEN Groups(w, n) ELSE States(w, n)
    BY DEF StartJob
<1>3. \A x \in 1..Len(w) : SumOver(w, {x}) = w[x]
  <2> TAKE x \in 1..Len(w)
  <2>1. w[x] \in Nat
      BY <1>1
  <2> QED
      BY <2>1, SumOne
<1>4. SumOver(w, {}) = 0
    BY SumEmpty
<1>5. ASSUME NEW s \in heap', NEW i \in 1..n
      PROVE  (\E x \in 1..Len(w) : s[i] = Single(w, x)) \/ s[i] = Empty
  <2>1. CASE e
    <3>1. PICK g \in 1 .. Len(w) \div n : s = [j \in 1..n |-> Single(w, At(w, g * n + 1 - j))]
        BY <1>2, <1>5, <2>1 DEF Groups
    <3>2. PICK c : c = Len(w) \div n
        OBVIOUS
    <3>3. PICK P : c \in Nat /\ RowPositions(P, Len(w), n, c)
        BY <1>1, <2>1, <3>2, Positions
    <3>4. g * n + 1 - i \in 1..Len(w)
        BY <1>5, <3>1, <3>2, <3>3 DEF RowPositions
    <3>5. At(w, g * n + 1 - i) \in 1..Len(w)
        BY <1>1, <3>4, Sorted
    <3> QED
        BY <1>5, <3>1, <3>5
  <2>2. CASE ~e
    <3>1. PICK x \in 1..Len(w) : s = [j \in 1..n |-> IF j = 1 THEN Single(w, x) ELSE Empty]
        BY <1>2, <1>5, <2>2 DEF States
    <3> QED
        BY <1>5, <3>1
  <2> QED
      BY <1>1, <2>1, <2>2
<1>6. \A s \in heap' : \A i \in 1..n : s[i].sum = SumOver(w, s[i].items)
  <2> TAKE s \in heap'
  <2> TAKE i \in 1..n
  <2>1. ASSUME NEW x \in 1..Len(w), s[i] = Single(w, x) PROVE s[i].sum = SumOver(w, s[i].items)
    <3>1. s[i].sum = w[x] /\ s[i].items = {x}
        BY <2>1 DEF Single
    <3> QED
        BY <1>3, <2>1, <3>1
  <2>2. CASE s[i] = Empty
    <3>1. s[i].sum = 0 /\ s[i].items = {}
        BY <2>2 DEF Empty
    <3> QED
        BY <1>4, <3>1
  <2> QED
      BY <1>5, <2>1, <2>2
<1> QED
    BY <1>2, <1>6, SumsNext

\* Set.merge adds the sums of sets that share nothing.
LEMMA MergeSums ==
    ASSUME KKInv, SumsAreTrue, Merge
    PROVE  SumsAreTrue'
<1>1. PICK s, t, m, o, r : IsMerge(s, t, m, o, r)
    BY MergeIsMerge DEF KKInv
<1>2. /\ s \in heap /\ t \in heap /\ s # t /\ heap' = (heap \ {s, t}) \cup {m}
      /\ \A i \in 1..k : o[i] \in 1..k /\ r[i] \in 1..k
      /\ \A i \in 1..k : m[i].sum = s[o[i]].sum + t[r[i]].sum
      /\ \A i \in 1..k : m[i].items = s[o[i]].items \cup t[r[i]].items
      /\ weight' = weight /\ k' = k
    BY <1>1 DEF IsMerge
<1>3. ASSUME NEW i \in 1..k PROVE m[i].sum = SumOver(weight, m[i].items)
  <2>1. PICK A, B : A = s[o[i]].items /\ B = t[r[i]].items
      OBVIOUS
  <2>2. o[i] \in 1..k /\ r[i] \in 1..k
      BY <1>2, <1>3
  <2>3. s[o[i]].sum = SumOver(weight, A) /\ t[r[i]].sum = SumOver(weight, B)
      BY <1>2, <2>1, <2>2, SumsNow
  <2>4. IsFiniteSet(A) /\ IsFiniteSet(B) /\ A \in SUBSET Items /\ B \in SUBSET Items
      BY <1>2, <2>1, <2>2, Descending
  <2>5. A \cap B = {}
      BY <1>2, <2>1, <2>2 DEF KKInv, EachItemOnce
  <2>6. \A x \in A \cup B : weight[x] \in Nat
      BY <2>4 DEF KKInv, KKTypeOK, Items
  <2>7. SumOver(weight, A \cup B) = SumOver(weight, A) + SumOver(weight, B)
      BY <2>4, <2>5, <2>6, SumUnion
  <2> QED
      BY <1>2, <2>1, <2>3, <2>7
<1>4. \A u \in heap : \A i \in 1..k : u[i].sum = SumOver(weight, u[i].items)
    BY SumsNow
<1>5. \A u \in heap' : \A i \in 1..k : u[i].sum = SumOver(weight, u[i].items)
    BY <1>2, <1>3, <1>4
<1> QED
    BY <1>2, <1>5, SumsNext

\* The jobs of the two callers.
LEMMA BalanceIsStart ==
    ASSUME PipelineInv, Balance
    PROVE  /\ IsJob(Workloads(lengths), Dp, TRUE) /\ StartJob(Workloads(lengths), Dp, TRUE)
           /\ Len(Workloads(lengths)) = MaxItems
<1>1. lengths \in [1..MaxItems -> 1..MaxLen] /\ MaxItems \in Nat
    BY ChunkSizes DEF PipelineInv, PipelineTypes, Rows
<1>2. Workloads(lengths) \in Seq(Nat) /\ Len(Workloads(lengths)) = MaxItems
    BY <1>1, LoadsOfLengths
<1>3. MaxItems \in 1..MaxItems /\ Dp \in 1..MaxItems /\ MaxItems % Dp = 0
    BY ChunkSizes, PipelineAssumption
<1>4. IsJob(Workloads(lengths), Dp, TRUE)
    BY <1>2, <1>3 DEF IsJob
<1> QED
    BY <1>2, <1>4 DEF Balance

\* A rank asks for no more micro-batches than it has rows.
LEMMA SplitIsStart ==
    ASSUME PipelineInv, Split
    PROVE  LET w == Workloads(ChunkLengths(rank))
           IN  /\ IsJob(w, counts[rank], FALSE) /\ StartJob(w, counts[rank], FALSE)
               /\ Len(w) = ChunkSize
<1>1. PICK w : w = Workloads(ChunkLengths(rank))
    OBVIOUS
<1>2. rank \in Ranks /\ counts[rank] \in 1..ChunkSize
    BY DEF PipelineInv, PipelineTypes, Split, Counted
<1>3. ChunkLengths(rank) \in [1..ChunkSize -> 1..MaxLen] /\ ChunkSize \in Nat
    BY <1>2, LengthsOfChunk, ChunkSizes DEF PipelineInv, PipelineTypes
<1>4. w \in Seq(Nat) /\ Len(w) = ChunkSize
    BY <1>1, <1>3, LoadsOfLengths
<1>5. ChunkSize \in 1..MaxItems
    BY ChunkSizes
<1>6. IsJob(w, counts[rank], FALSE)
    BY <1>2, <1>4, <1>5 DEF IsJob
<1> QED
    BY <1>1, <1>4, <1>6 DEF Split

\* What the pipeline does to its jobs is what karmarkar_karp's specification allows.
LEMMA PipelineStepIsJobStep ==
    ASSUME PipelineInv, [PipelineNext]_pipelineVars
    PROVE  [KKNext]_jobVars
<1>1. ASSUME NEW w, NEW n, NEW e, IsJob(w, n, e), StartJob(w, n, e) PROVE KKNext
  <2>1. w = weight' /\ n = k' /\ e = equal'
      BY <1>1 DEF StartJob
  <2> QED
      BY <1>1, <2>1 DEF KKNext, Start
<1>2. CASE Balance
    BY <1>1, <1>2, BalanceIsStart
<1>3. CASE Split
    BY <1>1, <1>3, SplitIsStart
<1>4. CASE Partition
    BY <1>4 DEF Partition, KKNext
<1>5. CASE LeaveAsIs \/ Reorder \/ Count \/ SplitDone \/ Forward \/ Collect \/ UNCHANGED pipelineVars
    BY <1>5 DEF LeaveAsIs, Reorder, Count, SplitDone, Forward, Collect, pipelineVars
<1> QED
    BY <1>2, <1>3, <1>4, <1>5 DEF PipelineNext

-----------------------------------------------------------------------------
\* The steps

\* A list of all rows is an order of the batch.
LEMMA ListIsOrder ==
    ASSUME NEW o, Lists(o, Rows)
    PROVE  o \in [Rows -> Rows] /\ IsInjective(o)
<1>1. o \in Seq(Rows) /\ \A a, b \in 1..Len(o) : o[a] = o[b] => a = b
    BY DEF Lists
<1>2. Len(o) = Cardinality(1..MaxItems)
    BY ListLength DEF Rows
<1>3. Cardinality(1..MaxItems) = MaxItems
    BY Interval, ChunkSizes
<1>4. Len(o) = MaxItems
    BY <1>2, <1>3
<1>5. o \in [Rows -> Rows]
    BY <1>1, <1>4 DEF Rows
<1>6. DOMAIN o = 1..Len(o)
    BY <1>1
<1> QED
    BY <1>1, <1>5, <1>6 DEF IsInjective

\* The reordered batch is an order of the rows.
LEMMA ReorderTypes ==
    ASSUME PipelineInv, Reorder
    PROVE  order' \in [Rows -> Rows] /\ IsInjective(order')
<1>1. PICK s \in heap : order' = FlattenSeq([i \in 1..k |-> EndsLight(s[i].items)])
    BY DEF Reorder
<1>2. heap = {s}
  <2>1. PICK t \in heap : heap = {t}
      BY TheState DEF PipelineInv, Reorder
  <2> QED
      BY <1>1, <2>1
<1>3. Lists(order', Items)
    BY <1>1, <1>2, ReorderLists DEF PipelineInv
<1>4. Items = Rows
    BY DEF PipelineInv, JobLength, Reorder, Items, Rows
<1> QED
    BY <1>3, <1>4, ListIsOrder

\* After the all-reduce each rank has a number of micro-batches it can fill.
LEMMA CountTypes ==
    ASSUME PipelineInv, Count
    PROVE  counts' \in [Ranks -> 0..ChunkSize] /\ \A r \in Ranks : counts'[r] \in 1..ChunkSize
<1>1. PICK local : local = [r \in Ranks |-> LocalCount(r)]
    OBVIOUS
<1>2. \A r \in Ranks : local[r] \in 1..ChunkSize
    BY <1>1, LocalCounts DEF PipelineInv, PipelineTypes
<1>3. counts' = [r \in Ranks |-> Agreed(local, r)]
    BY <1>1 DEF Count
<1>4. \A r \in Ranks : Agreed(local, r) \in 1..ChunkSize
    BY <1>2, AgreedCounts
<1>5. \A r \in Ranks : counts'[r] \in 1..ChunkSize
    BY <1>3, <1>4
<1>6. 1..ChunkSize \subseteq 0..ChunkSize
    BY ChunkSizes
<1> QED
    BY <1>3, <1>5, <1>6

\* A step keeps the types.
LEMMA TypesStep ==
    ASSUME PipelineInv, [PipelineNext]_pipelineVars
    PROVE  PipelineTypes'
<1> USE DEF PipelineInv, PipelineTypes
<1>1. CASE Balance
    BY <1>1 DEF Balance, batchVars, Rows, Ranks, ChunkSize, Counted
<1>2. CASE LeaveAsIs
    BY <1>2 DEF LeaveAsIs, batchVars, Rows, Ranks, ChunkSize, Counted
<1>3. CASE Reorder
  <2>1. order' \in [Rows -> Rows] /\ IsInjective(order')
      BY <1>3, ReorderTypes
  <2> QED
      BY <1>3, <2>1 DEF Reorder, batchVars, Rows, Ranks, ChunkSize, Counted
<1>4. CASE Count
  <2>1. counts' \in [Ranks -> 0..ChunkSize] /\ \A r \in Ranks : counts'[r] \in 1..ChunkSize
      BY <1>4, CountTypes
  <2> QED
      BY <1>4, <2>1 DEF Count, batchVars, Rows, Ranks, ChunkSize, Counted
<1>5. CASE Split
    BY <1>5 DEF Split, batchVars, Rows, Ranks, ChunkSize, Counted
<1>6. CASE SplitDone
  <2>1. rank' \in Ranks
      BY <1>6, ChunkSizes DEF SplitDone, Ranks
  <2> QED
      BY <1>6, <2>1 DEF SplitDone, batchVars, Rows, Ranks, ChunkSize, Counted
<1>7. CASE Partition
    BY <1>7 DEF Partition, batchVars, Rows, Ranks, ChunkSize, Counted
<1>8. CASE Forward
    BY <1>8 DEF Forward, batchVars, Rows, Ranks, ChunkSize, Counted
<1>9. CASE Collect
    BY <1>9 DEF Collect, batchVars, Rows, Ranks, ChunkSize, Counted
<1>10. CASE UNCHANGED pipelineVars
    BY <1>10 DEF pipelineVars, batchVars, Rows, Ranks, ChunkSize, Counted
<1> QED
    BY <1>1, <1>2, <1>3, <1>4, <1>5, <1>6, <1>7, <1>8, <1>9, <1>10 DEF PipelineNext

\* A step keeps the sums true.
LEMMA SumsStep ==
    ASSUME PipelineInv, [PipelineNext]_pipelineVars
    PROVE  SumsAreTrue'
<1>1. CASE Balance
    BY <1>1, BalanceIsStart, StartSums
<1>2. CASE Split
    BY <1>2, SplitIsStart, StartSums
<1>3. CASE Partition
    BY <1>3, MergeSums DEF Partition, PipelineInv
<1>4. CASE LeaveAsIs \/ Reorder \/ Count \/ SplitDone \/ Forward \/ Collect \/ UNCHANGED pipelineVars
  <2>1. weight' = weight /\ k' = k /\ heap' = heap
      BY <1>4 DEF LeaveAsIs, Reorder, Count, SplitDone, Forward, Collect, pipelineVars, jobVars
  <2>2. SumsAreTrue
      BY DEF PipelineInv
  <2> QED
      BY <2>1, <2>2, SumsNow, SumsNext
<1> QED
    BY <1>1, <1>2, <1>3, <1>4 DEF PipelineNext

\* A step keeps the length of the list that is partitioned.
LEMMA LengthStep ==
    ASSUME PipelineInv, [PipelineNext]_pipelineVars
    PROVE  JobLength'
<1>1. CASE Balance
  <2>1. weight' = Workloads(lengths) /\ Len(Workloads(lengths)) = MaxItems
      BY <1>1, BalanceIsStart DEF StartJob
  <2> QED
      BY <1>1, <2>1 DEF Balance, JobLength
<1>2. CASE Split
  <2>1. Len(weight') = ChunkSize
      BY <1>2, SplitIsStart DEF StartJob
  <2> QED
      BY <1>2, <2>1 DEF Split, JobLength, ChunkSize
<1>3. CASE Partition
  <2>1. weight' = weight
      BY <1>3 DEF Partition, Merge
  <2> QED
      BY <1>3, <2>1 DEF Partition, PipelineInv, JobLength, ChunkSize
<1>4. CASE LeaveAsIs \/ Reorder \/ Count \/ SplitDone \/ Forward \/ Collect
    BY <1>4 DEF LeaveAsIs, Reorder, Count, SplitDone, Forward, Collect, JobLength
<1>5. CASE UNCHANGED pipelineVars
    BY <1>5 DEF pipelineVars, jobVars, PipelineInv, JobLength, ChunkSize
<1> QED
    BY <1>1, <1>2, <1>3, <1>4, <1>5 DEF PipelineNext

\* A step keeps the micro-batches of the ranks that have them.
LEMMA MicroStep ==
    ASSUME PipelineInv, [PipelineNext]_pipelineVars
    PROVE  MicroSound'
<1>1. MicroSound /\ ChunkSize' = ChunkSize /\ Ranks' = Ranks
    BY DEF PipelineInv, ChunkSize, Ranks
<1>2. CASE SplitDone
  <2>1. PICK s \in heap : micro' = [micro EXCEPT ![rank] = MicroBatches(s)]
      BY <1>2 DEF SplitDone
  <2>2. heap = {s}
    <3>1. PICK t \in heap : heap = {t}
        BY <1>2, TheState DEF PipelineInv, SplitDone
    <3> QED
        BY <2>1, <3>1
  <2>3. CutsUp(MicroBatches(s), ChunkSize)
    <3>1. Len(weight) = ChunkSize
        BY <1>2 DEF PipelineInv, JobLength, SplitDone
    <3> QED
        BY <2>2, <3>1, MicroLists DEF PipelineInv
  <2>4. rank \in Ranks /\ DOMAIN micro = Ranks
      BY DEF PipelineInv, PipelineTypes, MicroSound
  <2>5. CutsUp(micro'[rank], ChunkSize)
      BY <2>1, <2>3, <2>4
  <2>6. ASSUME NEW r \in Ranks, IsSplit(r)', r # rank PROVE CutsUp(micro'[r], ChunkSize)
    <3>1. IsSplit(r)
        BY <1>2, <2>4, <2>6, ChunkSizes DEF SplitDone, IsSplit, Ranks
    <3>2. micro'[r] = micro[r]
        BY <2>1, <2>4, <2>6
    <3> QED
        BY <1>1, <3>1, <3>2 DEF MicroSound
  <2>7. DOMAIN micro' = Ranks
      BY <2>1, <2>4
  <2>8. \A r \in Ranks : IsSplit(r)' => CutsUp(micro'[r], ChunkSize)
      BY <2>5, <2>6
  <2> QED
      BY <1>1, <2>7, <2>8 DEF MicroSound
<1>3. ASSUME micro' = micro, \A r \in Ranks : IsSplit(r)' => IsSplit(r) PROVE MicroSound'
  <2>1. \A r \in Ranks : IsSplit(r)' => CutsUp(micro'[r], ChunkSize)
      BY <1>1, <1>3 DEF MicroSound
  <2> QED
      BY <1>1, <1>3, <2>1 DEF MicroSound
<1>4. CASE Balance \/ LeaveAsIs \/ Reorder
  <2>1. micro' = micro /\ \A r \in Ranks : ~IsSplit(r)'
      BY <1>4 DEF Balance, LeaveAsIs, Reorder, IsSplit
  <2> QED
      BY <1>3, <2>1
<1>5. CASE Count
  <2>1. rank' = 1 /\ stage' = "counted" /\ micro' = micro
      BY <1>5 DEF Count, PipelineInv, PipelineTypes, Counted
  <2>2. \A r \in Ranks : ~IsSplit(r)'
      BY <2>1, ChunkSizes DEF IsSplit, Ranks
  <2> QED
      BY <1>3, <2>1, <2>2
<1>6. CASE Split \/ Partition \/ Forward \/ Collect \/ UNCHANGED pipelineVars
  <2>1. micro' = micro /\ rank' = rank
      BY <1>6 DEF Split, Partition, Forward, Collect, pipelineVars
  <2>2. \A r \in Ranks : IsSplit(r)' => IsSplit(r)
      BY <1>6, <2>1 DEF Split, Partition, Forward, Collect, pipelineVars, IsSplit
  <2> QED
      BY <1>3, <2>1, <2>2
<1> QED
    BY <1>2, <1>4, <1>5, <1>6 DEF PipelineNext

\* A micro-batch of indices stands for rows of the chunk.
LEMMA RowsAreRows ==
    ASSUME PipelineTypes, NEW r \in Ranks, NEW p \in Seq(1..ChunkSize)
    PROVE  /\ RowsOf(r, p) \in Seq(Rows) /\ Len(RowsOf(r, p)) = Len(p)
           /\ \A i \in 1..Len(p) : RowsOf(r, p)[i] = Chunk(r)[p[i]]
<1>1. PICK c : c = Chunk(r)
    OBVIOUS
<1>2. \A i \in 1..ChunkSize : c[i] \in Rows
  <2>1. c \in Seq(Rows) /\ Len(c) = ChunkSize
      BY <1>1, ChunkRows DEF PipelineTypes
  <2> QED
      BY <2>1
<1>3. PICK n \in Nat : n = Len(p)
    OBVIOUS
<1>4. RowsOf(r, p) = [i \in 1..n |-> c[p[i]]]
    BY <1>1, <1>3 DEF RowsOf
<1>5. \A i \in 1..n : p[i] \in 1..ChunkSize
  <2>1. \A i \in 1..Len(p) : p[i] \in 1..ChunkSize
      BY ElementOfSeq, Zenon
  <2> QED
      BY <1>3, <2>1, Zenon
<1>6. RowsOf(r, p) \in [1..n -> Rows]
    BY <1>2, <1>4, <1>5
<1>7. RowsOf(r, p) \in Seq(Rows) /\ Len(RowsOf(r, p)) = n
    BY <1>6, FunctionIsList
<1> QED
    BY <1>1, <1>3, <1>4, <1>7

\* A forward computes the next micro-batch, row by row.
LEMMA ForwardOutputs ==
    ASSUME PipelineInv, Forward, NEW r \in Ranks
    PROVE  /\ outputs'[r] \in Seq(Seq(Rows)) /\ Len(outputs'[r]) <= Len(micro[r])
           /\ \A j \in 1..Len(outputs'[r]) : outputs'[r][j] = RowsOf(r, micro[r][j])
<1>1. stage = "computing" /\ Rest(r) # <<>>
    BY DEF Forward
<1>2. PICK q, u : q = micro[r] /\ u = outputs[r]
    OBVIOUS
<1>3. /\ q \in Seq(Seq(1..ChunkSize)) /\ u \in Seq(Seq(Rows)) /\ Len(u) <= Len(q)
      /\ \A j \in 1..Len(u) : u[j] = RowsOf(r, q[j])
    BY <1>1, <1>2 DEF PipelineInv, MicroSound, OutputsSound, IsSplit, CutsUp
<1>4. PICK n \in Nat : n = Len(u)
    BY <1>3
<1>5. Rest(r) = SubSeq(q, n + 1, Len(q))
    BY <1>2, <1>4 DEF Rest
<1>6. n + 1 \in 1..Len(q)
    BY <1>1, <1>3, <1>4, <1>5
<1>7. Head(Rest(r)) = q[n + 1] /\ q[n + 1] \in Seq(1..ChunkSize)
    BY <1>3, <1>5, <1>6
<1>8. outputs'[r] = Append(u, RowsOf(r, q[n + 1]))
    BY <1>2, <1>7 DEF Forward
<1>9. RowsOf(r, q[n + 1]) \in Seq(Rows)
    BY <1>7, RowsAreRows DEF PipelineInv
<1>10. PICK x \in Seq(Rows) : x = RowsOf(r, q[n + 1])
    BY <1>9
<1>11. outputs'[r] = Append(u, x)
    BY <1>8, <1>10
<1>12. Append(u, x) \in Seq(Seq(Rows)) /\ Len(Append(u, x)) = n + 1
    BY <1>3, <1>4, <1>10
<1>13. \A j \in 1..(n + 1) : Append(u, x)[j] = IF j = n + 1 THEN x ELSE u[j]
    BY <1>3, <1>4, <1>10
<1>14. \A j \in 1..(n + 1) : Append(u, x)[j] = RowsOf(r, q[j])
  <2> TAKE j \in 1..(n + 1)
  <2>1. CASE j = n + 1
      BY <1>10, <1>13, <2>1
  <2>2. CASE j # n + 1
    <3>1. j \in 1..n
        BY <2>2
    <3> QED
        BY <1>3, <1>4, <1>13, <2>2, <3>1
  <2> QED
      BY <2>1, <2>2
<1> QED
    BY <1>2, <1>6, <1>11, <1>12, <1>14

\* A step keeps what has been computed: the rows of the micro-batches, in their order.
LEMMA OutputsStep ==
    ASSUME PipelineInv, [PipelineNext]_pipelineVars
    PROVE  OutputsSound'
<1>1. OutputsSound /\ ChunkSize' = ChunkSize /\ Ranks' = Ranks /\ Rows' = Rows
    BY DEF PipelineInv, ChunkSize, Ranks, Rows
<1>2. CASE Forward
  <2>1. order' = order /\ micro' = micro /\ stage' = "computing"
      BY <1>2 DEF Forward
  <2>2. DOMAIN outputs' = Ranks
      BY <1>2 DEF Forward
  <2>3. \A r \in Ranks : /\ outputs'[r] \in Seq(Seq(Rows)) /\ Len(outputs'[r]) <= Len(micro[r])
                         /\ \A j \in 1..Len(outputs'[r]) : outputs'[r][j] = RowsOf(r, micro[r][j])
      BY <1>2, ForwardOutputs
  <2>4. \A r, p : RowsOf(r, p)' = RowsOf(r, p)
      BY <1>1, <2>1 DEF RowsOf, Chunk
  <2> QED
      BY <1>1, <2>1, <2>2, <2>3, <2>4 DEF OutputsSound
<1>3. CASE Balance \/ LeaveAsIs \/ Reorder \/ Count \/ Split
  <2>1. /\ outputs' = outputs /\ stage \notin {"computing", "collected"}
        /\ stage' \notin {"computing", "collected"}
      BY <1>3 DEF Balance, LeaveAsIs, Reorder, Count, Split
  <2> QED
      BY <1>1, <2>1 DEF OutputsSound
<1>4. CASE SplitDone
  <2>1. outputs' = outputs /\ \A r \in Ranks : outputs[r] = <<>>
      BY <1>1, <1>4 DEF SplitDone, OutputsSound
  <2>2. ASSUME stage' \in {"computing", "collected"}, NEW r \in Ranks PROVE Len(micro'[r]) \in Nat
    <3>1. CutsUp(micro'[r], ChunkSize)
        BY <1>1, <1>4, <2>2, MicroStep DEF MicroSound, IsSplit
    <3> QED
        BY <3>1 DEF CutsUp
  <2>3. /\ <<>> \in Seq(Seq(Rows)) /\ Len(<<>>) = 0 /\ 1..0 = {}
      OBVIOUS
  <2>4. stage' \in {"computing", "collected"} => \A r \in Ranks :
          /\ outputs'[r] \in Seq(Seq(Rows)) /\ Len(outputs'[r]) <= Len(micro'[r])
          /\ 1..Len(outputs'[r]) = {}
    <3> SUFFICES ASSUME stage' \in {"computing", "collected"}, NEW r \in Ranks
                 PROVE  /\ outputs'[r] \in Seq(Seq(Rows)) /\ Len(outputs'[r]) <= Len(micro'[r])
                        /\ 1..Len(outputs'[r]) = {}
        OBVIOUS
    <3>1. outputs'[r] = <<>> /\ Len(micro'[r]) \in Nat
        BY <2>1, <2>2
    <3> QED
        BY <2>3, <3>1
  <2>5. DOMAIN outputs' = Ranks
      BY <1>1, <2>1 DEF OutputsSound
  <2> QED
      BY <1>1, <2>1, <2>4, <2>5 DEF OutputsSound
<1>5. CASE Partition \/ Collect \/ UNCHANGED pipelineVars
  <2>1. outputs' = outputs /\ micro' = micro /\ order' = order
      BY <1>5 DEF Partition, Collect, pipelineVars
  <2>2. stage' \in {"computing", "collected"} <=> stage \in {"computing", "collected"}
      BY <1>5 DEF Partition, Collect, pipelineVars
  <2>3. \A r, p : RowsOf(r, p)' = RowsOf(r, p)
      BY <1>1, <2>1 DEF RowsOf, Chunk
  <2> QED
      BY <1>1, <2>1, <2>2, <2>3 DEF OutputsSound
<1> QED
    BY <1>2, <1>3, <1>4, <1>5 DEF PipelineNext

\* The inverse of the indices puts the outputs of a chunk back in its order.
LEMMA Restored ==
    ASSUME NEW n \in Nat, NEW S, NEW z, Lists(z, 1..n), NEW c, NEW d,
           d \in [1..n -> S], TakesTo(d, z, c)
    PROVE  Restore(z, c) = d
<1>1. Len(z) = n
  <2>1. Len(z) = Cardinality(1..n)
      BY ListLength
  <2>2. Cardinality(1..n) = n
      BY Interval
  <2> QED
      BY <2>1, <2>2
<1>2. PICK reverse : reverse = [i \in 1..n |-> CHOOSE at \in 1..n : z[at] = i]
    OBVIOUS
<1>3. \A i \in 1..n : reverse[i] \in 1..n /\ z[reverse[i]] = i
  <2> TAKE i \in 1..n
  <2>1. \E at \in 1..n : z[at] = i
      BY <1>1 DEF Lists
  <2>2. reverse[i] = CHOOSE at \in 1..n : z[at] = i
      BY <1>2
  <2> QED
      BY <2>1, <2>2, Zenon
<1>4. Restore(z, c) = [i \in 1..n |-> c[reverse[i]]]
    BY <1>1, <1>2 DEF Restore
<1>5. \A i \in 1..n : c[reverse[i]] = d[i]
    BY <1>1, <1>3 DEF TakesTo
<1> QED
    BY <1>4, <1>5

\* The chunks, each restored, in a row are the batch (restore_dynamic_batch, concat).
LEMMA CollectMeets ==
    ASSUME PipelineInv, Collect
    PROVE  result' = order
<1>1. stage = "computing" /\ \A r \in Ranks : Rest(r) = <<>>
    BY DEF Collect
<1>2. order \in [Rows -> Rows] /\ PipelineTypes
    BY DEF PipelineInv, PipelineTypes
<1>3. ASSUME NEW r \in Ranks PROVE Restore(FlattenSeq(micro[r]), FlattenSeq(outputs[r])) = Chunk(r)
  <2>1. PICK q, u : q = micro[r] /\ u = outputs[r]
      OBVIOUS
  <2>2. /\ q \in Seq(Seq(1..ChunkSize)) /\ u \in Seq(Seq(Rows)) /\ Len(u) <= Len(q)
        /\ \A j \in 1..Len(u) : u[j] = RowsOf(r, q[j])
        /\ Len(q) \in Nat \ {0} /\ Lists(FlattenSeq(q), 1..ChunkSize)
      BY <1>1, <2>1 DEF PipelineInv, MicroSound, OutputsSound, IsSplit, CutsUp
  <2>3. PICK n \in Nat \ {0} : n = Len(q)
      BY <2>2
  <2>4. SubSeq(q, Len(u) + 1, n) = <<>>
      BY <1>1, <2>1, <2>3 DEF Rest
  <2>5. Len(u) = n
    <3>1. PICK a \in Nat : a = Len(u)
        BY <2>2
    <3>2. a <= n
        BY <2>2, <2>3, <3>1
    <3>3. ASSUME a < n PROVE FALSE
      <4>1. a + 1 \in 1..n /\ n = Len(q)
          BY <2>3, <3>3
      <4>2. Len(SubSeq(q, a + 1, n)) = n - a
          BY <2>2, <4>1
      <4>3. Len(<<>>) = 0
          OBVIOUS
      <4>4. SubSeq(q, a + 1, n) = <<>>
          BY <2>4, <3>1, Zenon
      <4>5. n - a = 0
          BY <4>2, <4>3, <4>4, Zenon
      <4> QED
          BY <3>3, <4>5
    <3> QED
        BY <3>1, <3>2, <3>3
  <2>6. PICK d : d = Chunk(r)
      OBVIOUS
  <2>7. d \in Seq(Rows) /\ Len(d) = ChunkSize
      BY <1>2, <2>6, ChunkRows
  <2>8. ASSUME NEW i \in 1..n
        PROVE  Len(u[i]) = Len(q[i]) /\ \A j \in 1..Len(q[i]) : u[i][j] = d[q[i][j]]
    <3>1. u[i] = RowsOf(r, q[i]) /\ q[i] \in Seq(1..ChunkSize)
        BY <2>2, <2>3, <2>5
    <3> QED
        BY <1>2, <2>6, <3>1, RowsAreRows
  <2>9. PICK z, c : z = FlattenSeq(q) /\ c = FlattenSeq(u)
      OBVIOUS
  <2>10. TakesTo(d, z, c)
    <3>1. Len(q) = n
        BY <2>3
    <3>2. q \in Seq(Seq(1..ChunkSize)) /\ u \in Seq(Seq(Rows))
        BY <2>2
    <3>3. Matches(q, u, n, d)
        BY <2>8, Zenon DEF Matches
    <3>4. TakesTo(d, FlattenSeq(q), FlattenSeq(u))
        BY <2>5, <3>1, <3>2, <3>3, FlattenAlike
    <3> QED
        BY <2>9, <3>4, Zenon
  <2>11. d \in [1..ChunkSize -> Rows]
      BY <2>7
  <2>12. Restore(z, c) = d
    <3>1. Lists(z, 1..ChunkSize) /\ ChunkSize \in Nat
        BY <2>2, <2>9, ChunkSizes
    <3> QED
        BY <2>10, <2>11, <3>1, Restored
  <2> QED
      BY <2>1, <2>6, <2>9, <2>12
<1>4. PICK q : q = [r \in Ranks |-> Chunk(r)]
    OBVIOUS
<1>5. Cuts(q, order, Dp, ChunkSize)
    BY <1>4 DEF Ranks, Chunk, Cuts
<1>6. order \in Seq(Rows) /\ Len(order) = MaxItems
    BY <1>2, FunctionIsList, ChunkSizes DEF Rows
<1>7. FlattenSeq(q) = order
  <2>1. Dp \in Nat \ {0} /\ ChunkSize \in Nat /\ Len(order) = Dp * ChunkSize
      BY <1>6, ChunkSizes
  <2>2. order \in Seq(Rows)
      BY <1>6
  <2> QED
      BY <1>5, <2>1, <2>2, FlattenCut
<1>8. [r \in Ranks |-> Restore(FlattenSeq(micro[r]), FlattenSeq(outputs[r]))] = q
    BY <1>3, <1>4
<1> QED
    BY <1>7, <1>8 DEF Collect

\* A step keeps the collected output in the order of the batch.
LEMMA MeetStep ==
    ASSUME PipelineInv, [PipelineNext]_pipelineVars
    PROVE  RowsMeetTheirOutputs'
<1>1. CASE Collect
    BY <1>1, CollectMeets DEF Collect, RowsMeetTheirOutputs
<1>2. CASE Balance \/ LeaveAsIs \/ Reorder \/ Count \/ Split \/ SplitDone \/ Forward
    BY <1>2 DEF Balance, LeaveAsIs, Reorder, Count, Split, SplitDone, Forward, RowsMeetTheirOutputs
<1>3. CASE Partition \/ UNCHANGED pipelineVars
    BY <1>3 DEF Partition, pipelineVars, PipelineInv, RowsMeetTheirOutputs
<1> QED
    BY <1>1, <1>2, <1>3 DEF PipelineNext

\* A step keeps the invariant.
LEMMA PipelineStep ==
    ASSUME PipelineInv, [PipelineNext]_pipelineVars
    PROVE  PipelineInv'
<1>1. KKInv'
    BY PipelineStepIsJobStep, KKStep DEF PipelineInv
<1> QED
    BY <1>1, TypesStep, SumsStep, LengthStep, MicroStep, OutputsStep, MeetStep DEF PipelineInv

-----------------------------------------------------------------------------
\* What follows

\* Whatever the sizes, lengths and choices, every state of the pipeline satisfies the invariant: the micro-batches
\* of a rank have each row of its chunk once, and its outputs are the rows of those already computed.
THEOREM PipelineAlways == PipelineSpec => []PipelineInv
BY PipelineInitial, PipelineStep, PTL DEF PipelineSpec

\* Types; whatever the lengths and the sizes, the batch holds every row once after the balancing, and
\* the sums the sets are compared by are those of their items.
THEOREM PipelineTypesAlways == PipelineSpec => []PipelineTypeOK
<1>1. PipelineInv => PipelineTypeOK
    BY DEF PipelineInv, PipelineTypes, PipelineTypeOK, Counted
<1> QED
    BY <1>1, PipelineAlways, PTL

\* The outputs of compute_log_prob come back in the order of the batch (restore_dynamic_batch, concat).
THEOREM OutputsMeetRows == PipelineSpec => []RowsMeetTheirOutputs
<1>1. PipelineInv => RowsMeetTheirOutputs
    BY DEF PipelineInv
<1> QED
    BY <1>1, PipelineAlways, PTL

\* Every call of karmarkar_karp satisfies its assertions on the arguments, and runs as it prescribes.
THEOREM PipelineImplementsKK == PipelineSpec => PartitionsAsPrescribed
<1>1. PipelineInit => KKInit
    BY DEF PipelineInit
<1>2. PipelineInv /\ [PipelineNext]_pipelineVars => [KKNext]_jobVars
    BY PipelineStepIsJobStep
<1> QED
    BY <1>1, <1>2, PipelineAlways, PTL DEF PipelineSpec, KKSpec, PartitionsAsPrescribed

\* So what holds of karmarkar_karp's results holds of the partitions of the pipeline.
THEOREM PipelinePartitions == PipelineSpec => []PartitionsSound /\ []SpreadBounded
BY PipelineImplementsKK, KKPartitionsSound, KKSpreadBounded, PTL DEF PartitionsAsPrescribed

-----------------------------------------------------------------------------
\* Forwards are collective

\* The ranks have the same number of micro-batches and have computed the same number of them.
RanksAgree ==
    /\ stage \in Counted => \A r, q \in Ranks : counts[r] = counts[q]
    /\ stage = "splitting" => k = counts[rank]
    /\ \A r \in Ranks : IsSplit(r) => Len(micro[r]) = counts[r]
    /\ \A r, q \in Ranks : Len(outputs[r]) = Len(outputs[q])

\* No rank is in a forward pass that another does not take part in (all_reduce of num_micro_batches).
NobodyWaits == stage = "computing" => \/ \A r \in Ranks : Rest(r) # <<>>
                                      \/ \A r \in Ranks : Rest(r) = <<>>

\* What the ranks agree on does not depend on the rank.
LEMMA CountsAgree ==
    ASSUME Count
    PROVE  \A r, q \in Ranks : counts'[r] = counts'[q]
<1>1. PICK local : local = [r \in Ranks |-> LocalCount(r)]
    OBVIOUS
<1>2. counts' = [r \in Ranks |-> AllReduceMax(local)]
    BY <1>1 DEF Count, Agreed
<1> QED
    BY <1>2

\* As many micro-batches as partitions were asked for.
LEMMA SplitMakes ==
    ASSUME PipelineInv, RanksAgree, SplitDone
    PROVE  \A r \in Ranks : IsSplit(r)' => Len(micro'[r]) = counts'[r]
<1>1. PICK s \in heap : micro' = [micro EXCEPT ![rank] = MicroBatches(s)]
    BY DEF SplitDone
<1>2. stage = "splitting" /\ counts' = counts /\ k = counts[rank] /\ k \in Nat
    BY DEF SplitDone, RanksAgree, PipelineInv, KKInv, KKTypeOK
<1>3. Len(MicroBatches(s)) = k
  <2>1. MicroBatches(s) = [n \in 1..k |-> MicroBatches(s)[n]]
      BY DEF MicroBatches
  <2>2. PICK t : t = MicroBatches(s)
      OBVIOUS
  <2>3. t = [n \in 1..k |-> t[n]]
      BY <2>1, <2>2, Zenon
  <2>4. Len(t) = k
      BY <1>2, <2>3
  <2> QED
      BY <2>2, <2>4
<1>4. DOMAIN micro = Ranks /\ rank \in Ranks /\ Ranks = 1..Dp /\ Dp \in Nat
    BY ChunkSizes DEF PipelineInv, PipelineTypes, MicroSound, Ranks
<1>5. ASSUME NEW r \in Ranks, IsSplit(r)' PROVE r = rank \/ IsSplit(r)
    BY <1>2, <1>4, <1>5 DEF IsSplit, SplitDone
<1>6. ASSUME NEW r \in Ranks, r # rank PROVE micro'[r] = micro[r]
    BY <1>1, <1>4, <1>6
<1>7. micro'[rank] = MicroBatches(s)
    BY <1>1, <1>4
<1>8. \A r \in Ranks : IsSplit(r) => Len(micro[r]) = counts[r]
    BY DEF RanksAgree
<1> QED
    BY <1>2, <1>3, <1>5, <1>6, <1>7, <1>8

\* Each rank computes one micro-batch.
LEMMA OneMore ==
    ASSUME PipelineInv, Forward, NEW r \in Ranks
    PROVE  Len(outputs[r]) \in Nat /\ Len(outputs'[r]) = Len(outputs[r]) + 1
<1>1. outputs[r] \in Seq(Seq(Rows))
    BY DEF PipelineInv, OutputsSound, Forward
<1>2. PICK x, u : x = RowsOf(r, Head(Rest(r))) /\ u = outputs[r]
    OBVIOUS
<1>3. outputs'[r] = Append(u, x)
    BY <1>2 DEF Forward
<1>4. u \in Seq(Seq(Rows))
    BY <1>1, <1>2
<1> QED
    BY <1>2, <1>3, <1>4

\* All ranks take part in a forward.
LEMMA ForwardsTogether ==
    ASSUME PipelineInv, RanksAgree, Forward
    PROVE  \A r, q \in Ranks : Len(outputs'[r]) = Len(outputs'[q])
<1>1. \A r, q \in Ranks : Len(outputs[r]) = Len(outputs[q])
    BY DEF RanksAgree
<1>2. \A r \in Ranks : Len(outputs'[r]) = Len(outputs[r]) + 1
    BY OneMore
<1> QED
    BY <1>1, <1>2

\* A step keeps the ranks in agreement.
LEMMA RanksStep ==
    ASSUME PipelineInv, RanksAgree, [PipelineNext]_pipelineVars
    PROVE  RanksAgree'
<1>1. CASE Balance \/ LeaveAsIs \/ Reorder
    BY <1>1 DEF Balance, LeaveAsIs, Reorder, RanksAgree, IsSplit, Counted
<1>2. CASE Count
  <2>1. stage = "dispatched" /\ stage' = "counted" /\ UNCHANGED <<rank, micro, outputs>> /\ rank = 1
      BY <1>2 DEF Count, PipelineInv, PipelineTypes, Counted
  <2>2. \A r \in Ranks : ~(r < rank')
      BY <2>1, ChunkSizes DEF Ranks
  <2> QED
      BY <1>2, <2>1, <2>2, CountsAgree DEF RanksAgree, IsSplit
<1>3. CASE Split
  <2>1. k' = counts[rank]
      BY <1>3 DEF Split, StartJob
  <2> QED
      BY <1>3, <2>1 DEF Split, RanksAgree, IsSplit, Counted
<1>4. CASE SplitDone
  <2>1. stage = "splitting" /\ stage' # "splitting" /\ UNCHANGED <<counts, outputs>>
      BY <1>4 DEF SplitDone
  <2> QED
      BY <1>4, <2>1, SplitMakes DEF RanksAgree, Counted
<1>5. CASE Partition
  <2>1. k' = k /\ UNCHANGED <<stage, rank, counts, micro, outputs>>
      BY <1>5 DEF Partition, Merge
  <2> QED
      BY <2>1 DEF RanksAgree, IsSplit
<1>6. CASE Forward
  <2>1. UNCHANGED <<stage, rank, counts, micro, k>>
      BY <1>6 DEF Forward, jobVars
  <2> QED
      BY <1>6, <2>1, ForwardsTogether DEF RanksAgree, IsSplit
<1>7. CASE Collect
    BY <1>7 DEF Collect, RanksAgree, IsSplit, Counted
<1>8. CASE UNCHANGED pipelineVars
    BY <1>8 DEF pipelineVars, jobVars, RanksAgree, IsSplit
<1> QED
    BY <1>1, <1>2, <1>3, <1>4, <1>5, <1>6, <1>7, <1>8 DEF PipelineNext

\* So either all of them have micro-batches left, or none.
LEMMA AgreedIsEnough ==
    ASSUME PipelineInv, RanksAgree
    PROVE  NobodyWaits
<1> SUFFICES ASSUME stage = "computing" PROVE NobodyWaits
    BY DEF NobodyWaits
<1>1. ASSUME NEW r \in Ranks
      PROVE  Rest(r) = <<>> <=> Len(outputs[r]) = counts[r]
  <2>1. PICK q, u : q = micro[r] /\ u = outputs[r]
      OBVIOUS
  <2>2. q \in Seq(Seq(1..ChunkSize)) /\ u \in Seq(Seq(Rows)) /\ Len(u) <= Len(q) /\ Len(q) = counts[r]
      BY <2>1 DEF PipelineInv, MicroSound, OutputsSound, IsSplit, CutsUp, RanksAgree
  <2>3. PICK a, n \in Nat : a = Len(u) /\ n = Len(q)
      BY <2>2
  <2>4. PICK t : t = SubSeq(q, a + 1, n)
      OBVIOUS
  <2>5. a <= n
      BY <2>2, <2>3
  <2>6. t \in Seq(Seq(1..ChunkSize)) /\ Len(t) = n - a
    <3>1. CASE a < n
        BY <2>2, <2>3, <2>4, <3>1, SubSeqProperties, SMTT(30)
    <3>2. CASE a = n
        BY <2>2, <2>3, <2>4, <3>2, SubSeqProperties
    <3> QED
        BY <2>3, <2>5, <3>1, <3>2
  <2>7. t = <<>> <=> Len(t) = 0
      BY <2>6
  <2>8. n - a = 0 <=> a = n
      BY <2>3
  <2> QED
      BY <2>1, <2>2, <2>3, <2>4, <2>6, <2>7, <2>8 DEF Rest
<1>2. \A r, q \in Ranks : Len(outputs[r]) = Len(outputs[q]) /\ counts[r] = counts[q]
    BY DEF RanksAgree, Counted
<1> QED
    BY <1>1, <1>2, Zenon DEF NobodyWaits

\* No rank waits for another in a collective forward, whatever the lengths: all have micro-batches left or none has
\* (the all_reduce of rearrange_micro_batches). What Finishes needs beside fairness.
THEOREM RanksForwardTogether == PipelineSpec => []NobodyWaits
<1>1. PipelineInit => RanksAgree
    BY DEF PipelineInit, RanksAgree, Counted, IsSplit
<1>2. PipelineInv /\ RanksAgree /\ [PipelineNext]_pipelineVars => RanksAgree'
    BY RanksStep
<1>3. PipelineInv /\ RanksAgree => NobodyWaits
    BY AgreedIsEnough
<1> QED
    BY <1>1, <1>2, <1>3, PipelineAlways, PTL DEF PipelineSpec

-----------------------------------------------------------------------------
\* The jobs go on

\* A finite set that is not empty has an element before which nothing comes.
LEMMA NoneBefore ==
    ASSUME NEW H, IsFiniteSet(H), H # {}, NEW before,
           \A x \in H : before[x] \in SUBSET H /\ x \notin before[x],
           \A x, y \in H : x \in before[y] => before[x] \subseteq before[y]
    PROVE  \E x \in H : before[x] = {}
<1>1. PICK B : B = {before[x] : x \in H}
    OBVIOUS
<1>2. B # {} /\ \A b \in B : IsFiniteSet(b)
    BY <1>1, FS_Subset
<1>3. PICK b \in B : \A c \in B : Cardinality(b) <= Cardinality(c)
    BY <1>2, SmallestSet
<1>4. PICK x \in H : b = before[x]
    BY <1>1, <1>3
<1>5. ASSUME NEW y \in before[x] PROVE FALSE
  <2>1. y \in H /\ before[y] \in SUBSET before[x] /\ before[y] # before[x]
      BY <1>4, <1>5
  <2>2. IsFiniteSet(before[x])
      BY <1>2, <1>4
  <2>3. IsFiniteSet(before[y]) /\ Cardinality(before[y]) <= Cardinality(before[x])
        /\ Cardinality(before[y]) # Cardinality(before[x])
      BY <2>1, <2>2, FS_Subset
  <2>4. Cardinality(before[y]) \in Nat /\ Cardinality(before[x]) \in Nat
      BY <2>2, <2>3, FS_CardinalityType
  <2>5. Cardinality(before[x]) <= Cardinality(before[y])
      BY <1>1, <1>3, <1>4, <2>1
  <2> QED
      BY <2>3, <2>4, <2>5
<1> QED
    BY <1>5

\* State.__lt__ is an order of the heap.
LEMMA EarlierOrders ==
    ASSUME KKInv, NEW s \in heap, NEW t \in heap, NEW u \in heap
    PROVE  ~Earlier(s, s) /\ (Earlier(s, t) /\ Earlier(t, u) => Earlier(s, u))
<1>1. 1 \in 1..k /\ k \in 1..k
    BY DEF KKInv, KKTypeOK
<1>2. \A v \in heap : /\ v[1].sum \in Nat /\ v[k].sum \in Nat
                      /\ Cardinality(v[1].items) \in Nat
    BY <1>1, Descending, FS_CardinalityType
<1>3. \A v \in heap : Spread(v) \in Int
    BY <1>2 DEF Spread
<1>4. PICK c : c = [v \in heap |-> Cardinality(v[1].items)]
    OBVIOUS
<1>5. \A v \in heap : Cardinality(v[1].items) = c[v] /\ c[v] \in Nat
    BY <1>2, <1>4
<1>6. PICK d : d = [v \in heap |-> Spread(v)]
    OBVIOUS
<1>7. \A v \in heap : Spread(v) = d[v] /\ d[v] \in Int
    BY <1>3, <1>6
<1>8. \A v, w \in heap : Earlier(v, w) <=>
         \/ d[v] > d[w]
         \/ d[v] = d[w] /\ (v[1].sum > w[1].sum \/ (v[1].sum = w[1].sum /\ c[v] > c[w]))
    BY <1>5, <1>7 DEF Earlier, Heavier
<1> QED
    BY <1>2, <1>5, <1>7, <1>8

\* The heap has a first State as long as it has one.
LEMMA FirstExists ==
    ASSUME KKInv, NEW H, H \subseteq heap, H # {}
    PROVE  First(H) # {}
<1>1. IsFiniteSet(H)
    BY FS_Subset DEF KKInv, KKTypeOK
<1>2. PICK before : before = [s \in H |-> {t \in H : Earlier(t, s)}]
    OBVIOUS
<1>3. \A s \in H : before[s] \in SUBSET H /\ s \notin before[s]
    BY <1>2, EarlierOrders
<1>4. \A s, t \in H : s \in before[t] => before[s] \subseteq before[t]
  <2> TAKE s, t \in H
  <2> HAVE s \in before[t]
  <2>1. Earlier(s, t)
      BY <1>2
  <2>2. ASSUME NEW u \in before[s] PROVE u \in before[t]
    <3>1. u \in H /\ Earlier(u, s)
        BY <1>2, <2>2
    <3>2. Earlier(u, t)
        BY <2>1, <3>1, EarlierOrders
    <3> QED
        BY <1>2, <3>1, <3>2
  <2> QED
      BY <2>2
<1>5. PICK s \in H : before[s] = {}
    BY <1>1, <1>3, <1>4, NoneBefore
<1>6. \A t \in H : ~Earlier(t, s)
    BY <1>2, <1>5
<1> QED
    BY <1>6 DEF First

\* The sets of two States, united, can be put in decreasing order (sorted in State.merge).
LEMMA MergedExists ==
    ASSUME KKInv, NEW s \in heap, NEW t \in heap
    PROVE  Merged(s, t) # {}
<1>1. k \in Nat \ {0} /\ IsFiniteSet(1..k)
    BY FS_Interval DEF KKInv, KKTypeOK
<1>2. PICK u : u = [i \in 1..k |-> Union(s, t, i)]
    OBVIOUS
<1>3. ASSUME NEW i \in 1..k PROVE u[i].sum \in Nat /\ Cardinality(u[i].items) \in Nat
  <2>1. k + 1 - i \in 1..k
      BY <1>1
  <2>2. /\ s[i].sum \in Nat /\ IsFiniteSet(s[i].items)
        /\ t[k + 1 - i].sum \in Nat /\ IsFiniteSet(t[k + 1 - i].items)
      BY <2>1, Descending
  <2>3. u[i] = [sum |-> s[i].sum + t[k + 1 - i].sum, items |-> s[i].items \cup t[k + 1 - i].items]
      BY <1>2 DEF Union
  <2>4. IsFiniteSet(s[i].items \cup t[k + 1 - i].items)
      BY <2>2, FS_Union
  <2> QED
      BY <2>2, <2>3, <2>4, FS_CardinalityType
<1>4. PICK c : c = [i \in 1..k |-> Cardinality(u[i].items)]
    OBVIOUS
<1>5. PICK w : w = [i \in 1..k |-> u[i].sum]
    OBVIOUS
<1>6. \A i \in 1..k : w[i] \in Nat /\ c[i] \in Nat
    BY <1>3, <1>4, <1>5
<1>7. \A i, j \in 1..k : Heavier(u[i], u[j]) <=> (w[i] > w[j] \/ (w[i] = w[j] /\ c[i] > c[j]))
    BY <1>4, <1>5 DEF Heavier
<1>8. PICK ahead : ahead = [i \in 1..k |-> {j \in 1..k : Heavier(u[j], u[i])
                                                       \/ (~Heavier(u[i], u[j]) /\ j < i)}]
    OBVIOUS
<1>9. \A i, j \in 1..k : j \in ahead[i] <=> \/ w[j] > w[i]
                                            \/ w[j] = w[i] /\ c[j] > c[i]
                                            \/ w[j] = w[i] /\ c[j] = c[i] /\ j < i
    BY <1>6, <1>7, <1>8
<1>10. Orders(1..k, ahead)
  <2>1. \A i \in 1..k : ahead[i] \in SUBSET (1..k) /\ i \notin ahead[i]
      BY <1>6, <1>8, <1>9
  <2>2. \A i, j \in 1..k : i # j => i \in ahead[j] \/ j \in ahead[i]
      BY <1>6, <1>9
  <2>3. \A i, j, h \in 1..k : i \in ahead[j] /\ h \in ahead[i] => h \in ahead[j]
      BY <1>6, <1>9
  <2> QED
      BY <2>1, <2>2, <2>3 DEF Orders
<1>11. PICK o : o = SortBy(1..k, ahead)
    OBVIOUS
<1>12. Lists(o, 1..k)
    BY <1>1, <1>10, <1>11, SortLists
<1>13. Len(o) = k
  <2>1. Len(o) = Cardinality(1..k)
      BY <1>12, ListLength
  <2>2. Cardinality(1..k) = k
      BY <1>1, FS_Interval
  <2> QED
      BY <2>1, <2>2
<1>14. o \in Arrangements(k)
    BY <1>12, <1>13 DEF Lists, Arrangements
<1>15. PICK m : m = [i \in 1..k |-> Union(s, t, o[i])]
    OBVIOUS
<1>16. \A i \in 1..k : o[i] \in 1..k /\ m[i] = u[o[i]]
    BY <1>2, <1>14, <1>15 DEF Arrangements
<1>17. ASSUME NEW i \in 1..k, NEW j \in 1..k, i < j, Heavier(m[j], m[i]) PROVE FALSE
  <2>1. o[j] \in ahead[o[i]]
      BY <1>8, <1>16, <1>17
  <2>2. j < i
      BY <1>1, <1>10, <1>11, <1>13, <2>1, SortInOrder
  <2> QED
      BY <1>17, <2>2
<1>18. Decreasing(m)
    BY <1>15, <1>17 DEF Decreasing
<1> QED
    BY <1>14, <1>15, <1>18 DEF Merged

\* The guards of Reorder and SplitDone, or that of Merge.
CanMerge == \E s \in First(heap) : \E t \in First(heap \ {s}) : Merged(s, t) # {}
JobGoesOn == stage \in {"balancing", "splitting"} => heap # {} /\ (Partitioned \/ CanMerge)

\* While a list is partitioned there is a State.
LEMMA JobNotEmpty ==
    ASSUME PipelineInv, stage \in {"balancing", "splitting"}
    PROVE  heap # {}
<1>1. Len(weight) \in Nat \ {0}
    BY ChunkSizes DEF PipelineInv, JobLength
<1>2. 1 \in Items
    BY <1>1 DEF Items
<1> QED
    BY <1>2 DEF PipelineInv, KKInv, EachItemOnce

\* A partitioning that is not over can go on.
LEMMA JobsGoOn == ASSUME PipelineInv PROVE JobGoesOn
<1> SUFFICES ASSUME stage \in {"balancing", "splitting"} PROVE heap # {} /\ (Partitioned \/ CanMerge)
    BY DEF JobGoesOn
<1>1. heap # {} /\ KKInv
    BY JobNotEmpty DEF PipelineInv
<1>2. PICK s : s \in First(heap)
    BY <1>1, FirstExists
<1>3. s \in heap
    BY <1>2 DEF First
<1>4. CASE heap = {s}
  <2>1. Cardinality(heap) = 1
      BY <1>4, FS_Singleton
  <2> QED
      BY <1>1, <2>1 DEF Partitioned
<1>5. CASE heap # {s}
  <2>1. heap \ {s} # {}
      BY <1>3, <1>5
  <2>2. PICK t : t \in First(heap \ {s})
      BY <1>1, <2>1, FirstExists
  <2>3. t \in heap
      BY <2>2 DEF First
  <2> QED
      BY <1>1, <1>2, <1>3, <2>2, <2>3, MergedExists DEF CanMerge
<1> QED
    BY <1>4, <1>5

\* A partitioning never stops half way: there are always two States to take from the heap and an order
\* for their united sets, or the result is there. With RanksForwardTogether, no stage but the last
\* can be the last: the other actions ask for nothing but their stage.
THEOREM PartitioningGoesOn == PipelineSpec => []JobGoesOn
BY JobsGoOn, PipelineAlways, PTL

-----------------------------------------------------------------------------
\* The way has an end

\* How many stages are to come, and what is left to do in this one: States to merge, or micro-batches to compute.
ToCome == CASE stage = "received" -> 2 * Dp + 4
           [] stage = "balancing" -> 2 * Dp + 3
           [] stage = "dispatched" -> 2 * Dp + 2
           [] stage = "counted" -> 2 * (Dp - rank) + 3
           [] stage = "splitting" -> 2 * (Dp - rank) + 2
           [] stage = "computing" -> 1
           [] stage = "collected" -> 0
Left == CASE stage \in {"balancing", "splitting"} -> Cardinality(heap)
          [] stage = "computing" -> counts[1] - Len(outputs[1])
          [] OTHER -> 0
Closer == ToCome' < ToCome \/ (ToCome' = ToCome /\ Left' < Left)

\* Both are numbers.
LEMMA WayIsFinite == ASSUME PipelineInv, RanksAgree PROVE ToCome \in Nat /\ Left \in Nat
<1>1. rank \in 1..Dp /\ Dp \in Nat \ {0} /\ 1 \in Ranks
    BY ChunkSizes DEF PipelineInv, PipelineTypes, Ranks
<1>2. stage \in {"received", "balancing", "dispatched", "counted", "splitting", "computing", "collected"}
    BY DEF PipelineInv, PipelineTypes, Counted
<1>3. ToCome \in Nat
    BY <1>1, <1>2 DEF ToCome
<1>4. Cardinality(heap) \in Nat
    BY FS_CardinalityType DEF PipelineInv, KKInv, KKTypeOK
<1>5. CASE stage = "computing"
  <2>1. PICK q, u : q = micro[1] /\ u = outputs[1]
      OBVIOUS
  <2>2. q \in Seq(Seq(1..ChunkSize)) /\ u \in Seq(Seq(Rows)) /\ Len(u) <= Len(q) /\ Len(q) = counts[1]
      BY <1>1, <1>5, <2>1 DEF PipelineInv, MicroSound, OutputsSound, IsSplit, CutsUp, RanksAgree
  <2>3. counts[1] - Len(outputs[1]) \in Nat
      BY <2>1, <2>2
  <2> QED
      BY <1>3, <1>5, <2>3 DEF Left
<1>6. CASE stage # "computing"
    BY <1>3, <1>4, <1>6 DEF Left
<1> QED
    BY <1>5, <1>6

\* Of two States one remains.
LEMMA MergeIsCloser ==
    ASSUME PipelineInv, Partition
    PROVE  Cardinality(heap') < Cardinality(heap)
<1>1. PICK s, t, m, o, r : IsMerge(s, t, m, o, r)
    BY MergeIsMerge DEF PipelineInv, KKInv, Partition
<1>2. s \in heap /\ t \in heap /\ s # t /\ heap' = (heap \ {s, t}) \cup {m}
    BY <1>1 DEF IsMerge
<1>3. IsFiniteSet(heap)
    BY DEF PipelineInv, KKInv, KKTypeOK
<1>4. PICK A, B : A = heap \ {s} /\ B = A \ {t}
    OBVIOUS
<1>5. /\ IsFiniteSet(A) /\ Cardinality(heap) \in Nat /\ Cardinality(A) \in Nat
      /\ Cardinality(A) = Cardinality(heap) - 1
    BY <1>2, <1>3, <1>4, OneLess
<1>6. t \in A
    BY <1>2, <1>4
<1>7. /\ IsFiniteSet(B) /\ Cardinality(B) \in Nat /\ Cardinality(B) = Cardinality(A) - 1
    BY <1>4, <1>5, <1>6, OneLess
<1>8. heap' = B \cup {m}
    BY <1>2, <1>4
<1>9. Cardinality(heap') = Cardinality(B) \/ Cardinality(heap') = Cardinality(B) + 1
    BY <1>7, <1>8, FS_AddElement
<1> QED
    BY <1>5, <1>7, <1>9

\* Outside the two partitionings no two States are left to merge.
JobEnded == stage \notin {"balancing", "splitting"} => \A s, t \in heap : s = t

\* A step merges only during a partitioning, and a partitioning ends with one State.
LEMMA EndedStep ==
    ASSUME PipelineInv, JobEnded, [PipelineNext]_pipelineVars
    PROVE  JobEnded'
<1>1. CASE Balance \/ Split
    BY <1>1 DEF Balance, Split, JobEnded
<1>2. CASE LeaveAsIs \/ Count \/ Forward \/ Collect
    BY <1>2 DEF LeaveAsIs, Count, Forward, Collect, jobVars, JobEnded
<1>3. CASE Reorder \/ SplitDone
  <2>1. Partitioned /\ heap' = heap
      BY <1>3 DEF Reorder, SplitDone, jobVars
  <2>2. PICK s \in heap : heap = {s}
      BY <2>1, TheState DEF PipelineInv
  <2> QED
      BY <2>1, <2>2 DEF JobEnded
<1>4. CASE Partition
  <2>1. \E s, t \in heap : s # t
      BY <1>4, MergeIsMerge DEF PipelineInv, KKInv, Partition, IsMerge
  <2>2. stage' = stage
      BY <1>4 DEF Partition
  <2> QED
      BY <2>1, <2>2 DEF JobEnded
<1>5. CASE UNCHANGED pipelineVars
    BY <1>5 DEF pipelineVars, jobVars, JobEnded
<1> QED
    BY <1>1, <1>2, <1>3, <1>4, <1>5 DEF PipelineNext

\* Every step comes closer to the end.
LEMMA StepIsCloser ==
    ASSUME PipelineInv, RanksAgree, JobEnded, PipelineNext
    PROVE  Closer
<1>1. rank \in 1..Dp /\ Dp \in Nat \ {0} /\ 1 \in Ranks
    BY ChunkSizes DEF PipelineInv, PipelineTypes, Ranks
<1>2. CASE Balance \/ LeaveAsIs \/ Reorder
  <2>1. \/ stage = "received" /\ stage' = "balancing"
        \/ stage = "received" /\ stage' = "dispatched"
        \/ stage = "balancing" /\ stage' = "dispatched"
      BY <1>2, Zenon DEF Balance, LeaveAsIs, Reorder
  <2> QED
      BY <1>1, <2>1 DEF Closer, ToCome
<1>3. CASE Count
  <2>1. stage = "dispatched" /\ stage' = "counted" /\ rank' = rank /\ rank = 1
      BY <1>3 DEF Count, PipelineInv, PipelineTypes, Counted
  <2> QED
      BY <1>1, <2>1 DEF Closer, ToCome
<1>4. CASE Split
    BY <1>1, <1>4 DEF Split, Closer, ToCome
<1>5. CASE SplitDone
    BY <1>1, <1>5 DEF SplitDone, Closer, ToCome
<1>6. CASE Partition
  <2>1. \E s, t \in heap : s # t
      BY <1>6, MergeIsMerge DEF PipelineInv, KKInv, Partition, IsMerge
  <2>2. stage \in {"balancing", "splitting"}
      BY <2>1 DEF JobEnded
  <2>3. stage' = stage /\ rank' = rank
      BY <1>6 DEF Partition
  <2>4. Left' < Left
      BY <1>6, <2>2, <2>3, MergeIsCloser DEF Left
  <2>5. ToCome' = ToCome
      BY <2>3 DEF ToCome
  <2> QED
      BY <2>4, <2>5 DEF Closer
<1>7. CASE Forward
  <2>1. stage = "computing" /\ stage' = stage /\ rank' = rank /\ counts' = counts
      BY <1>7 DEF Forward
  <2>2. Len(outputs[1]) \in Nat /\ Len(outputs'[1]) = Len(outputs[1]) + 1
      BY <1>1, <1>7, OneMore
  <2>3. counts[1] \in Nat
      BY <1>1, ChunkSizes DEF PipelineInv, PipelineTypes
  <2>4. Left' = counts[1] - Len(outputs'[1]) /\ Left = counts[1] - Len(outputs[1])
      BY <2>1 DEF Left
  <2>5. ToCome' = ToCome
      BY <2>1 DEF ToCome
  <2> QED
      BY <2>2, <2>3, <2>4, <2>5 DEF Closer
<1>8. CASE Collect
    BY <1>8 DEF Collect, Closer, ToCome
<1> QED
    BY <1>2, <1>3, <1>4, <1>5, <1>6, <1>7, <1>8 DEF PipelineNext

\* A forward pass of the workers is over after finitely many steps: each one leaves fewer stages, or in the same
\* stage fewer States to merge or micro-batches to compute. With PartitioningGoesOn and RanksForwardTogether this is
\* what Finishes rests on.
THEOREM EachStepIsCloser == PipelineSpec => [](ToCome \in Nat /\ Left \in Nat) /\ [][Closer]_pipelineVars
<1>1. PipelineInit => RanksAgree /\ JobEnded
    BY DEF PipelineInit, KKInit, RanksAgree, Counted, IsSplit, JobEnded
<1>2. PipelineInv /\ RanksAgree /\ [PipelineNext]_pipelineVars => RanksAgree'
    BY RanksStep
<1>3. PipelineInv /\ JobEnded /\ [PipelineNext]_pipelineVars => JobEnded'
    BY EndedStep
<1>4. PipelineInv /\ RanksAgree => ToCome \in Nat /\ Left \in Nat
    BY WayIsFinite
<1>5. PipelineInv /\ RanksAgree /\ JobEnded /\ [PipelineNext]_pipelineVars => [Closer]_pipelineVars
    BY StepIsCloser
<1> QED
    BY <1>1, <1>2, <1>3, <1>4, <1>5, PipelineAlways, PTL DEF PipelineSpec
================================================================================
