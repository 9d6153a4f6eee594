-------------------------- MODULE KarmarkarKarp --------------------------
(* karmarkar_karp of utils/seqlen_balancing.py: the largest differencing   *)
(* method, which splits items 1..Len(weight) into k sets of about the same *)
(* weight.  A State is k disjoint sets in decreasing order; a heap holds   *)
(* States, and the two with the largest spread are merged, the heaviest    *)
(* set of one with the lightest of the other, until one State is left.     *)
(* The order the code gives to sets that tie in weight and size is any     *)
(* order here.  Jobs follow one another.                                   *)
EXTENDS Integers, Sequences, FiniteSets
CONSTANT MaxItems      \* bound on the number of items of a job
VARIABLES weight,      \* seqlen_list
          k,           \* k_partitions
          equal,       \* equal_size
          heap         \* states_pq

ASSUME MaxItemsAssumption == MaxItems \in Nat

jobVars == <<weight, k, equal, heap>>
Items == 1..Len(weight)

\* Set.__lt__: by sum, then by number of items.
Heavier(a, b) == a.sum > b.sum \/ (a.sum = b.sum /\ Cardinality(a.items) > Cardinality(b.items))
Decreasing(s) == \A i, j \in DOMAIN s : i < j => ~Heavier(s[j], s[i])

Empty == [sum |-> 0, items |-> {}]
Single(w, x) == [sum |-> w[x], items |-> {x}]

\* sorted([(seqlen, i) ...]): the place of item x, by weight and then by index, and the item at a place.
Place(w, x) == Cardinality({y \in 1..Len(w) : w[y] < w[x] \/ (w[y] = w[x] /\ y <= x)})
At(w, p) == CHOOSE x \in 1..Len(w) : Place(w, x) = p

\* One State per item, or, for sets of equal size, one per group of n neighbours in the sorted list,
\* which the State holds in decreasing order.
States(w, n) == {[i \in 1..n |-> IF i = 1 THEN Single(w, x) ELSE Empty] : x \in 1..Len(w)}
Groups(w, n) == {[i \in 1..n |-> Single(w, At(w, g * n + 1 - i))] : g \in 1 .. Len(w) \div n}

\* mutant: the groups are left out, every item is a State of its own
StartJobUngrouped(w, n, e) == weight' = w /\ k' = n /\ equal' = e /\ heap' = States(w, n)

StartJob(w, n, e) == /\ weight' = w /\ k' = n /\ equal' = e
                     /\ heap' = IF e THEN Groups(w, n) ELSE States(w, n)

\* The ways to put n sets in a row.
Arrangements(n) == {o \in [1..n -> 1..n] : /\ \A x, y \in 1..n : o[x] = o[y] => x = y
                                           /\ \A z \in 1..n : \E x \in 1..n : o[x] = z}

\* State.__lt__: the largest spread first, then the largest first set.
Spread(s) == s[1].sum - s[k].sum
Earlier(s, t) == Spread(s) > Spread(t) \/ (Spread(s) = Spread(t) /\ Heavier(s[1], t[1]))
First(states) == {s \in states : \A t \in states : ~Earlier(t, s)}

\* mutant: set i takes in set i
UnionSameEnd(s, t, i) == [sum |-> s[i].sum + t[i].sum, items |-> s[i].items \cup t[i].items]

\* mutant: the items are taken in, their weight is not
UnionItemsOnly(s, t, i) == [sum |-> s[i].sum, items |-> s[i].items \cup t[k + 1 - i].items]

\* State.merge: set i of s takes in set k + 1 - i of t; the sets of the result are sorted again.
Union(s, t, i) == [sum |-> s[i].sum + t[k + 1 - i].sum, items |-> s[i].items \cup t[k + 1 - i].items]
Merged(s, t) == {m \in {[i \in 1..k |-> Union(s, t, o[i])] : o \in Arrangements(k)} : Decreasing(m)}

\* mutant: the second State stays in the heap
MergeKeeps == \E s \in First(heap) : \E t \in First(heap \ {s}) :
                \E m \in Merged(s, t) : heap' = (heap \ {s}) \cup {m} /\ UNCHANGED <<weight, k, equal>>

Merge == \E s \in First(heap) : \E t \in First(heap \ {s}) :
           \E m \in Merged(s, t) : heap' = (heap \ {s, t}) \cup {m} /\ UNCHANGED <<weight, k, equal>>

Partitioned == Cardinality(heap) = 1

\* What the callers ask for: the assertions on their arguments hold.
IsJob(w, n, e) == /\ w \in Seq(Nat) /\ Len(w) \in 1..MaxItems
                  /\ n \in 1..Len(w) /\ e \in BOOLEAN
                  /\ e => Len(w) % n = 0

KKInit == weight = <<>> /\ k = 1 /\ equal = FALSE /\ heap = {}
Start == IsJob(weight', k', equal') /\ StartJob(weight', k', equal')
KKNext == Merge \/ Start
KKSpec == KKInit /\ [][KKNext]_jobVars

-----------------------------------------------------------------------------
\* Properties

\* Every item is in a set, and no item is in two sets or two States.
EachItemOnce ==
  /\ \A x \in Items : \E s \in heap : \E i \in 1..k : x \in s[i].items
  /\ \A s, t \in heap : \A i, j \in 1..k : s[i].items \cap t[j].items # {} => s = t /\ i = j

EqualSizes == equal /\ Partitioned =>
  \A s \in heap : \A i \in 1..k : Cardinality(s[i].items) * k = Len(weight)
NoneEmpty == Partitioned => \A s \in heap : \A i \in 1..k : s[i].items # {}

\* What karmarkar_karp and get_seqlen_balanced_partitions assert of their result: the indices are
\* those of the list, the sizes are equal when that is asked for, and no partition is empty.
PartitionsSound == EachItemOnce /\ EqualSizes /\ NoneEmpty

\* The partitions differ by no more than the heaviest item, and when they are of equal size by no
\* more than the heaviest and the lightest item do: merging never makes the spread worse.
SpreadBounded ==
  \A s \in heap : \A i, j \in 1..k : \E x, y \in Items :
    IF equal THEN s[i].sum + weight[y] <= s[j].sum + weight[x] ELSE s[i].sum <= s[j].sum + weight[x]
==========================================================================
