------------------------- MODULE WeightDelivery -------------------------
(* What an update of the rollout weights promises: between its beginning   *)
(* and its end every rollout rank loads every parameter of the trainer's   *)
(* current version once, whole and in order, and loads nothing outside of  *)
(* an update.                                                              *)
EXTENDS Naturals, Sequences
CONSTANTS NumParams, MaxRanks
VARIABLES version,   \* the version the trainer sends
          open,      \* an update is going on
          ranks,     \* how many rollout ranks there are
          held       \* per rank, what it loaded in this update

\* The first k parameters at a version: each is loaded with the one value the trainer has.
Prefix(v, k) == [i \in 1..k |-> [param |-> i, values |-> {<<v, i>>}]]

DeliveryInit == /\ version = 0 /\ ~open
                /\ ranks \in 1..MaxRanks
                /\ held = [r \in 1..MaxRanks |-> <<>>]

BeginUpdate == /\ ~open /\ open'
               /\ version' = version + 1
               /\ held' = [r \in 1..MaxRanks |-> <<>>]
               /\ UNCHANGED ranks

Deliver(r) == /\ open
              /\ Len(held[r]) < Len(held'[r])
              /\ held'[r] = Prefix(version, Len(held'[r]))
              /\ \A q \in 1..MaxRanks \ {r} : held'[q] = held[q]
              /\ UNCHANGED <<version, open, ranks>>

FinishUpdate == /\ open /\ ~open'
                /\ \A r \in 1..ranks : held[r] = Prefix(version, NumParams)
                /\ UNCHANGED <<version, ranks, held>>

DeliveryNext == BeginUpdate \/ FinishUpdate \/ \E r \in 1..MaxRanks : Deliver(r)

DeliverySpec == DeliveryInit /\ [][DeliveryNext]_<<version, open, ranks, held>>
==========================================================================
