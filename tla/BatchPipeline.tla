-------------------------- MODULE BatchPipeline --------------------------
(* The way of a batch through a forward pass of the actor workers: the     *)
(* trainer reorders it so that each data-parallel rank gets about the same *)
(* load, the dispatch cuts it into equal chunks, each rank regroups its    *)
(* chunk into micro-batches by token count and computes them, and puts the *)
(* outputs back in the order of its chunk; the chunks are concatenated and *)
(* united, row by row, with the batch.  Both partitions are made by        *)
(* KarmarkarKarp; those of different ranks do not interact and are made    *)
(* one after the other here.  A forward of the sharded model is collective:*)
(* no rank finishes one that the others do not take part in.               *)
EXTENDS KarmarkarKarp, SequencesExt
CONSTANTS Dp,           \* data-parallel ranks
          MaxLen,       \* bound on the tokens of a row
          MaxTokenLen   \* max_token_len: what a micro-batch should hold

ASSUME PipelineAssumption ==
  /\ Dp \in 1..MaxItems /\ MaxItems % Dp = 0
  /\ MaxLen \in Nat \ {0} /\ MaxTokenLen \in Nat /\ MaxTokenLen >= MaxLen

VARIABLES lengths,    \* tokens of each row: attention_mask.sum(-1)
          balance,    \* trainer.balance_batch
          order,      \* the batch: its rows, in order
          stage,
          rank,       \* the rank that makes its micro-batches
          counts,     \* per rank, num_micro_batches
          micro,      \* per rank, micro_bsz_idx
          outputs,    \* per rank, the rows computed, in order
          result      \* the collected output

batchVars == <<lengths, balance>>
pipelineVars == <<batchVars, order, stage, rank, counts, micro, outputs, result, jobVars>>

Rows == 1..MaxItems
Ranks == 1..Dp
ChunkSize == MaxItems \div Dp
\* chunk: rank r's rows.
Chunk(r) == SubSeq(order, (r - 1) * ChunkSize + 1, r * ChunkSize)
ChunkLengths(r) == [i \in 1..ChunkSize |-> lengths[Chunk(r)[i]]]

Workload(n) == 24576 * n + n * n
Workloads(lens) == [i \in 1..Len(lens) |-> Workload(lens[i])]
Total(lens) == FoldSeq(+, 0, lens)
CeilDiv(a, b) == (a + b - 1) \div b

\* s[::2], s[1::2]
Evens(s) == [i \in 1 .. CeilDiv(Len(s), 2) |-> s[2 * i - 1]]
Odds(s) == [i \in 1 .. Len(s) \div 2 |-> s[2 * i]]

PipelineInit ==
  /\ lengths \in [Rows -> 1..MaxLen] /\ balance \in BOOLEAN
  /\ order = [i \in Rows |-> i] /\ stage = "received" /\ rank = 1
  /\ counts = [r \in Ranks |-> 0]
  /\ micro = [r \in Ranks |-> <<>>] /\ outputs = [r \in Ranks |-> <<>>]
  /\ result = <<>>
  /\ KKInit

-----------------------------------------------------------------------------
\* _balance_batch

Balance == /\ stage = "received" /\ balance
           /\ StartJob(Workloads(lengths), Dp, TRUE)
           /\ stage' = "balancing"
           /\ UNCHANGED <<batchVars, order, rank, counts, micro, outputs, result>>

LeaveAsIs == /\ stage = "received" /\ ~balance
             /\ stage' = "dispatched"
             /\ UNCHANGED <<batchVars, order, rank, counts, micro, outputs, result, jobVars>>

\* list.sort, given the elements that come before each: as many are ahead of it as stand before it.
SortBy(S, ahead) == [p \in 1..Cardinality(S) |-> CHOOSE x \in S : Cardinality(ahead[x]) = p - 1]
LightAhead(items) ==
  [x \in items |-> {y \in items : weight[y] < weight[x] \/ (weight[y] = weight[x] /\ y < x)}]

\* mutant: s[::2] twice
EndsLightEvens(items) ==
  LET p == SortBy(items, LightAhead(items)) IN Evens(p) \o Reverse(Evens(p))

\* Within a partition, the rows by load, the heavy ones in the middle.
EndsLight(items) ==
  LET p == SortBy(items, LightAhead(items)) IN Evens(p) \o Reverse(Odds(p))

\* reorder: the whole batch, tensors and the rest.
Reorder == /\ stage = "balancing" /\ Partitioned
           /\ \E s \in heap : order' = FlattenSeq([i \in 1..k |-> EndsLight(s[i].items)])
           /\ stage' = "dispatched"
           /\ UNCHANGED <<batchVars, rank, counts, micro, outputs, result, jobVars>>

-----------------------------------------------------------------------------
\* rearrange_micro_batches on every rank

LocalCount(r) == LET needed == CeilDiv(Total(ChunkLengths(r)), MaxTokenLen)
                 IN IF needed < ChunkSize THEN needed ELSE ChunkSize

\* all_reduce(MAX): every rank makes as many micro-batches as the one that needs most.
AllReduceMax(local) == CHOOSE n \in {local[r] : r \in Ranks} : \A r \in Ranks : local[r] <= n

\* mutant: each rank keeps its own number
AgreedNot(local, r) == local[r]

\* mutant: the numbers are added up
AgreedSum(local, r) == FoldFunction(+, 0, local)

Agreed(local, r) == AllReduceMax(local)

Count == /\ stage = "dispatched"
         /\ LET local == [r \in Ranks |-> LocalCount(r)]
            IN counts' = [r \in Ranks |-> Agreed(local, r)]
         /\ stage' = "counted"
         /\ UNCHANGED <<batchVars, order, rank, micro, outputs, result, jobVars>>

Split == /\ stage = "counted"
         /\ StartJob(Workloads(ChunkLengths(rank)), counts[rank], FALSE)
         /\ stage' = "splitting"
         /\ UNCHANGED <<batchVars, order, rank, counts, micro, outputs, result>>

\* The micro-batches by load, the light ones at both ends; each holds its rows in order.
Load(items) == FoldFunctionOnSet(+, 0, weight, items)
Ascending(items) == SortBy(items, [x \in items |-> {y \in items : y < x}])
HeavyAhead(s) ==
  [i \in 1..k |-> {j \in 1..k : \/ Load(s[j].items) > Load(s[i].items)
                                \/ /\ Load(s[j].items) = Load(s[i].items)
                                   /\ Ascending(s[j].items)[1] > Ascending(s[i].items)[1]}]
MicroBatches(s) ==
  LET p == SortBy(1..k, HeavyAhead(s))
      front == Reverse(Evens(p)) \o Odds(p)
  IN [n \in 1..k |-> Ascending(s[front[n]].items)]

SplitDone == /\ stage = "splitting" /\ Partitioned
             /\ \E s \in heap : micro' = [micro EXCEPT ![rank] = MicroBatches(s)]
             /\ rank' = IF rank = Dp THEN 1 ELSE rank + 1
             /\ stage' = IF rank = Dp THEN "computing" ELSE "counted"
             /\ UNCHANGED <<batchVars, order, counts, outputs, result, jobVars>>

-----------------------------------------------------------------------------
\* compute_log_prob: one forward per micro-batch, all ranks together

Rest(r) == SubSeq(micro[r], Len(outputs[r]) + 1, Len(micro[r]))
RowsOf(r, p) == [i \in 1..Len(p) |-> Chunk(r)[p[i]]]

Forward == /\ stage = "computing" /\ \A r \in Ranks : Rest(r) # <<>>
           /\ outputs' = [r \in Ranks |-> Append(outputs[r], RowsOf(r, Head(Rest(r))))]
           /\ UNCHANGED <<batchVars, order, stage, rank, counts, micro, result, jobVars>>

\* mutant: the indices themselves are used, not their inverse
RestoreForward(indices, computed) == [i \in 1..Len(indices) |-> computed[indices[i]]]

\* restore_dynamic_batch: output number i of the chunk is where i stands in the list of indices.
Restore(indices, computed) ==
  LET reverse == [i \in 1..Len(indices) |-> CHOOSE at \in 1..Len(indices) : indices[at] = i]
  IN [i \in 1..Len(indices) |-> computed[reverse[i]]]

Collect == /\ stage = "computing" /\ \A r \in Ranks : Rest(r) = <<>>
           /\ result' = FlattenSeq([r \in Ranks |-> Restore(FlattenSeq(micro[r]), FlattenSeq(outputs[r]))])
           /\ stage' = "collected"
           /\ UNCHANGED <<batchVars, order, rank, counts, micro, outputs, jobVars>>

Partition == /\ Merge
             /\ UNCHANGED <<batchVars, order, stage, rank, counts, micro, outputs, result>>

PipelineNext == Balance \/ LeaveAsIs \/ Reorder \/ Count \/ Split \/ SplitDone \/ Partition \/ Forward \/ Collect
PipelineSpec == PipelineInit /\ [][PipelineNext]_pipelineVars
FairPipeline == PipelineSpec /\ WF_pipelineVars(PipelineNext)

-----------------------------------------------------------------------------
\* Properties

\* Types; the batch always holds every row once, and the sums by which sets are compared are the
\* sums of their items (Set.add, Set.merge).
SumsAreTrue == \A s \in heap : \A i \in 1..k : s[i].sum = Load(s[i].items)
PipelineTypeOK ==
  /\ SumsAreTrue
  /\ lengths \in [Rows -> 1..MaxLen] /\ balance \in BOOLEAN
  /\ stage \in {"received", "balancing", "dispatched", "counted", "splitting", "computing", "collected"}
  /\ rank \in Ranks /\ counts \in [Ranks -> 0..ChunkSize]
  /\ order \in [Rows -> Rows] /\ IsInjective(order)

\* union puts the outputs next to the rows they were computed from, through two reorderings, the
\* chunks, the micro-batches and their inverse.
RowsMeetTheirOutputs == stage = "collected" => result = order

\* The ranks never wait for one another for ever: they agree on the number of forward passes.
Finishes == <>(stage = "collected")

\* Every partition asked for is a job karmarkar_karp accepts, and is made as it prescribes.
PartitionsAsPrescribed == KKSpec
==========================================================================
