-------------------------- MODULE TensorBuckets --------------------------
(* Weights are moved in buckets: byte buffers of bucket_size, filled with  *)
(* tensors one after the other, and described by a dictionary that gives   *)
(* each tensor's name and offset.  Bytes are cells here; a cell holds the  *)
(* version and the parameter it was written for.                           *)
EXTENDS Integers, Sequences
CONSTANTS Sizes,        \* the parameters' sizes, in the order the generator yields them
          BucketSize    \* bucket_size = update_weights_bucket_megabytes << 20

ASSUME BucketsAssumption ==
  /\ BucketSize \in Nat \ {0}
  /\ Sizes \in Seq(1..BucketSize)

NumParams == Len(Sizes)
Cells == 0 .. BucketSize - 1
Zeroed == [c \in Cells |-> <<0, 0>>]

\* bucket_meta: a dictionary in insertion order, here a sequence of entries.
Used(meta) == IF meta = <<>> THEN 0
              ELSE meta[Len(meta)].offset + Sizes[meta[Len(meta)].param]
Fits(meta, i) == Used(meta) + Sizes[i] <= BucketSize
WithTensor(meta, i) == Append(meta, [param |-> i, offset |-> Used(meta)])

Span(e) == e.offset .. e.offset + Sizes[e.param] - 1
Values(buffer, e) == {buffer[c] : c \in Span(e)}
\* buffer[offset : offset + nbytes] = weight
Put(buffer, e, value) == [c \in Cells |-> IF c \in Span(e) THEN value ELSE buffer[c]]
\* target[to] = source[from], cell by cell.
Copied(target, to, source, from) ==
  [c \in Cells |-> IF c \in Span(to) THEN source[c - to.offset + from.offset] ELSE target[c]]
==========================================================================
