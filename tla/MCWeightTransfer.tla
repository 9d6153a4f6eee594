------------------------ MODULE MCWeightTransfer ------------------------
EXTENDS WeightTransfer
\* Three buckets of two cells: two tensors, one that fills a bucket, and one that leaves room.
FourTensors == <<1, 1, 2, 1>>
=========================================================================
