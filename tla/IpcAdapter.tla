--------------------------- MODULE IpcAdapter ---------------------------
(* The last stage of an update on a rollout rank: ServerAdapter, in the    *)
(* process of the checkpoint engine, copies the tensors the engine yields  *)
(* into one buffer it shares with vLLM's worker process, and asks the      *)
(* worker, over a REQ/REP socket, to load each full buffer.  The copies    *)
(* are non-blocking: the device performs them later, in order.             *)
EXTENDS TensorBuckets
CONSTANT MaxRanks       \* bound on the number of rollout ranks

ASSUME RanksAssumption == MaxRanks \in Nat \ {0}

VARIABLES ranks,        \* rollout.world_size
          replicaSize,  \* ranks per replica (tensor parallelism)
          buffers,      \* per process of an engine, its two buffers
          adapter,      \* per rank: pc, bucket_meta, pending copies, shared buffer
          worker        \* per rank, vLLM's worker: pc, clones, what it loaded

adapterVars == <<adapter, worker>>
Ranks == 1..ranks
Replica(r) == {q \in Ranks : (q - 1) \div replicaSize = (r - 1) \div replicaSize}
Leader(r) == (r - 1) % replicaSize = 0                    \* rollout_rank == 0

NewAdapter == [pc |-> "idle", meta |-> <<>>, copies |-> <<>>, shared |-> Zeroed]
NewWorker == [pc |-> "off", last |-> FALSE, clones |-> <<>>, loaded |-> <<>>]

AdapterInit == /\ ranks \in 1..MaxRanks
               /\ replicaSize \in {d \in 1..ranks : ranks % d = 0}
               /\ adapter = [r \in 1..MaxRanks |-> NewAdapter]
               /\ worker = [r \in 1..MaxRanks |-> NewWorker]

\* update_weights begins; the first rank of a replica calls update_weights_from_ipc on all its workers.
AdapterBegin(r) ==
  /\ adapter[r].pc = "idle"
  /\ adapter' = [adapter EXCEPT ![r].pc = "attach"]
  /\ worker' = IF Leader(r)
               THEN [q \in 1..MaxRanks |-> IF q \in Replica(r) THEN [worker[q] EXCEPT !.pc = "called"]
                                                              ELSE worker[q]]
               ELSE worker

\* The worker has mapped the shared buffer and answered; the adapter starts to take tensors.
Attach(r) == /\ adapter[r].pc = "attach" /\ worker[r].pc = "called"
             /\ adapter' = [adapter EXCEPT ![r].pc = "fill"]
             /\ worker' = [worker EXCEPT ![r].pc = "waiting"]

\* A tensor, entry e of the engine's buffer b, is put in the bucket: its copy is queued.
TakeTensor(r, b, e) ==
  LET a == adapter[r]
      meta == WithTensor(a.meta, e.param)
  IN /\ a.pc = "fill" /\ Fits(a.meta, e.param)
     /\ adapter' = [adapter EXCEPT ![r].meta = meta,
                                   ![r].copies = Append(@, [buffer |-> b, from |-> e, to |-> meta[Len(meta)]])]
     /\ UNCHANGED worker

CopyRuns(r) ==
  /\ adapter[r].copies # <<>>
  /\ LET c == Head(adapter[r].copies)
     IN adapter' = [adapter EXCEPT ![r].copies = Tail(@),
                                   ![r].shared = Copied(@, c.to, buffers[r][c.buffer], c.from)]
  /\ UNCHANGED worker

\* torch.cuda.synchronize(): every copy queued by this process has run.
Synchronized(r) == adapter[r].copies = <<>>

\* mutant: no synchronize() before the bucket is sent
RequestUnsynchronized(r, last) ==
  /\ adapter[r].pc = "fill"
  /\ adapter' = [adapter EXCEPT ![r].pc = IF last THEN "lastReply" ELSE "reply"]
  /\ UNCHANGED worker

\* synchronize(); send_pyobj; recv: the request is in the socket until the worker takes it.
Request(r, last) ==
  /\ adapter[r].pc = "fill" /\ Synchronized(r)
  /\ adapter' = [adapter EXCEPT ![r].pc = IF last THEN "lastReply" ELSE "reply"]
  /\ UNCHANGED worker

\* The tensor that comes next does not fit: the bucket goes to the worker first.
SendBucket(r, e) == ~Fits(adapter[r].meta, e.param) /\ Request(r, FALSE)

\* The worker clones the tensors, synchronizes and replies; the adapter starts an empty bucket.
CloneAndReply(r) ==
  /\ worker[r].pc = "waiting" /\ adapter[r].pc \in {"reply", "lastReply"}
  /\ LET meta == adapter[r].meta
     IN worker' = [worker EXCEPT ![r].pc = "load", ![r].last = adapter[r].pc = "lastReply",
                     ![r].clones = [k \in 1..Len(meta) |->
                        [param |-> meta[k].param, values |-> Values(adapter[r].shared, meta[k])]]]
  /\ adapter' = [adapter EXCEPT ![r].pc = IF @ = "lastReply" THEN "future" ELSE "fill", ![r].meta = <<>>]

LoadWeights(r) ==
  /\ worker[r].pc = "load"
  /\ worker' = [worker EXCEPT ![r].pc = IF worker[r].last THEN "loaded" ELSE "waiting",
                              ![r].loaded = @ \o worker[r].clones, ![r].clones = <<>>]
  /\ UNCHANGED adapter

\* mutant: the future is not awaited
FutureNotAwaited(r) == TRUE

\* Only the first rank of a replica holds the future of the call, which ends with its last worker.
FutureDone(r) == Leader(r) => \A q \in Replica(r) : worker[q].pc = "loaded"
AdapterDone(r) == /\ adapter[r].pc = "future" /\ FutureDone(r)
                  /\ adapter' = [adapter EXCEPT ![r].pc = "done"]
                  /\ UNCHANGED worker
==========================================================================
