------------------------- MODULE WeightTransfer -------------------------
(* CheckpointEngineManager.update_weights with the nccl and the nixl       *)
(* engines: rank 0 of the trainer sends the weights in buckets, the        *)
(* rollout ranks receive them, and each yields them to its IpcAdapter.     *)
(*                                                                         *)
(* nccl: a bucket's metadata is published on a PUB socket, which drops     *)
(* what it sends to a subscriber that has not connected yet, and the       *)
(* bucket is broadcast by all ranks together.                              *)
(* nixl: the ranks form a chain; a bucket is announced to the next rank,   *)
(* which reads it from this one's memory and notifies it.                  *)
(*                                                                         *)
(* Process 0 is the sending rank and 1..ranks are the rollout ranks.  An   *)
(* assertion that fails is a step that is not taken.                       *)
EXTENDS IpcAdapter, FiniteSets
CONSTANTS Rounds,        \* bound on the number of updates
          OtherTrainers  \* the trainer's ranks other than 0

ASSUME RoundsAssumption == Rounds \in Nat

VARIABLES backend,     \* "nccl" or "nixl"
          phase,       \* of the manager
          round,       \* updates begun; the version of the trainer's weights
          next,        \* the parameter the generator yields next at rank 0
          consuming,   \* other trainer ranks iterating over the generator
          engine,      \* per process, its engine
          inbox,       \* per process, metadata messages it has not read
          notes,       \* per process, notifications of reads of its memory
          subscribed,  \* ranks whose SUB socket is connected
          lost         \* ranks to which the PUB socket dropped a message

managerVars == <<ranks, replicaSize, backend, phase, round>>
linkVars == <<inbox, notes, subscribed, lost>>
vars == <<managerVars, next, consuming, engine, buffers, linkVars, adapterVars>>

Processes == 0..MaxRanks
NoMessage == [meta |-> <<>>, last |-> FALSE, buffer |-> 0, key |-> 0]

\* cur is the index of send_buf; in and out are the operations under way, got and sent their metadata.
NewEngine == [pc |-> "idle", cur |-> 0, meta |-> <<>>, last |-> FALSE, pos |-> 1,
              in |-> "none", got |-> NoMessage, out |-> "none", sent |-> NoMessage]

TransferInit ==
  /\ AdapterInit
  /\ backend \in {"nccl", "nixl"} /\ phase = "idle" /\ round = 0
  /\ next = 1 /\ consuming = {}
  /\ engine = [p \in Processes |-> NewEngine]
  /\ buffers = [p \in Processes |-> <<Zeroed, Zeroed>>]
  /\ inbox = [p \in Processes |-> <<>>] /\ notes = [p \in Processes |-> <<>>]
  /\ subscribed = {} /\ lost = {}

-----------------------------------------------------------------------------
\* The manager.  Each phase is a ray.get over all the processes.

\* prepare: two zeroed buffers on every process.
Prepare ==
  /\ phase = "idle" /\ round < Rounds
  /\ phase' = "prepared" /\ round' = round + 1 /\ next' = 1 /\ consuming' = {}
  /\ engine' = [p \in Processes |-> NewEngine]
  /\ buffers' = [p \in Processes |-> <<Zeroed, Zeroed>>]
  /\ adapter' = [r \in 1..MaxRanks |-> NewAdapter]
  /\ worker' = [r \in 1..MaxRanks |-> NewWorker]
  /\ UNCHANGED <<ranks, replicaSize, backend, linkVars>>

\* The length of metadata[-rollout_world_size + 1 :] + [None]: metadata[0:] is the whole list.
NextAgents == IF ranks = 1 THEN Cardinality(OtherTrainers) + 1 + ranks + 1 ELSE ranks
TopologyFits == backend = "nixl" => NextAgents = ranks

\* init_process_group: nccl's ranks get new SUB sockets, whose connection takes its own time.
BuildGroup ==
  /\ phase = "prepared" /\ TopologyFits
  /\ phase' = "transfer"
  /\ IF backend = "nccl" THEN subscribed' = {} /\ inbox' = [p \in Processes |-> <<>>]
                         ELSE UNCHANGED <<subscribed, inbox>>
  /\ UNCHANGED <<ranks, replicaSize, backend, round, next, consuming, engine, buffers, notes, lost, adapterVars>>

Connected(r) ==
  /\ backend = "nccl" /\ phase = "transfer" /\ r \in Ranks \ subscribed
  /\ subscribed' = subscribed \cup {r}
  /\ UNCHANGED <<managerVars, next, consuming, engine, buffers, inbox, notes, lost, adapterVars>>

\* Every update_weights returned, and finalize: the engines drop their buffers.
Finalize ==
  /\ phase = "transfer"
  /\ engine[0].pc = "done" /\ consuming = OtherTrainers
  /\ \A r \in Ranks : adapter[r].pc = "done"
  /\ phase' = "idle"
  /\ UNCHANGED <<ranks, replicaSize, backend, round, next, consuming, engine, buffers, linkVars, adapterVars>>

-----------------------------------------------------------------------------
\* Operations between engines.

\* Process p, its engine being e, announces a bucket held in e's buffer b.
\* nixl sends the metadata in the constructor; nccl leaves it to a thread.
HasNext(p) == p < ranks
Announced(e, meta, last, b) ==
  [e EXCEPT !.out = IF backend = "nixl" THEN "moving" ELSE "start",
            !.sent = [meta |-> meta, last |-> last, buffer |-> b, key |-> @.key + 1]]
Announce(p, message) ==
  /\ IF backend = "nixl" THEN inbox' = [inbox EXCEPT ![p + 1] = Append(@, message)] ELSE UNCHANGED inbox
  /\ UNCHANGED <<subscribed, lost>>

\* wait_for_complete on the operation that announced p's last bucket, if there is one.
Announces(p) == engine[p].out # "none"
Complete(p) == IF backend = "nixl" THEN notes[p] # <<>> /\ Head(notes[p]) = engine[p].sent.key
                                   ELSE engine[p].out = "done"
\* mutant: the previous operation is not awaited
NoWaitAnnounced(p) == notes' = IF Announces(p) /\ backend = "nixl" /\ notes[p] # <<>>
                               THEN [notes EXCEPT ![p] = Tail(@)] ELSE notes
WaitAnnounced(p) == /\ Announces(p) => Complete(p)
                    /\ notes' = IF Announces(p) /\ backend = "nixl" THEN [notes EXCEPT ![p] = Tail(@)] ELSE notes

\* BroadcastOperation._run at rank 0: publish, then enter the broadcast.
Publish ==
  /\ backend = "nccl" /\ engine[0].out = "start"
  /\ inbox' = [p \in Processes |-> IF p \in subscribed THEN Append(inbox[p], engine[0].sent) ELSE inbox[p]]
  /\ lost' = lost \cup (Ranks \ subscribed)
  /\ engine' = [engine EXCEPT ![0].out = "moving"]
  /\ UNCHANGED <<managerVars, next, consuming, buffers, notes, subscribed, adapterVars>>

\* The metadata arrives: recv_pyobj, or read_metadata and begin_read.
Receive(r) ==
  /\ engine[r].in = "start" /\ inbox[r] # <<>>
  /\ inbox' = [inbox EXCEPT ![r] = Tail(@)]
  /\ engine' = [engine EXCEPT ![r].in = "moving", ![r].got = Head(inbox[r])]
  /\ UNCHANGED <<managerVars, next, consuming, buffers, notes, subscribed, lost, adapterVars>>

SendBuf(p) == engine[p].cur + 1
RecvBuf(p) == 2 - engine[p].cur

\* collective.broadcast, when every rank has entered it.
Broadcast ==
  /\ backend = "nccl" /\ engine[0].out = "moving" /\ \A r \in Ranks : engine[r].in = "moving"
  /\ buffers' = [p \in Processes |->
       IF p \in Ranks THEN [buffers[p] EXCEPT ![RecvBuf(p)] = buffers[0][engine[0].sent.buffer]] ELSE buffers[p]]
  /\ engine' = [p \in Processes |->
       IF p = 0 THEN [engine[0] EXCEPT !.out = "done"]
       ELSE IF p \in Ranks THEN [engine[p] EXCEPT !.in = "done"] ELSE engine[p]]
  /\ UNCHANGED <<managerVars, next, consuming, linkVars, adapterVars>>

\* The read of the previous rank's buffer ends, and notifies that rank.
ReadDone(r) ==
  /\ backend = "nixl" /\ engine[r].in = "moving"
  /\ buffers' = [buffers EXCEPT ![r][RecvBuf(r)] = buffers[r - 1][engine[r].got.buffer]]
  /\ notes' = [notes EXCEPT ![r - 1] = Append(@, engine[r].got.key)]
  /\ engine' = [engine EXCEPT ![r].in = "done"]
  /\ UNCHANGED <<managerVars, next, consuming, inbox, subscribed, lost, adapterVars>>

-----------------------------------------------------------------------------
\* send_weights

SendBegin == /\ phase = "transfer" /\ engine[0].pc = "idle"
             /\ engine' = [engine EXCEPT ![0].pc = "send"]
             /\ UNCHANGED <<managerVars, next, consuming, buffers, linkVars, adapterVars>>

\* mutant: it returns at once
ConsumeNothing(t) == /\ phase = "transfer" /\ t \notin consuming
                     /\ UNCHANGED vars

\* A trainer rank other than 0 consumes the weights: gathering one needs every trainer rank.
Consume(t) == /\ phase = "transfer" /\ t \notin consuming
              /\ consuming' = consuming \cup {t}
              /\ UNCHANGED <<managerVars, next, engine, buffers, linkVars, adapterVars>>
Gathered(i) == engine[0].pc = "send" /\ i <= NumParams /\ consuming = OtherTrainers

Fill ==
  LET e == engine[0]
      meta == WithTensor(e.meta, next)
  IN /\ Gathered(next) /\ Fits(e.meta, next)
     /\ engine' = [engine EXCEPT ![0].meta = meta]
     /\ buffers' = [buffers EXCEPT ![0][SendBuf(0)] = Put(@, meta[Len(meta)], <<round, next>>)]
     /\ next' = next + 1
     /\ UNCHANGED <<managerVars, consuming, linkVars, adapterVars>>

\* mutant: the buffers are not swapped
FlushSameBuffer ==
  LET e == Announced(engine[0], engine[0].meta, FALSE, SendBuf(0))
  IN /\ Gathered(next) /\ ~Fits(engine[0].meta, next)
     /\ WaitAnnounced(0)
     /\ Announce(0, e.sent)
     /\ engine' = [engine EXCEPT ![0] = [e EXCEPT !.meta = <<>>]]
     /\ UNCHANGED <<managerVars, next, consuming, buffers, adapterVars>>

\* The bucket is full: wait for the previous one, announce this one, go on in the other buffer.
Flush ==
  LET e == Announced(engine[0], engine[0].meta, FALSE, SendBuf(0))
  IN /\ Gathered(next) /\ ~Fits(engine[0].meta, next)
     /\ WaitAnnounced(0)
     /\ Announce(0, e.sent)
     /\ engine' = [engine EXCEPT ![0] = [e EXCEPT !.cur = 1 - @, !.meta = <<>>]]
     /\ UNCHANGED <<managerVars, next, consuming, buffers, adapterVars>>

SendLast ==
  LET e == Announced(engine[0], engine[0].meta, TRUE, SendBuf(0))
  IN /\ engine[0].pc = "send" /\ next > NumParams
     /\ WaitAnnounced(0)
     /\ Announce(0, e.sent)
     /\ engine' = [engine EXCEPT ![0] = [e EXCEPT !.pc = "closing"]]
     /\ UNCHANGED <<managerVars, next, consuming, buffers, adapterVars>>

SendDone == /\ engine[0].pc = "closing" /\ WaitAnnounced(0)
            /\ engine' = [engine EXCEPT ![0].pc = "done", ![0].out = "none"]
            /\ UNCHANGED <<managerVars, next, consuming, buffers, inbox, subscribed, lost, adapterVars>>

-----------------------------------------------------------------------------
\* receive_weights, driven by the adapter that iterates over it

Begin(r) == /\ phase = "transfer" /\ AdapterBegin(r)
            /\ UNCHANGED <<managerVars, next, consuming, engine, buffers, linkVars>>

\* The first iteration: receive the first bucket.
First(r) == /\ Attach(r)
            /\ engine' = [engine EXCEPT ![r].pc = "first", ![r].in = "start"]
            /\ UNCHANGED <<managerVars, next, consuming, buffers, linkVars>>

\* mutant: no synchronize() before the swap
MaySwapUnsynchronized(r) ==
  /\ engine[r].in = "done"
  /\ \/ engine[r].pc = "first"
     \/ engine[r].pc = "loop" /\ engine[r].pos > Len(engine[r].meta)

\* Everything the loop awaits before it swaps the buffers.
MaySwap(r) ==
  /\ engine[r].in = "done"
  /\ \/ engine[r].pc = "first"
     \/ engine[r].pc = "loop" /\ engine[r].pos > Len(engine[r].meta) /\ Synchronized(r)

\* Swap, announce the bucket to the next rank (nixl), and begin to receive another unless it was the last.
Swap(r) ==
  LET got == engine[r].got
      e == [engine[r] EXCEPT !.cur = 1 - @, !.meta = got.meta, !.last = got.last, !.pos = 1,
                             !.pc = IF got.last THEN "tail" ELSE "loop",
                             !.in = IF got.last THEN "none" ELSE "start"]
      forwards == backend = "nixl" /\ HasNext(r)
      f == IF forwards THEN Announced(e, got.meta, got.last, e.cur + 1) ELSE e
  IN /\ MaySwap(r) /\ WaitAnnounced(r)
     /\ engine' = [engine EXCEPT ![r] = f]
     /\ IF forwards THEN Announce(r, f.sent) ELSE UNCHANGED <<inbox, subscribed, lost>>
     /\ UNCHANGED <<managerVars, next, consuming, buffers, adapterVars>>

\* nixl yields the tensors of a bucket only after it has begun to read the next.
MayYield(r) == /\ engine[r].pc \in {"loop", "tail"} /\ engine[r].pos <= Len(engine[r].meta)
               /\ (backend = "nixl" /\ engine[r].pc = "loop") => engine[r].in # "start"
NextTensor(r) == engine[r].meta[engine[r].pos]

\* mutant: the tensor is a view of the other buffer
YieldOther(r) == /\ MayYield(r) /\ TakeTensor(r, RecvBuf(r), NextTensor(r))
                 /\ engine' = [engine EXCEPT ![r].pos = @ + 1]
                 /\ UNCHANGED <<managerVars, next, consuming, buffers, linkVars>>
Yield(r) == /\ MayYield(r) /\ TakeTensor(r, SendBuf(r), NextTensor(r))
            /\ engine' = [engine EXCEPT ![r].pos = @ + 1]
            /\ UNCHANGED <<managerVars, next, consuming, buffers, linkVars>>
Exhausted(r) == /\ engine[r].pc = "tail" /\ engine[r].pos > Len(engine[r].meta) /\ WaitAnnounced(r)
                /\ engine' = [engine EXCEPT ![r].pc = "done", ![r].out = "none"]
                /\ UNCHANGED <<managerVars, next, consuming, buffers, inbox, subscribed, lost, adapterVars>>

AdapterStep(r) == /\ \/ MayYield(r) /\ SendBucket(r, NextTensor(r))
                     \/ engine[r].pc = "done" /\ Request(r, TRUE)
                     \/ CopyRuns(r) \/ CloneAndReply(r) \/ LoadWeights(r) \/ AdapterDone(r)
                  /\ UNCHANGED <<managerVars, next, consuming, engine, buffers, linkVars>>

-----------------------------------------------------------------------------
ManagerNext == Prepare \/ BuildGroup \/ Finalize
SenderNext == SendBegin \/ Fill \/ Flush \/ SendLast \/ SendDone \/ Publish
              \/ \E t \in OtherTrainers : Consume(t)
RankNext(r) == Begin(r) \/ First(r) \/ Swap(r) \/ Yield(r) \/ Exhausted(r) \/ AdapterStep(r)
               \/ Connected(r) \/ Receive(r) \/ ReadDone(r)

TransferNext == ManagerNext \/ SenderNext \/ Broadcast \/ \E r \in Ranks : RankNext(r)
TransferSpec == TransferInit /\ [][TransferNext]_vars
FairTransfer == TransferSpec /\ WF_vars(TransferNext)

-----------------------------------------------------------------------------
\* Properties

Message == [meta : Seq([param : 1..NumParams, offset : Cells]), last : BOOLEAN, buffer : 0..2, key : Nat]

\* Types; a metadata message waits only for a rank that takes part, and a rank in the chain has at
\* most one unread announcement and one unread notification: neither socket ever queues a second.
TransferTypeOK ==
  /\ phase \in {"idle", "prepared", "transfer"} /\ round \in 0..Rounds /\ next \in 1 .. NumParams + 1
  /\ \A p \in Processes :
       /\ engine[p].pc \in {"idle", "send", "closing", "first", "loop", "tail", "done"}
       /\ engine[p].cur \in {0, 1} /\ engine[p].got \in Message /\ engine[p].sent \in Message
       /\ buffers[p] \in Seq([Cells -> (0..Rounds) \X (0..NumParams)])
       /\ Len(inbox[p]) <= IF p \in Ranks THEN 1 ELSE 0
       /\ Len(notes[p]) <= 1

\* A bucket that was announced (BroadcastOperation, ReadableOperation) and that a receiver may still
\* copy holds what its metadata says, the trainer's current weights, although its owner goes on
\* filling the other buffer or receiving into it.
AnnouncedIntact ==
  \A p \in Processes : engine[p].out \in {"start", "moving"} =>
    LET sent == engine[p].sent
    IN \A k \in 1..Len(sent.meta) :
         Values(buffers[p][sent.buffer], sent.meta[k]) = {<<round, sent.meta[k].param>>}

\* The update of the weights does what it promises: every vLLM worker loads every tensor of this
\* version once, in order and unmixed, and the manager ends the update after the last worker has
\* loaded its last bucket.
Delivery == INSTANCE WeightDelivery WITH
  version <- round, open <- phase # "idle", held <- [r \in 1..MaxRanks |-> worker[r].loaded]
ImplementsDelivery == Delivery!DeliverySpec

\* Every update ends, unless nccl's first message was published before a rank's subscription
\* reached the publisher, or nixl was given a single rollout rank, which its topology refuses.
EndsUnlessLost ==
  (backend = "nixl" => ranks > 1) => <>(lost # {} \/ (round = Rounds /\ phase = "idle"))
==========================================================================
