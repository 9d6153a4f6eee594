------------------------- MODULE WeightTransferProofs -------------------------
(***************************************************************************)
(* What an update of the weights promises, with either engine, for any     *)
(* number of rollout ranks, parameters and sizes: a bucket that was        *)
(* announced stays as it is while it may be copied, every worker loads     *)
(* every parameter of the version once, in order and whole, and somebody   *)
(* can go on until the last update has ended.                              *)
(***************************************************************************)
EXTENDS WeightTransfer, SequenceTheorems, WellFoundedInduction, NaturalsInduction, TLAPS

-----------------------------------------------------------------------------
(* Buckets *)

Params == 1..NumParams
Tensors == {t \in [param : Params, offset : Cells] : t.offset + Sizes[t.param] <= BucketSize}
Pairs == (0..Rounds) \X (0..NumParams)
Contents == [Cells -> Pairs]

\* meta describes the parameters from a on, without gap, and no two share a cell.
Covers(meta, a) ==
    /\ \A k \in 1..Len(meta) : meta[k].param = a + k - 1
    /\ \A j, k \in 1..Len(meta) : j < k => meta[j].offset + Sizes[meta[j].param] <= meta[k].offset

\* The buffer holds what version v of entry t's parameter is.
Holding(buffer, t, v) == Values(buffer, t) = {<<v, t.param>>}
Intact(buffer, meta, v) == \A k \in 1..Len(meta) : Holding(buffer, meta[k], v)

LEMMA SizesAre ==
    /\ NumParams \in Nat /\ BucketSize \in Nat \ {0}
    /\ \A i \in Params : Sizes[i] \in 1..BucketSize
BY BucketsAssumption DEF NumParams, Params

LEMMA TensorsAre ==
    ASSUME NEW t \in Tensors
    PROVE  /\ t.param \in Params /\ t.offset \in Nat /\ Sizes[t.param] \in 1..BucketSize
           /\ t.offset + Sizes[t.param] <= BucketSize
           /\ Span(t) \subseteq Cells /\ t.offset \in Span(t)
BY SizesAre DEF Tensors, Span, Cells

LEMMA IntervalsApart ==
    ASSUME NEW x \in Nat, NEW l \in Nat, NEW y \in Nat, NEW m \in Nat, x + l <= y
    PROVE  \A c \in x .. x + l - 1 : c \notin y .. y + m - 1
OBVIOUS

LEMMA Apart ==
    ASSUME NEW t \in Tensors, NEW u \in Tensors, t.offset + Sizes[t.param] <= u.offset
    PROVE  \A c \in Span(t) : c \notin Span(u)
<1>1. t.offset \in Nat /\ Sizes[t.param] \in Nat /\ u.offset \in Nat /\ Sizes[u.param] \in Nat
  BY TensorsAre, SizesAre
<1> QED
  BY <1>1, IntervalsApart, Zenon DEF Span

LEMMA HoldingCells ==
    ASSUME NEW t \in Tensors, NEW buffer, NEW v
    PROVE  Holding(buffer, t, v) <=> \A c \in Span(t) : buffer[c] = <<v, t.param>>
<1>1. t.offset \in Span(t)
  BY TensorsAre
<1> QED
  BY <1>1, Zenon DEF Holding, Values

\* Adding a tensor that fits to a bucket.
LEMMA AddsTensor ==
    ASSUME NEW meta \in Seq(Tensors), NEW i \in Params, Fits(meta, i)
    PROVE  LET m == WithTensor(meta, i)
               t == [param |-> i, offset |-> Used(meta)]
           IN /\ m \in Seq(Tensors) /\ t \in Tensors
              /\ Len(m) = Len(meta) + 1 /\ m[Len(m)] = t
              /\ \A k \in 1..Len(meta) : m[k] = meta[k]
<1> DEFINE t == [param |-> i, offset |-> Used(meta)]
<1>1. Used(meta) \in Nat
  <2>1. CASE meta = <<>>
    BY <2>1 DEF Used
  <2>2. CASE meta # <<>>
    <3>1. meta[Len(meta)] \in Tensors
      BY <2>2
    <3> QED
      BY <2>2, <3>1, TensorsAre DEF Used
  <2> QED
    BY <2>1, <2>2
<1>2. t \in Tensors
  BY <1>1, SizesAre DEF Tensors, Fits, Cells
<1> QED
  BY <1>2 DEF WithTensor

LEMMA AddCovers ==
    ASSUME NEW meta \in Seq(Tensors), NEW a \in Nat \ {0}, Covers(meta, a),
           NEW i \in Params, i = a + Len(meta), Fits(meta, i)
    PROVE  /\ Covers(WithTensor(meta, i), a)
           /\ \A k \in 1..Len(meta) : meta[k].offset + Sizes[meta[k].param] <= Used(meta)
<1> DEFINE m == WithTensor(meta, i)
           t == [param |-> i, offset |-> Used(meta)]
<1>1. /\ m \in Seq(Tensors) /\ t \in Tensors
      /\ Len(m) = Len(meta) + 1 /\ m[Len(m)] = t
      /\ \A k \in 1..Len(meta) : m[k] = meta[k]
  BY AddsTensor
<1>2. \A k \in 1..Len(meta) : meta[k].offset + Sizes[meta[k].param] <= Used(meta)
  <2> SUFFICES ASSUME NEW k \in 1..Len(meta)
               PROVE  meta[k].offset + Sizes[meta[k].param] <= Used(meta)
    OBVIOUS
  <2>1. meta[k] \in Tensors /\ meta[Len(meta)] \in Tensors /\ Len(meta) \in 1..Len(meta) /\ meta # <<>>
    OBVIOUS
  <2>2. Used(meta) = meta[Len(meta)].offset + Sizes[meta[Len(meta)].param]
    BY <2>1 DEF Used
  <2>3. meta[k].offset \in Nat /\ Sizes[meta[k].param] \in Nat
    BY <2>1, TensorsAre, SizesAre
  <2>4. CASE k = Len(meta)
    BY <2>2, <2>4, <2>3
  <2>5. CASE k < Len(meta)
    <3>1. meta[k].offset + Sizes[meta[k].param] <= meta[Len(meta)].offset
      BY <2>1, <2>5 DEF Covers
    <3> QED
      BY <2>1, <2>2, <3>1, TensorsAre
  <2> QED
    BY <2>4, <2>5
<1>3. \A k \in 1..Len(m) : m[k].param = a + k - 1
  <2> SUFFICES ASSUME NEW k \in 1..Len(m)
               PROVE  m[k].param = a + k - 1
    OBVIOUS
  <2>1. CASE k = Len(m)
    BY <1>1, <2>1
  <2>2. CASE k \in 1..Len(meta)
    BY <1>1, <2>2 DEF Covers
  <2> QED
    BY <1>1, <2>1, <2>2
<1>4. ASSUME NEW j \in 1..Len(m), NEW k \in 1..Len(m), j < k
      PROVE  m[j].offset + Sizes[m[j].param] <= m[k].offset
  <2>1. j \in 1..Len(meta) /\ m[j] = meta[j]
    BY <1>1, <1>4
  <2>2. CASE k = Len(m)
    BY <1>1, <1>2, <2>1, <2>2
  <2>3. CASE k \in 1..Len(meta)
    BY <1>1, <1>4, <2>1, <2>3 DEF Covers
  <2> QED
    BY <1>1, <2>2, <2>3
<1> QED
  BY <1>2, <1>3, <1>4 DEF Covers

\* Writing a tensor that fits leaves the others of its bucket as they are.
LEMMA PutIntact ==
    ASSUME NEW meta \in Seq(Tensors), NEW a \in Nat \ {0}, Covers(meta, a), NEW i \in Params,
           i = a + Len(meta), Fits(meta, i), NEW buffer \in Contents, NEW v, Intact(buffer, meta, v)
    PROVE  LET m == WithTensor(meta, i)
           IN Intact(Put(buffer, m[Len(m)], <<v, i>>), m, v)
<1> DEFINE m == WithTensor(meta, i)
           t == [param |-> i, offset |-> Used(meta)]
           b == Put(buffer, t, <<v, i>>)
<1>1. /\ m \in Seq(Tensors) /\ t \in Tensors
      /\ Len(m) = Len(meta) + 1 /\ m[Len(m)] = t
      /\ \A k \in 1..Len(meta) : m[k] = meta[k]
  BY AddsTensor
<1>2. \A k \in 1..Len(meta) : meta[k].offset + Sizes[meta[k].param] <= Used(meta)
  BY AddCovers
<1>3. \A c \in Cells : b[c] = IF c \in Span(t) THEN <<v, i>> ELSE buffer[c]
  BY DEF Put
<1> HIDE DEF b
<1>4. Holding(b, t, v)
  <2>1. \A c \in Span(t) : b[c] = <<v, t.param>>
    BY <1>1, <1>3, TensorsAre
  <2> QED
    BY <1>1, <2>1, HoldingCells
<1>5. ASSUME NEW k \in 1..Len(meta)
      PROVE  Holding(b, meta[k], v)
  <2>1. meta[k] \in Tensors
    OBVIOUS
  <2>2. \A c \in Span(meta[k]) : buffer[c] = <<v, meta[k].param>>
    BY <2>1, HoldingCells DEF Intact
  <2>3. \A c \in Span(meta[k]) : c \in Cells /\ c \notin Span(t)
    <3>1. Used(meta) \in Nat /\ t.offset = Used(meta) /\ Sizes[t.param] \in Nat
      BY <1>1, TensorsAre, SizesAre
    <3>2. meta[k].offset \in Nat /\ Sizes[meta[k].param] \in Nat /\ Span(meta[k]) \subseteq Cells
      BY <2>1, TensorsAre, SizesAre
    <3>3. meta[k].offset + Sizes[meta[k].param] <= t.offset
      BY <1>2, <3>1
    <3> HIDE DEF t
    <3>4. \A c \in Span(meta[k]) : c \notin Span(t)
      BY <1>1, <2>1, <3>3, Apart
    <3> QED
      BY <3>2, <3>4
  <2>4. \A c \in Span(meta[k]) : b[c] = <<v, meta[k].param>>
    BY <1>3, <2>2, <2>3
  <2> QED
    BY <2>1, <2>4, HoldingCells
<1>6. \A k \in 1..Len(m) : Holding(b, m[k], v)
  BY <1>1, <1>4, <1>5
<1> QED
  BY <1>1, <1>6 DEF Intact, b

\* Copying a tensor to another place.
LEMMA CopyHolds ==
    ASSUME NEW to \in Tensors, NEW from \in Tensors, from.param = to.param,
           NEW target \in Contents, NEW source \in Contents
    PROVE  LET copied == Copied(target, to, source, from)
           IN /\ copied \in Contents
              /\ \A v : Holding(source, from, v) => Holding(copied, to, v)
              /\ \A t \in Tensors : \A v : t.offset + Sizes[t.param] <= to.offset /\ Holding(target, t, v)
                                       => Holding(copied, t, v)
<1> DEFINE copied == Copied(target, to, source, from)
<1>1. \A c \in Span(to) : c - to.offset + from.offset \in Span(from) /\ c \in Cells
  <2>1. to.offset \in Nat /\ from.offset \in Nat /\ Sizes[to.param] \in Nat /\ Span(to) \subseteq Cells
    BY TensorsAre, SizesAre
  <2> QED
    BY <2>1 DEF Span
<1>2. \A c \in Span(from) : c \in Cells
  BY TensorsAre
<1>3. \A c \in Cells : copied[c] = IF c \in Span(to) THEN source[c - to.offset + from.offset] ELSE target[c]
  BY DEF Copied
<1>4. copied \in Contents
  <2>1. \A c \in Cells : (IF c \in Span(to) THEN source[c - to.offset + from.offset] ELSE target[c]) \in Pairs
    BY <1>1, <1>2 DEF Contents
  <2> QED
    BY <2>1 DEF Copied, Contents
<1> HIDE DEF copied
<1>5. ASSUME NEW v, Holding(source, from, v)
      PROVE  Holding(copied, to, v)
  <2>1. \A c \in Span(from) : source[c] = <<v, from.param>>
    BY <1>5, HoldingCells
  <2>2. \A c \in Span(to) : copied[c] = <<v, to.param>>
    BY <1>1, <1>3, <2>1
  <2> QED
    BY <2>2, HoldingCells
<1>6. ASSUME NEW t \in Tensors, NEW v, t.offset + Sizes[t.param] <= to.offset, Holding(target, t, v)
      PROVE  Holding(copied, t, v)
  <2>1. \A c \in Span(t) : target[c] = <<v, t.param>>
    BY <1>6, HoldingCells
  <2>2. \A c \in Span(t) : c \in Cells /\ c \notin Span(to)
    BY <1>6, TensorsAre, Apart
  <2>3. \A c \in Span(t) : copied[c] = <<v, t.param>>
    BY <1>3, <2>1, <2>2
  <2> QED
    BY <2>3, HoldingCells
<1> QED
  BY <1>4, <1>5, <1>6 DEF copied

LEMMA PutContents ==
    ASSUME NEW t \in Tensors, NEW buffer \in Contents, NEW value \in Pairs
    PROVE  Put(buffer, t, value) \in Contents
BY DEF Put, Contents

-----------------------------------------------------------------------------
(* Types *)

Messages == [meta : Seq(Tensors), last : BOOLEAN, buffer : 0..2, key : Nat]
Buckets == [meta : Seq(Tensors), last : BOOLEAN, buffer : 1..2, key : Nat]
Moves == {"none", "start", "moving", "done"}

EngineRecords ==
    [pc : {"idle", "send", "closing", "first", "loop", "tail", "done"}, cur : {0, 1}, meta : Seq(Tensors),
     last : BOOLEAN, pos : Nat \ {0}, in : Moves, got : Messages, out : Moves, sent : Messages]
Engines == {e \in EngineRecords : /\ e.out # "none" => e.sent \in Buckets
                                  /\ e.in \in {"moving", "done"} => e.got \in Buckets}

Copies == {c \in [buffer : 1..2, from : Tensors, to : Tensors] : c.from.param = c.to.param}
Adapters ==
    [pc : {"idle", "attach", "fill", "reply", "lastReply", "future", "done"}, meta : Seq(Tensors),
     copies : Seq(Copies), shared : Contents]
Loads == [param : Params, values : SUBSET Pairs]
Workers ==
    [pc : {"off", "called", "waiting", "load", "loaded"}, last : BOOLEAN, clones : Seq(Loads), loaded : Seq(Loads)]

TypeInv ==
    /\ ranks \in 1..MaxRanks /\ replicaSize \in 1..ranks /\ ranks % replicaSize = 0
    /\ backend \in {"nccl", "nixl"} /\ phase \in {"idle", "prepared", "transfer"}
    /\ round \in 0..Rounds /\ next \in 1 .. NumParams + 1
    /\ subscribed \subseteq Ranks
    /\ engine \in [Processes -> Engines]
    /\ inbox \in [Processes -> Seq(Buckets)]
    /\ notes \in [Processes -> Seq(Nat)]
    /\ buffers \in [Processes -> [1..2 -> Contents]]
    /\ adapter \in [1..MaxRanks -> Adapters]
    /\ worker \in [1..MaxRanks -> Workers]

LEMMA ZeroedType == Zeroed \in Contents
BY RoundsAssumption, SizesAre DEF Zeroed, Contents, Pairs

LEMMA NewTypes == NewEngine \in Engines /\ NewAdapter \in Adapters /\ NewWorker \in Workers
<1>1. NoMessage \in Messages
  BY DEF NoMessage, Messages
<1>2. NewEngine \in Engines
  BY <1>1 DEF NewEngine, Engines, EngineRecords, Moves
<1>3. NewAdapter \in Adapters
  BY ZeroedType DEF NewAdapter, Adapters
<1>4. NewWorker \in Workers
  BY DEF NewWorker, Workers
<1> QED
  BY <1>2, <1>3, <1>4

\* Process 0 and the ranks are among the processes.
LEMMA RanksAre ==
    ASSUME TypeInv
    PROVE  /\ 0 \in Processes /\ Ranks \subseteq Processes /\ Ranks \subseteq 1..MaxRanks
           /\ \A r \in Ranks : r \in Nat \ {0} /\ r - 1 \in Processes /\ r - 1 < ranks
           /\ \A p \in Processes : p \in Nat
BY RanksAssumption DEF TypeInv, Ranks, Processes

LEMMA InitType == TransferInit => TypeInv
<1> SUFFICES ASSUME TransferInit
             PROVE  TypeInv
  OBVIOUS
<1> USE DEF TransferInit, AdapterInit
<1>1. ranks \in 1..MaxRanks /\ replicaSize \in 1..ranks /\ ranks % replicaSize = 0
  OBVIOUS
<1>2. backend \in {"nccl", "nixl"} /\ phase \in {"idle", "prepared", "transfer"} /\ subscribed \subseteq Ranks
  OBVIOUS
<1>3. round \in 0..Rounds /\ next \in 1 .. NumParams + 1
  BY RoundsAssumption, SizesAre
<1>4. engine \in [Processes -> Engines] /\ adapter \in [1..MaxRanks -> Adapters] /\ worker \in [1..MaxRanks -> Workers]
  BY NewTypes
<1>5. buffers \in [Processes -> [1..2 -> Contents]]
  BY ZeroedType
<1>6. inbox \in [Processes -> Seq(Buckets)] /\ notes \in [Processes -> Seq(Nat)]
  OBVIOUS
<1> QED
  BY <1>1, <1>2, <1>3, <1>4, <1>5, <1>6 DEF TypeInv

\* One engine changes, and keeps to its type.
LEMMA OneEngine ==
    ASSUME TypeInv, NEW p \in Processes, NEW e \in Engines, engine' = [engine EXCEPT ![p] = e]
    PROVE  /\ engine' \in [Processes -> Engines] /\ engine'[p] = e
           /\ \A q \in Processes : q # p => engine'[q] = engine[q]
BY DEF TypeInv

LEMMA EngineIs == ASSUME NEW e \in Engines
                  PROVE  /\ e \in EngineRecords
                         /\ e.out # "none" => e.sent \in Buckets
                         /\ e.in \in {"moving", "done"} => e.got \in Buckets
BY DEF Engines

\* What waiting for the last announcement does to the notifications.
LEMMA WaitType ==
    ASSUME TypeInv, NEW p \in Processes, WaitAnnounced(p)
    PROVE  /\ notes' \in [Processes -> Seq(Nat)]
           /\ \A q \in Processes : q # p => notes'[q] = notes[q]
           /\ engine[p].out = "none" => notes'[p] = notes[p]
           /\ engine[p].out # "none" /\ backend = "nixl" => notes[p] # <<>> /\ notes'[p] = Tail(notes[p])
           /\ engine[p].out # "none" /\ backend = "nccl" => engine[p].out = "done" /\ notes'[p] = notes[p]
<1>1. notes[p] \in Seq(Nat) /\ (notes[p] # <<>> => Tail(notes[p]) \in Seq(Nat))
  BY DEF TypeInv
<1>2. Announces(p) /\ backend = "nixl" => notes[p] # <<>>
  BY DEF WaitAnnounced, Complete
<1> QED
  BY <1>1, <1>2 DEF TypeInv, WaitAnnounced, Announces, Complete

\* The engine that announces a bucket.
LEMMA AnnouncedType ==
    ASSUME TypeInv, NEW e \in Engines, NEW meta \in Seq(Tensors), NEW last \in BOOLEAN, NEW b \in 1..2
    PROVE  LET f == Announced(e, meta, last, b)
           IN /\ f \in Engines /\ f.sent \in Buckets
              /\ f.sent.meta = meta /\ f.sent.last = last /\ f.sent.buffer = b
              /\ f.out = IF backend = "nixl" THEN "moving" ELSE "start"
              /\ f.pc = e.pc /\ f.cur = e.cur /\ f.meta = e.meta /\ f.last = e.last /\ f.pos = e.pos
              /\ f.in = e.in /\ f.got = e.got
<1> DEFINE s == [meta |-> meta, last |-> last, buffer |-> b, key |-> e.sent.key + 1]
           o == IF backend = "nixl" THEN "moving" ELSE "start"
<1>1. e \in EngineRecords /\ (e.in \in {"moving", "done"} => e.got \in Buckets)
  BY EngineIs
<1>2. s \in Buckets /\ s \in Messages /\ o \in Moves
  <2>1. e.sent.key \in Nat
    BY <1>1 DEF EngineRecords, Messages
  <2>2. b \in 0..2
    OBVIOUS
  <2> QED
    BY <2>1, <2>2 DEF Buckets, Messages, Moves
<1>3. Announced(e, meta, last, b) = [e EXCEPT !.out = o, !.sent = s]
  BY DEF Announced
<1>4. [e EXCEPT !.out = o, !.sent = s] \in EngineRecords
  BY <1>1, <1>2 DEF EngineRecords
<1> DEFINE f == [e EXCEPT !.out = o, !.sent = s]
<1>5. /\ f.sent = s /\ f.out = o
      /\ f.pc = e.pc /\ f.cur = e.cur /\ f.meta = e.meta /\ f.last = e.last /\ f.pos = e.pos
      /\ f.in = e.in /\ f.got = e.got
  BY <1>1 DEF EngineRecords
<1>6. f \in Engines
  <2> HIDE DEF f, s, o
  <2> QED
    BY <1>1, <1>2, <1>4, <1>5 DEF Engines, f
<1>7. s.meta = meta /\ s.last = last /\ s.buffer = b
  OBVIOUS
<1> HIDE DEF f, s
<1> QED
  BY <1>2, <1>3, <1>5, <1>6, <1>7 DEF f

\* An announcement arrives at once with nixl, and is left to a thread with nccl.
LEMMA AnnounceType ==
    ASSUME TypeInv, NEW p \in Processes, NEW message \in Buckets, Announce(p, message)
    PROVE  /\ inbox' \in [Processes -> Seq(Buckets)]
           /\ \A q \in Processes : q # p + 1 => inbox'[q] = inbox[q]
           /\ backend = "nccl" => inbox' = inbox
           /\ backend = "nixl" /\ p + 1 \in Processes => inbox'[p + 1] = Append(inbox[p + 1], message)
           /\ subscribed' = subscribed
<1>1. inbox \in [Processes -> Seq(Buckets)] /\ subscribed' = subscribed
  BY DEF TypeInv, Announce
<1>2. CASE backend = "nixl"
  <2>1. inbox' = [inbox EXCEPT ![p + 1] = Append(@, message)]
    BY <1>2 DEF Announce
  <2>2. p + 1 \in Processes => Append(inbox[p + 1], message) \in Seq(Buckets)
    BY <1>1
  <2> QED
    BY <1>1, <1>2, <2>1, <2>2
<1>3. CASE backend # "nixl"
  BY <1>1, <1>3 DEF Announce
<1> QED
  BY <1>2, <1>3

-----------------------------------------------------------------------------
(* The manager and the sender *)

LEMMA PrepareType == ASSUME TypeInv, Prepare PROVE TypeInv'
<1> USE DEF Prepare, linkVars
<1>1. ranks' = ranks /\ replicaSize' = replicaSize /\ backend' = backend /\ phase' = "prepared" /\ subscribed' = subscribed
  OBVIOUS
<1>2. round' \in 0..Rounds /\ next' \in 1 .. NumParams + 1
  BY RoundsAssumption, SizesAre DEF TypeInv
<1>3. engine' \in [Processes -> Engines] /\ adapter' \in [1..MaxRanks -> Adapters] /\ worker' \in [1..MaxRanks -> Workers]
  BY NewTypes
<1>4. buffers' \in [Processes -> [1..2 -> Contents]]
  BY ZeroedType
<1>5. inbox' = inbox /\ notes' = notes
  OBVIOUS
<1> QED
  BY <1>1, <1>2, <1>3, <1>4, <1>5 DEF TypeInv, Ranks

LEMMA BuildGroupType == ASSUME TypeInv, BuildGroup PROVE TypeInv'
<1>1. inbox' \in [Processes -> Seq(Buckets)] /\ subscribed' \subseteq Ranks
  <2>1. CASE backend = "nccl"
    <3>1. inbox' = [p \in Processes |-> <<>>] /\ subscribed' = {}
      BY <2>1 DEF BuildGroup
    <3> QED
      BY <3>1
  <2>2. CASE backend # "nccl"
    BY <2>2 DEF BuildGroup, TypeInv
  <2> QED
    BY <2>1, <2>2
<1> QED
  BY <1>1 DEF BuildGroup, TypeInv, Ranks, adapterVars

LEMMA FinalizeType == ASSUME TypeInv, Finalize PROVE TypeInv'
BY DEF Finalize, TypeInv, Ranks, adapterVars, linkVars

LEMMA ConnectedType == ASSUME TypeInv, NEW r \in Ranks, Connected(r) PROVE TypeInv'
BY DEF Connected, TypeInv, Ranks, adapterVars, managerVars

LEMMA ConsumeType == ASSUME TypeInv, NEW t, Consume(t) PROVE TypeInv'
BY DEF Consume, TypeInv, Ranks, adapterVars, managerVars, linkVars

LEMMA SendBeginEffect ==
    ASSUME TypeInv, SendBegin
    PROVE  /\ TypeInv'
           /\ engine' = [engine EXCEPT ![0] = [engine[0] EXCEPT !.pc = "send"]]
<1>1. 0 \in Processes /\ engine[0] \in Engines
  BY RanksAre DEF TypeInv
<1>2. engine' = [engine EXCEPT ![0] = [engine[0] EXCEPT !.pc = "send"]]
  BY DEF SendBegin
<1>3. [engine[0] EXCEPT !.pc = "send"] \in Engines
  BY <1>1 DEF Engines, EngineRecords
<1>4. engine' \in [Processes -> Engines]
  BY <1>1, <1>2, <1>3, OneEngine
<1> QED
  BY <1>2, <1>4 DEF SendBegin, TypeInv, Ranks, adapterVars, managerVars, linkVars

LEMMA FillEffect ==
    ASSUME TypeInv, Fill
    PROVE  LET e == engine[0]
               meta == WithTensor(e.meta, next)
               b == SendBuf(0)
               old == buffers[0][b]
               new == Put(old, meta[Len(meta)], <<round, next>>)
           IN /\ TypeInv'
              /\ next \in Params /\ Fits(e.meta, next) /\ e.pc = "send" /\ next' = next + 1
              /\ engine' = [engine EXCEPT ![0] = [e EXCEPT !.meta = meta]]
              /\ buffers' = [buffers EXCEPT ![0] = [buffers[0] EXCEPT ![b] = new]]
              /\ new \in Contents
<1> DEFINE e == engine[0]
           meta == WithTensor(e.meta, next)
           b == SendBuf(0)
           new == Put(buffers[0][b], meta[Len(meta)], <<round, next>>)
<1>1. 0 \in Processes /\ e \in Engines /\ e \in EngineRecords
  BY RanksAre, EngineIs DEF TypeInv
<1>2. next \in Params /\ Fits(e.meta, next) /\ e.pc = "send" /\ next' = next + 1
  BY SizesAre DEF TypeInv, Fill, Gathered, Params
<1>3. e.meta \in Seq(Tensors) /\ b \in 1..2
  BY <1>1 DEF EngineRecords, SendBuf
<1>4. meta \in Seq(Tensors) /\ meta[Len(meta)] \in Tensors
  BY <1>2, <1>3, AddsTensor
<1>5. buffers[0] \in [1..2 -> Contents] /\ <<round, next>> \in Pairs
  BY <1>1, <1>2 DEF TypeInv, Pairs, Params
<1>6. new \in Contents
  BY <1>3, <1>4, <1>5, PutContents
<1>7. engine' = [engine EXCEPT ![0] = [e EXCEPT !.meta = meta]]
  BY DEF Fill
<1>8. [e EXCEPT !.meta = meta] \in Engines
  BY <1>1, <1>4 DEF Engines, EngineRecords
<1>9. buffers' = [buffers EXCEPT ![0] = [buffers[0] EXCEPT ![b] = new]]
  BY DEF Fill
<1>10. buffers' \in [Processes -> [1..2 -> Contents]]
  <2>1. [buffers[0] EXCEPT ![b] = new] \in [1..2 -> Contents]
    BY <1>5, <1>6
  <2> QED
    BY <1>9, <2>1 DEF TypeInv
<1>11. engine' \in [Processes -> Engines]
  BY <1>1, <1>7, <1>8, OneEngine
<1>12. next' \in 1 .. NumParams + 1
  BY <1>2, SizesAre DEF Params
<1>13. TypeInv'
  BY <1>10, <1>11, <1>12 DEF Fill, TypeInv, Ranks, adapterVars, managerVars, linkVars
<1> QED
  BY <1>2, <1>6, <1>7, <1>9, <1>13

\* Flush and SendLast: the bucket in hand is announced.
LEMMA FlushEffect ==
    ASSUME TypeInv, Flush
    PROVE  /\ TypeInv'
           /\ engine[0].pc = "send" /\ WaitAnnounced(0)
           /\ UNCHANGED <<managerVars, next, consuming, buffers, adapterVars>>
           /\ \E f \in Engines :
                /\ engine' = [engine EXCEPT ![0] = f]
                /\ f.pc = "send" /\ f.cur = 1 - engine[0].cur /\ f.meta = <<>> /\ f.in = engine[0].in
                /\ f.out = IF backend = "nixl" THEN "moving" ELSE "start"
                /\ f.sent \in Buckets /\ f.sent.meta = engine[0].meta /\ f.sent.buffer = SendBuf(0)
                /\ ~f.sent.last
                /\ Announce(0, f.sent)
<1> DEFINE e == engine[0]
           g == Announced(e, e.meta, FALSE, SendBuf(0))
           f == [g EXCEPT !.cur = 1 - @, !.meta = <<>>]
<1>1. 0 \in Processes /\ e \in Engines /\ e \in EngineRecords
  BY RanksAre, EngineIs DEF TypeInv
<1>2. e.meta \in Seq(Tensors) /\ SendBuf(0) \in 1..2 /\ e.cur \in {0, 1}
  BY <1>1 DEF EngineRecords, SendBuf
<1>3. /\ e.pc = "send" /\ WaitAnnounced(0) /\ Announce(0, g.sent) /\ engine' = [engine EXCEPT ![0] = f]
      /\ UNCHANGED <<managerVars, next, consuming, buffers, adapterVars>>
  BY Zenon DEF Flush, Gathered
<1>4. /\ g \in Engines /\ g.sent \in Buckets
      /\ g.sent.meta = e.meta /\ g.sent.last = FALSE /\ g.sent.buffer = SendBuf(0)
      /\ g.out = IF backend = "nixl" THEN "moving" ELSE "start"
      /\ g.pc = e.pc /\ g.cur = e.cur /\ g.in = e.in
  <2>1. \A last \in BOOLEAN :
          LET h == Announced(e, e.meta, last, SendBuf(0))
          IN /\ h \in Engines /\ h.sent \in Buckets
             /\ h.sent.meta = e.meta /\ h.sent.last = last /\ h.sent.buffer = SendBuf(0)
             /\ h.out = IF backend = "nixl" THEN "moving" ELSE "start"
             /\ h.pc = e.pc /\ h.cur = e.cur /\ h.meta = e.meta /\ h.in = e.in
    BY <1>1, <1>2, AnnouncedType
  <2>2. FALSE \in BOOLEAN
    BY Zenon
  <2> HIDE DEF e
  <2> QED
    BY <2>1, <2>2, Zenon DEF g
<1> HIDE DEF g
<1>5. f \in Engines
  <2>1. 1 - g.cur \in {0, 1} /\ <<>> \in Seq(Tensors) /\ g \in EngineRecords
    BY <1>2, <1>4 DEF Engines
  <2>2. f \in EngineRecords
    BY <2>1 DEF EngineRecords
  <2>3. f.out = g.out /\ f.sent = g.sent /\ f.in = g.in /\ f.got = g.got
    BY <2>1 DEF EngineRecords
  <2> HIDE DEF f
  <2> QED
    BY <1>4, <2>2, <2>3 DEF Engines
<1>6. /\ f.pc = g.pc /\ f.cur = 1 - g.cur /\ f.meta = <<>> /\ f.in = g.in /\ f.out = g.out /\ f.sent = g.sent
  BY <1>4 DEF Engines, EngineRecords
<1>7. engine' \in [Processes -> Engines]
  BY <1>1, <1>3, <1>5, OneEngine
<1>8. inbox' \in [Processes -> Seq(Buckets)] /\ subscribed' = subscribed /\ notes' \in [Processes -> Seq(Nat)]
  BY <1>1, <1>3, <1>4, AnnounceType, WaitType
<1>9. TypeInv'
  BY <1>3, <1>7, <1>8 DEF TypeInv, Ranks, managerVars, adapterVars
<1> HIDE DEF f
<1> QED
  BY <1>3, <1>4, <1>5, <1>6, <1>9

LEMMA SendLastEffect ==
    ASSUME TypeInv, SendLast
    PROVE  /\ TypeInv'
           /\ engine[0].pc = "send" /\ WaitAnnounced(0) /\ next = NumParams + 1
           /\ UNCHANGED <<managerVars, next, consuming, buffers, adapterVars>>
           /\ \E f \in Engines :
                /\ engine' = [engine EXCEPT ![0] = f]
                /\ f.pc = "closing" /\ f.cur = engine[0].cur /\ f.meta = engine[0].meta /\ f.in = engine[0].in
                /\ f.out = IF backend = "nixl" THEN "moving" ELSE "start"
                /\ f.sent \in Buckets /\ f.sent.meta = engine[0].meta /\ f.sent.buffer = SendBuf(0)
                /\ f.sent.last
                /\ Announce(0, f.sent)
<1> DEFINE e == engine[0]
           g == Announced(e, e.meta, TRUE, SendBuf(0))
           f == [g EXCEPT !.pc = "closing"]
<1>1. 0 \in Processes /\ e \in Engines /\ e \in EngineRecords
  BY RanksAre, EngineIs DEF TypeInv
<1>2. e.meta \in Seq(Tensors) /\ SendBuf(0) \in 1..2
  BY <1>1 DEF EngineRecords, SendBuf
<1>3. /\ e.pc = "send" /\ WaitAnnounced(0) /\ Announce(0, g.sent) /\ engine' = [engine EXCEPT ![0] = f]
      /\ UNCHANGED <<managerVars, next, consuming, buffers, adapterVars>>
  BY Zenon DEF SendLast
<1>4. /\ g \in Engines /\ g.sent \in Buckets
      /\ g.sent.meta = e.meta /\ g.sent.last = TRUE /\ g.sent.buffer = SendBuf(0)
      /\ g.out = IF backend = "nixl" THEN "moving" ELSE "start"
      /\ g.cur = e.cur /\ g.in = e.in /\ g.meta = e.meta
  <2>1. \A last \in BOOLEAN :
          LET h == Announced(e, e.meta, last, SendBuf(0))
          IN /\ h \in Engines /\ h.sent \in Buckets
             /\ h.sent.meta = e.meta /\ h.sent.last = last /\ h.sent.buffer = SendBuf(0)
             /\ h.out = IF backend = "nixl" THEN "moving" ELSE "start"
             /\ h.pc = e.pc /\ h.cur = e.cur /\ h.meta = e.meta /\ h.in = e.in
    BY <1>1, <1>2, AnnouncedType
  <2>2. TRUE \in BOOLEAN
    BY Zenon
  <2> HIDE DEF e
  <2> QED
    BY <2>1, <2>2, Zenon DEF g
<1> HIDE DEF g
<1>5. f \in Engines
  BY <1>4 DEF Engines, EngineRecords
<1>6. /\ f.pc = "closing" /\ f.cur = g.cur /\ f.meta = g.meta /\ f.in = g.in /\ f.out = g.out /\ f.sent = g.sent
  BY <1>4 DEF Engines, EngineRecords
<1>7. engine' \in [Processes -> Engines]
  BY <1>1, <1>3, <1>5, OneEngine
<1>8. inbox' \in [Processes -> Seq(Buckets)] /\ subscribed' = subscribed /\ notes' \in [Processes -> Seq(Nat)]
  BY <1>1, <1>3, <1>4, AnnounceType, WaitType
<1>9. TypeInv'
  BY <1>3, <1>7, <1>8 DEF TypeInv, Ranks, managerVars, adapterVars
<1>10. next = NumParams + 1
  BY SizesAre DEF SendLast, TypeInv
<1> HIDE DEF f
<1> QED
  BY <1>3, <1>4, <1>5, <1>6, <1>9, <1>10

LEMMA SendDoneEffect ==
    ASSUME TypeInv, SendDone
    PROVE  /\ TypeInv'
           /\ engine' = [engine EXCEPT ![0] = [engine[0] EXCEPT !.pc = "done", !.out = "none"]]
<1>1. 0 \in Processes /\ engine[0] \in Engines /\ engine[0] \in EngineRecords
  BY RanksAre, EngineIs DEF TypeInv
<1>2. engine' = [engine EXCEPT ![0] = [engine[0] EXCEPT !.pc = "done", !.out = "none"]]
  BY DEF SendDone
<1>3. [engine[0] EXCEPT !.pc = "done", !.out = "none"] \in Engines
  BY <1>1 DEF Engines, EngineRecords, Moves
<1>4. engine' \in [Processes -> Engines]
  BY <1>1, <1>2, <1>3, OneEngine
<1>5. notes' \in [Processes -> Seq(Nat)]
  BY <1>1, WaitType DEF SendDone
<1> QED
  BY <1>2, <1>4, <1>5 DEF SendDone, TypeInv, Ranks, adapterVars, managerVars

LEMMA PublishEffect ==
    ASSUME TypeInv, Publish
    PROVE  /\ TypeInv'
           /\ engine' = [engine EXCEPT ![0] = [engine[0] EXCEPT !.out = "moving"]]
           /\ engine[0].sent \in Buckets
<1>1. 0 \in Processes /\ engine[0] \in Engines /\ engine[0] \in EngineRecords
  BY RanksAre, EngineIs DEF TypeInv
<1>2. engine' = [engine EXCEPT ![0] = [engine[0] EXCEPT !.out = "moving"]]
  BY DEF Publish
<1>3. engine[0].out = "start" /\ engine[0].sent \in Buckets
  BY <1>1, EngineIs DEF Publish
<1>4. [engine[0] EXCEPT !.out = "moving"] \in Engines
  BY <1>1, <1>3 DEF Engines, EngineRecords, Moves
<1>5. engine' \in [Processes -> Engines]
  BY <1>1, <1>2, <1>4, OneEngine
<1>6. inbox' \in [Processes -> Seq(Buckets)]
  BY <1>3 DEF Publish, TypeInv
<1> QED
  BY <1>2, <1>3, <1>5, <1>6 DEF Publish, TypeInv, Ranks, adapterVars, managerVars

-----------------------------------------------------------------------------
(* What moves between engines *)

LEMMA ReceiveEffect ==
    ASSUME TypeInv, NEW r \in Ranks, Receive(r)
    PROVE  /\ TypeInv'
           /\ engine' = [engine EXCEPT ![r] = [engine[r] EXCEPT !.in = "moving", !.got = Head(inbox[r])]]
           /\ Head(inbox[r]) \in Buckets
<1>1. r \in Processes /\ engine[r] \in Engines /\ engine[r] \in EngineRecords
  BY RanksAre, EngineIs DEF TypeInv
<1>2. engine' = [engine EXCEPT ![r] = [engine[r] EXCEPT !.in = "moving", !.got = Head(inbox[r])]]
  BY <1>1 DEF Receive, TypeInv
<1>3. inbox[r] # <<>> /\ inbox[r] \in Seq(Buckets) /\ Head(inbox[r]) \in Buckets /\ Tail(inbox[r]) \in Seq(Buckets)
  BY <1>1 DEF Receive, TypeInv
<1>4. Head(inbox[r]) \in Messages
  BY <1>3 DEF Buckets, Messages
<1>5. [engine[r] EXCEPT !.in = "moving", !.got = Head(inbox[r])] \in Engines
  BY <1>1, <1>3, <1>4 DEF Engines, EngineRecords, Moves
<1>6. engine' \in [Processes -> Engines]
  BY <1>1, <1>2, <1>5, OneEngine
<1>7. inbox' \in [Processes -> Seq(Buckets)]
  BY <1>1, <1>3 DEF Receive, TypeInv
<1> QED
  BY <1>2, <1>3, <1>6, <1>7 DEF Receive, TypeInv, Ranks, adapterVars, managerVars

LEMMA ReadDoneEffect ==
    ASSUME TypeInv, NEW r \in Ranks, ReadDone(r)
    PROVE  /\ TypeInv'
           /\ engine' = [engine EXCEPT ![r] = [engine[r] EXCEPT !.in = "done"]]
           /\ buffers' = [buffers EXCEPT ![r] = [buffers[r] EXCEPT ![RecvBuf(r)] =
                                                     buffers[r - 1][engine[r].got.buffer]]]
           /\ notes' = [notes EXCEPT ![r - 1] = Append(notes[r - 1], engine[r].got.key)]
           /\ RecvBuf(r) \in 1..2
<1>1. r \in Processes /\ r - 1 \in Processes /\ engine[r] \in Engines /\ engine[r] \in EngineRecords
  BY RanksAre, EngineIs DEF TypeInv
<1>2. engine' = [engine EXCEPT ![r] = [engine[r] EXCEPT !.in = "done"]]
  BY <1>1 DEF ReadDone, TypeInv
<1>3. engine[r].got \in Buckets
  BY <1>1, EngineIs DEF ReadDone
<1>4. [engine[r] EXCEPT !.in = "done"] \in Engines
  BY <1>1, <1>3 DEF Engines, EngineRecords, Moves
<1>5. engine' \in [Processes -> Engines]
  BY <1>1, <1>2, <1>4, OneEngine
<1>6. RecvBuf(r) \in 1..2
  BY <1>1 DEF RecvBuf, EngineRecords
<1>7. engine[r].got.buffer \in 1..2 /\ engine[r].got.key \in Nat
  BY <1>3 DEF Buckets
<1>8. buffers[r] \in [1..2 -> Contents] /\ buffers[r - 1][engine[r].got.buffer] \in Contents
  BY <1>1, <1>7 DEF TypeInv
<1>9. buffers' = [buffers EXCEPT ![r] = [buffers[r] EXCEPT ![RecvBuf(r)] = buffers[r - 1][engine[r].got.buffer]]]
  BY DEF ReadDone
<1>10. buffers' \in [Processes -> [1..2 -> Contents]]
  <2>1. [buffers[r] EXCEPT ![RecvBuf(r)] = buffers[r - 1][engine[r].got.buffer]] \in [1..2 -> Contents]
    BY <1>6, <1>8
  <2> QED
    BY <1>9, <2>1 DEF TypeInv
<1>11. notes' = [notes EXCEPT ![r - 1] = Append(notes[r - 1], engine[r].got.key)]
  BY DEF ReadDone
<1>12. notes' \in [Processes -> Seq(Nat)]
  BY <1>1, <1>7, <1>11 DEF TypeInv
<1> QED
  BY <1>2, <1>5, <1>6, <1>9, <1>10, <1>11, <1>12 DEF ReadDone, TypeInv, Ranks, adapterVars, managerVars

LEMMA BroadcastEffect ==
    ASSUME TypeInv, Broadcast
    PROVE  /\ TypeInv'
           /\ engine'[0] = [engine[0] EXCEPT !.out = "done"]
           /\ \A r \in Ranks : /\ engine'[r] = [engine[r] EXCEPT !.in = "done"]
                               /\ RecvBuf(r) \in 1..2
                               /\ buffers'[r] = [buffers[r] EXCEPT ![RecvBuf(r)] = buffers[0][engine[0].sent.buffer]]
           /\ \A p \in Processes \ Ranks : p # 0 => engine'[p] = engine[p]
           /\ buffers'[0] = buffers[0]
<1>1. 0 \in Processes /\ 0 \notin Ranks /\ Ranks \subseteq Processes
  BY RanksAre DEF Ranks
<1>2. ASSUME NEW p \in Processes
      PROVE  engine[p] \in Engines /\ engine[p] \in EngineRecords /\ RecvBuf(p) \in 1..2
  <2>1. engine[p] \in Engines /\ engine[p] \in EngineRecords
    BY EngineIs DEF TypeInv
  <2> QED
    BY <2>1 DEF RecvBuf, EngineRecords
<1>3. /\ engine[0].out = "moving" /\ engine[0].sent \in Buckets /\ engine[0].sent.buffer \in 1..2
      /\ \A r \in Ranks : engine[r].in = "moving" /\ engine[r].got \in Buckets
  <2>1. engine[0].out = "moving" /\ engine[0].sent \in Buckets
    BY <1>1, <1>2, EngineIs DEF Broadcast
  <2>2. \A r \in Ranks : engine[r].in = "moving" /\ engine[r].got \in Buckets
    BY <1>1, <1>2, EngineIs DEF Broadcast
  <2> QED
    BY <2>1, <2>2 DEF Buckets
<1>4. engine' = [p \in Processes |->
       IF p = 0 THEN [engine[0] EXCEPT !.out = "done"]
       ELSE IF p \in Ranks THEN [engine[p] EXCEPT !.in = "done"] ELSE engine[p]]
  BY DEF Broadcast
<1>5. [engine[0] EXCEPT !.out = "done"] \in Engines
  BY <1>1, <1>2, <1>3 DEF Engines, EngineRecords, Moves
<1>6. \A r \in Ranks : [engine[r] EXCEPT !.in = "done"] \in Engines
  BY <1>1, <1>2, <1>3 DEF Engines, EngineRecords, Moves
<1>7. engine' \in [Processes -> Engines]
  BY <1>2, <1>4, <1>5, <1>6
<1>8. buffers' = [p \in Processes |->
       IF p \in Ranks THEN [buffers[p] EXCEPT ![RecvBuf(p)] = buffers[0][engine[0].sent.buffer]] ELSE buffers[p]]
  BY DEF Broadcast
<1>9. buffers' \in [Processes -> [1..2 -> Contents]]
  <2>1. \A p \in Processes : buffers[p] \in [1..2 -> Contents]
    BY DEF TypeInv
  <2>2. buffers[0][engine[0].sent.buffer] \in Contents
    BY <1>1, <1>3, <2>1
  <2>3. \A p \in Processes : [buffers[p] EXCEPT ![RecvBuf(p)] = buffers[0][engine[0].sent.buffer]] \in [1..2 -> Contents]
    BY <2>1, <2>2
  <2> QED
    BY <1>8, <2>1, <2>3
<1>10. TypeInv'
  BY <1>7, <1>9 DEF Broadcast, TypeInv, Ranks, adapterVars, managerVars, linkVars
<1> QED
  BY <1>1, <1>2, <1>4, <1>8, <1>10

-----------------------------------------------------------------------------
(* The ranks *)

LEMMA OneAdapter ==
    ASSUME TypeInv, NEW r \in Ranks, NEW a \in Adapters, adapter' = [adapter EXCEPT ![r] = a]
    PROVE  /\ adapter' \in [1..MaxRanks -> Adapters] /\ adapter'[r] = a
           /\ \A q \in 1..MaxRanks : q # r => adapter'[q] = adapter[q]
BY RanksAre DEF TypeInv

LEMMA OneWorker ==
    ASSUME TypeInv, NEW r \in Ranks, NEW w \in Workers, worker' = [worker EXCEPT ![r] = w]
    PROVE  /\ worker' \in [1..MaxRanks -> Workers] /\ worker'[r] = w
           /\ \A q \in 1..MaxRanks : q # r => worker'[q] = worker[q]
BY RanksAre DEF TypeInv

LEMMA RankTypes ==
    ASSUME TypeInv, NEW r \in Ranks
    PROVE  /\ engine[r] \in Engines /\ engine[r] \in EngineRecords
           /\ adapter[r] \in Adapters /\ worker[r] \in Workers
           /\ buffers[r] \in [1..2 -> Contents] /\ SendBuf(r) \in 1..2 /\ RecvBuf(r) \in 1..2
<1>1. engine[r] \in Engines /\ engine[r] \in EngineRecords
  BY RanksAre, EngineIs DEF TypeInv
<1>2. SendBuf(r) \in 1..2 /\ RecvBuf(r) \in 1..2
  BY <1>1 DEF EngineRecords, SendBuf, RecvBuf
<1> QED
  BY <1>1, <1>2, RanksAre DEF TypeInv

LEMMA BeginEffect ==
    ASSUME TypeInv, NEW r \in Ranks, Begin(r)
    PROVE  /\ TypeInv'
           /\ adapter' = [adapter EXCEPT ![r] = [adapter[r] EXCEPT !.pc = "attach"]]
           /\ \A q \in 1..MaxRanks :
                worker'[q] = IF Leader(r) /\ q \in Replica(r) THEN [worker[q] EXCEPT !.pc = "called"] ELSE worker[q]
<1>1. adapter[r] \in Adapters
  BY RankTypes
<1>2. adapter' = [adapter EXCEPT ![r] = [adapter[r] EXCEPT !.pc = "attach"]]
  BY DEF Begin, AdapterBegin
<1>3. [adapter[r] EXCEPT !.pc = "attach"] \in Adapters
  BY <1>1 DEF Adapters
<1>4. adapter' \in [1..MaxRanks -> Adapters]
  BY <1>2, <1>3, OneAdapter
<1>5. \A q \in 1..MaxRanks :
        worker'[q] = IF Leader(r) /\ q \in Replica(r) THEN [worker[q] EXCEPT !.pc = "called"] ELSE worker[q]
  BY DEF Begin, AdapterBegin
<1>6. \A q \in 1..MaxRanks : [worker[q] EXCEPT !.pc = "called"] \in Workers
  <2> SUFFICES ASSUME NEW q \in 1..MaxRanks
               PROVE  [worker[q] EXCEPT !.pc = "called"] \in Workers
    OBVIOUS
  <2>1. worker[q] \in Workers
    BY DEF TypeInv
  <2> QED
    BY <2>1 DEF Workers
<1>7. worker' \in [1..MaxRanks -> Workers]
  BY <1>6 DEF Begin, AdapterBegin, TypeInv
<1> QED
  BY <1>2, <1>4, <1>5, <1>7 DEF Begin, TypeInv, Ranks, managerVars, linkVars

LEMMA FirstEffect ==
    ASSUME TypeInv, NEW r \in Ranks, First(r)
    PROVE  /\ TypeInv'
           /\ engine' = [engine EXCEPT ![r] = [engine[r] EXCEPT !.pc = "first", !.in = "start"]]
           /\ adapter' = [adapter EXCEPT ![r] = [adapter[r] EXCEPT !.pc = "fill"]]
           /\ worker' = [worker EXCEPT ![r] = [worker[r] EXCEPT !.pc = "waiting"]]
<1>1. engine[r] \in Engines /\ engine[r] \in EngineRecords /\ adapter[r] \in Adapters /\ worker[r] \in Workers
  BY RankTypes
<1>2. /\ engine' = [engine EXCEPT ![r] = [engine[r] EXCEPT !.pc = "first", !.in = "start"]]
      /\ adapter' = [adapter EXCEPT ![r] = [adapter[r] EXCEPT !.pc = "fill"]]
      /\ worker' = [worker EXCEPT ![r] = [worker[r] EXCEPT !.pc = "waiting"]]
  BY RanksAre DEF First, Attach, TypeInv
<1>3. [adapter[r] EXCEPT !.pc = "fill"] \in Adapters
  BY <1>1 DEF Adapters
<1>4. [worker[r] EXCEPT !.pc = "waiting"] \in Workers
  BY <1>1 DEF Workers
<1>5. [engine[r] EXCEPT !.pc = "first", !.in = "start"] \in Engines
  BY <1>1 DEF Engines, EngineRecords, Moves
<1>6. engine' \in [Processes -> Engines] /\ adapter' \in [1..MaxRanks -> Adapters] /\ worker' \in [1..MaxRanks -> Workers]
  BY <1>2, <1>3, <1>4, <1>5, RanksAre, OneEngine, OneAdapter, OneWorker
<1> QED
  BY <1>2, <1>6 DEF First, TypeInv, Ranks, managerVars, linkVars

LEMMA YieldEffect ==
    ASSUME TypeInv, NEW r \in Ranks, Yield(r)
    PROVE  LET e == engine[r]
               a == adapter[r]
               t == NextTensor(r)
               m == WithTensor(a.meta, t.param)
               copy == [buffer |-> SendBuf(r), from |-> t, to |-> m[Len(m)]]
           IN /\ TypeInv'
              /\ e.pos \in 1..Len(e.meta) /\ t \in Tensors /\ a.pc = "fill" /\ Fits(a.meta, t.param)
              /\ copy \in Copies
              /\ engine' = [engine EXCEPT ![r] = [e EXCEPT !.pos = @ + 1]]
              /\ adapter' = [adapter EXCEPT ![r] = [a EXCEPT !.meta = m, !.copies = Append(@, copy)]]
<1> DEFINE e == engine[r]
           a == adapter[r]
           t == NextTensor(r)
           m == WithTensor(a.meta, t.param)
           copy == [buffer |-> SendBuf(r), from |-> t, to |-> m[Len(m)]]
<1>1. e \in Engines /\ e \in EngineRecords /\ a \in Adapters /\ SendBuf(r) \in 1..2
  BY RankTypes
<1>2. e.pos \in 1..Len(e.meta) /\ e.meta \in Seq(Tensors)
  BY <1>1 DEF Yield, MayYield, EngineRecords
<1>3. t \in Tensors
  BY <1>2 DEF NextTensor
<1>4. a.pc = "fill" /\ Fits(a.meta, t.param)
  BY DEF Yield, TakeTensor
<1>5. t.param \in Params /\ a.meta \in Seq(Tensors)
  BY <1>1, <1>3, TensorsAre DEF Adapters
<1>6. m \in Seq(Tensors) /\ m[Len(m)] \in Tensors /\ m[Len(m)].param = t.param
  <2> DEFINE u == [param |-> t.param, offset |-> Used(a.meta)]
  <2>1. m \in Seq(Tensors) /\ u \in Tensors /\ m[Len(m)] = u
    BY <1>4, <1>5, AddsTensor
  <2>2. u.param = t.param
    OBVIOUS
  <2> QED
    BY <2>1, <2>2
<1>7. copy \in Copies
  BY <1>1, <1>3, <1>6 DEF Copies
<1>8. engine' = [engine EXCEPT ![r] = [e EXCEPT !.pos = @ + 1]]
  BY DEF Yield
<1>9. adapter' = [adapter EXCEPT ![r] = [a EXCEPT !.meta = m, !.copies = Append(@, copy)]]
  BY RanksAre DEF Yield, TakeTensor, TypeInv
<1>10. [e EXCEPT !.pos = @ + 1] \in Engines
  BY <1>1 DEF Engines, EngineRecords
<1>11. [a EXCEPT !.meta = m, !.copies = Append(@, copy)] \in Adapters
  <2> HIDE DEF m, copy
  <2>1. Append(a.copies, copy) \in Seq(Copies)
    BY <1>1, <1>7 DEF Adapters
  <2> QED
    BY <1>1, <1>6, <2>1 DEF Adapters
<1>12. engine' \in [Processes -> Engines] /\ adapter' \in [1..MaxRanks -> Adapters]
  <2>1. engine' \in [Processes -> Engines]
    BY <1>8, <1>10, RanksAre, OneEngine
  <2> HIDE DEF m, copy
  <2> QED
    BY <1>9, <1>11, <2>1, OneAdapter
<1>13. TypeInv'
  BY <1>12 DEF Yield, TakeTensor, TypeInv, Ranks, managerVars, linkVars
<1> QED
  BY <1>2, <1>3, <1>4, <1>7, <1>8, <1>9, <1>13

LEMMA ExhaustedEffect ==
    ASSUME TypeInv, NEW r \in Ranks, Exhausted(r)
    PROVE  /\ TypeInv'
           /\ engine' = [engine EXCEPT ![r] = [engine[r] EXCEPT !.pc = "done", !.out = "none"]]
<1>1. engine[r] \in Engines /\ engine[r] \in EngineRecords /\ r \in Processes
  BY RankTypes, RanksAre
<1>2. engine' = [engine EXCEPT ![r] = [engine[r] EXCEPT !.pc = "done", !.out = "none"]]
  BY <1>1 DEF Exhausted, TypeInv
<1>3. [engine[r] EXCEPT !.pc = "done", !.out = "none"] \in Engines
  BY <1>1 DEF Engines, EngineRecords, Moves
<1>4. engine' \in [Processes -> Engines]
  BY <1>1, <1>2, <1>3, OneEngine
<1>5. notes' \in [Processes -> Seq(Nat)]
  BY <1>1, WaitType DEF Exhausted
<1> QED
  BY <1>2, <1>4, <1>5 DEF Exhausted, TypeInv, Ranks, adapterVars, managerVars

\* A rank passes a bucket on with nixl, unless it is the last.
Forwards(r) == backend = "nixl" /\ HasNext(r)

Swapped(e, cur, meta, last, goes, takes) ==
    [e EXCEPT !.cur = cur, !.meta = meta, !.last = last, !.pos = 1, !.pc = goes, !.in = takes]

LEMMA SwapRecord ==
    ASSUME NEW e \in EngineRecords, NEW cur \in {0, 1}, NEW meta \in Seq(Tensors), NEW last \in BOOLEAN,
           NEW goes \in {"tail", "loop"}, NEW takes \in Moves
    PROVE  LET f == Swapped(e, cur, meta, last, goes, takes)
           IN /\ f \in EngineRecords
              /\ f.cur = cur /\ f.meta = meta /\ f.pos = 1 /\ f.pc = goes /\ f.in = takes
              /\ f.got = e.got /\ f.out = e.out /\ f.sent = e.sent
<1>1. \A n \in Nat \ {0} : [e EXCEPT !.cur = cur, !.meta = meta, !.last = last, !.pos = n, !.pc = goes, !.in = takes]
                                \in EngineRecords
  BY DEF EngineRecords
<1>2. 1 \in Nat \ {0}
  OBVIOUS
<1>3. Swapped(e, cur, meta, last, goes, takes) \in EngineRecords
  BY <1>1, <1>2, Zenon DEF Swapped
<1> QED
  BY <1>3 DEF Swapped, EngineRecords

LEMMA SwapEffect ==
    ASSUME TypeInv, NEW r \in Ranks, Swap(r)
    PROVE  LET e == engine[r]
           IN /\ TypeInv'
              /\ MaySwap(r) /\ WaitAnnounced(r)
              /\ UNCHANGED <<managerVars, next, consuming, buffers, adapterVars>>
              /\ \E f \in Engines :
                   /\ engine' = [engine EXCEPT ![r] = f]
                   /\ f.pc = IF e.got.last THEN "tail" ELSE "loop"
                   /\ f.in = IF e.got.last THEN "none" ELSE "start"
                   /\ f.cur = 1 - e.cur /\ f.meta = e.got.meta /\ f.pos = 1 /\ f.got = e.got
                   /\ Forwards(r) => /\ f.out = "moving" /\ f.sent \in Buckets
                                     /\ f.sent.meta = e.got.meta /\ f.sent.last = e.got.last
                                     /\ f.sent.buffer = f.cur + 1
                                     /\ Announce(r, f.sent)
                   /\ ~Forwards(r) => f.out = e.out /\ f.sent = e.sent /\ inbox' = inbox
<1> DEFINE e == engine[r]
           got == e.got
           goes == IF got.last THEN "tail" ELSE "loop"
           takes == IF got.last THEN "none" ELSE "start"
           g == Swapped(e, 1 - e.cur, got.meta, got.last, goes, takes)
           f == IF Forwards(r) THEN Announced(g, got.meta, got.last, g.cur + 1) ELSE g
<1>1. e \in Engines /\ e \in EngineRecords /\ r \in Processes
  BY RankTypes, RanksAre
<1>2. e.in = "done" /\ got \in Buckets
  BY <1>1, EngineIs DEF Swap, MaySwap
<1>3. got.meta \in Seq(Tensors) /\ got.last \in BOOLEAN
  BY <1>2 DEF Buckets
<1>4. /\ g \in Engines /\ g.cur \in {0, 1}
      /\ g.cur = 1 - e.cur /\ g.meta = got.meta /\ g.pos = 1
      /\ g.pc = IF got.last THEN "tail" ELSE "loop"
      /\ g.in = IF got.last THEN "none" ELSE "start"
      /\ g.got = got /\ g.out = e.out /\ g.sent = e.sent
  <2>1. 1 - e.cur \in {0, 1}
    BY <1>1 DEF EngineRecords
  <2>2. goes \in {"tail", "loop"} /\ takes \in Moves
    BY DEF Moves
  <2>3. /\ g \in EngineRecords
        /\ g.cur = 1 - e.cur /\ g.meta = got.meta /\ g.pos = 1 /\ g.pc = goes /\ g.in = takes
        /\ g.got = got /\ g.out = e.out /\ g.sent = e.sent
    <3> HIDE DEF goes, takes
    <3> QED
      BY <1>1, <1>3, <2>1, <2>2, SwapRecord, SMTT(30)
  <2> HIDE DEF g
  <2>4. g.in # "done" /\ g.in # "moving"
    BY <2>3
  <2>5. g.out # "none" => g.sent \in Buckets
    BY <1>1, <2>3, EngineIs
  <2> QED
    BY <2>1, <2>3, <2>4, <2>5 DEF Engines
<1>5. /\ MaySwap(r) /\ WaitAnnounced(r) /\ engine' = [engine EXCEPT ![r] = f]
      /\ IF Forwards(r) THEN Announce(r, f.sent) ELSE UNCHANGED <<inbox, subscribed, lost>>
      /\ UNCHANGED <<managerVars, next, consuming, buffers, adapterVars>>
  BY DEF Swap, Forwards, Swapped
<1> HIDE DEF g
<1>6. CASE Forwards(r)
  <2>1. g.cur + 1 \in 1..2
    BY <1>4
  <2>2. /\ f \in Engines /\ f.sent \in Buckets
        /\ f.sent.meta = got.meta /\ f.sent.last = got.last /\ f.sent.buffer = g.cur + 1
        /\ f.out = "moving"
        /\ f.pc = g.pc /\ f.cur = g.cur /\ f.meta = g.meta /\ f.last = g.last /\ f.pos = g.pos
        /\ f.in = g.in /\ f.got = g.got
    <3> DEFINE h == Announced(g, got.meta, got.last, g.cur + 1)
    <3>1. /\ h \in Engines /\ h.sent \in Buckets
          /\ h.sent.meta = got.meta /\ h.sent.last = got.last /\ h.sent.buffer = g.cur + 1
          /\ h.out = IF backend = "nixl" THEN "moving" ELSE "start"
          /\ h.pc = g.pc /\ h.cur = g.cur /\ h.meta = g.meta /\ h.last = g.last /\ h.pos = g.pos
          /\ h.in = g.in /\ h.got = g.got
      BY <1>3, <1>4, <2>1, AnnouncedType
    <3> HIDE DEF h
    <3>2. f = h
      BY <1>6 DEF h
    <3> QED
      BY <1>6, <3>1, <3>2 DEF Forwards
  <2> HIDE DEF f
  <2>3. engine' \in [Processes -> Engines]
    BY <1>1, <1>5, <2>2, OneEngine
  <2>4. inbox' \in [Processes -> Seq(Buckets)] /\ subscribed' = subscribed /\ notes' \in [Processes -> Seq(Nat)]
    BY <1>1, <1>5, <1>6, <2>2, AnnounceType, WaitType
  <2>5. TypeInv'
    BY <1>5, <2>3, <2>4 DEF TypeInv, Ranks, managerVars, adapterVars
  <2> QED
    BY <1>4, <1>5, <1>6, <2>2, <2>5
<1>7. CASE ~Forwards(r)
  <2>1. f = g /\ inbox' = inbox /\ subscribed' = subscribed
    BY <1>5, <1>7
  <2> HIDE DEF f
  <2>2. engine' \in [Processes -> Engines]
    BY <1>1, <1>4, <1>5, <2>1, OneEngine
  <2>3. notes' \in [Processes -> Seq(Nat)]
    BY <1>1, <1>5, WaitType
  <2>4. TypeInv'
    BY <1>5, <2>1, <2>2, <2>3 DEF TypeInv, Ranks, managerVars, adapterVars
  <2> QED
    BY <1>4, <1>5, <1>7, <2>1, <2>4
<1> QED
  BY <1>6, <1>7

RankFrame == UNCHANGED <<managerVars, next, consuming, engine, buffers, linkVars>>

\* An adapter and its worker change, and nothing else does.
LEMMA AdapterFrame ==
    ASSUME TypeInv, RankFrame, adapter' \in [1..MaxRanks -> Adapters], worker' \in [1..MaxRanks -> Workers]
    PROVE  TypeInv'
BY DEF TypeInv, RankFrame, Ranks, managerVars, linkVars

LEMMA RequestEffect ==
    ASSUME TypeInv, NEW r \in Ranks, NEW last, Request(r, last), RankFrame
    PROVE  /\ TypeInv'
           /\ adapter[r].pc = "fill" /\ adapter[r].copies = <<>>
           /\ adapter' = [adapter EXCEPT ![r] = [adapter[r] EXCEPT !.pc = IF last THEN "lastReply" ELSE "reply"]]
           /\ worker' = worker
<1> DEFINE p == IF last THEN "lastReply" ELSE "reply"
<1>1. adapter[r] \in Adapters
  BY RankTypes
<1>2. adapter' = [adapter EXCEPT ![r] = [adapter[r] EXCEPT !.pc = p]] /\ worker' = worker
  BY DEF Request
<1>3. p \in {"lastReply", "reply"}
  OBVIOUS
<1> HIDE DEF p
<1>4. [adapter[r] EXCEPT !.pc = p] \in Adapters
  BY <1>1, <1>3 DEF Adapters
<1>5. adapter' \in [1..MaxRanks -> Adapters] /\ worker' \in [1..MaxRanks -> Workers]
  BY <1>2, <1>4, OneAdapter DEF TypeInv
<1>6. adapter[r].pc = "fill" /\ adapter[r].copies = <<>>
  BY DEF Request, Synchronized
<1> QED
  BY <1>2, <1>5, <1>6, AdapterFrame DEF p

LEMMA CopyRunsEffect ==
    ASSUME TypeInv, NEW r \in Ranks, CopyRuns(r), RankFrame
    PROVE  LET a == adapter[r]
               c == Head(a.copies)
               new == Copied(a.shared, c.to, buffers[r][c.buffer], c.from)
           IN /\ TypeInv'
              /\ a.copies # <<>> /\ c \in Copies /\ new \in Contents
              /\ adapter' = [adapter EXCEPT ![r] = [a EXCEPT !.copies = Tail(@), !.shared = new]]
              /\ worker' = worker
<1> DEFINE a == adapter[r]
           c == Head(a.copies)
           new == Copied(a.shared, c.to, buffers[r][c.buffer], c.from)
<1>1. a \in Adapters /\ buffers[r] \in [1..2 -> Contents]
  BY RankTypes
<1>2. a.copies # <<>> /\ adapter' = [adapter EXCEPT ![r] = [a EXCEPT !.copies = Tail(@), !.shared = new]] /\ worker' = worker
  BY RanksAre DEF CopyRuns, TypeInv
<1>3. a.copies \in Seq(Copies) /\ a.shared \in Contents
  BY <1>1 DEF Adapters
<1>4. c \in Copies /\ Tail(a.copies) \in Seq(Copies)
  BY <1>2, <1>3
<1>5. new \in Contents
  <2>1. c.to \in Tensors /\ c.from \in Tensors /\ c.from.param = c.to.param /\ c.buffer \in 1..2
    BY <1>4 DEF Copies
  <2>2. buffers[r][c.buffer] \in Contents
    BY <1>1, <2>1
  <2> QED
    BY <1>3, <2>1, <2>2, CopyHolds
<1> HIDE DEF new, c
<1>6. [a EXCEPT !.copies = Tail(@), !.shared = new] \in Adapters
  BY <1>1, <1>4, <1>5 DEF Adapters
<1>7. adapter' \in [1..MaxRanks -> Adapters] /\ worker' \in [1..MaxRanks -> Workers]
  BY <1>2, <1>6, OneAdapter DEF TypeInv
<1> QED
  BY <1>2, <1>4, <1>5, <1>7, AdapterFrame DEF new, c

\* What the worker clones of a bucket.
ClonesOf(a) == [k \in 1..Len(a.meta) |-> [param |-> a.meta[k].param, values |-> Values(a.shared, a.meta[k])]]

LEMMA CloneEffect ==
    ASSUME TypeInv, NEW r \in Ranks, CloneAndReply(r), RankFrame
    PROVE  LET a == adapter[r]
               w == worker[r]
           IN /\ TypeInv'
              /\ w.pc = "waiting" /\ a.pc \in {"reply", "lastReply"}
              /\ adapter' = [adapter EXCEPT ![r] = [a EXCEPT !.pc = IF a.pc = "lastReply" THEN "future" ELSE "fill",
                                                             !.meta = <<>>]]
              /\ worker' = [worker EXCEPT ![r] = [w EXCEPT !.pc = "load", !.last = (a.pc = "lastReply"),
                                                           !.clones = ClonesOf(a)]]
<1> DEFINE a == adapter[r]
           w == worker[r]
           p == IF a.pc = "lastReply" THEN "future" ELSE "fill"
           l == (a.pc = "lastReply")
<1>1. a \in Adapters /\ w \in Workers
  BY RankTypes
<1>2. w.pc = "waiting" /\ a.pc \in {"reply", "lastReply"}
  BY DEF CloneAndReply
<1>3. adapter' = [adapter EXCEPT ![r] = [a EXCEPT !.pc = p, !.meta = <<>>]]
  BY DEF CloneAndReply
<1>4. worker' = [worker EXCEPT ![r] = [w EXCEPT !.pc = "load", !.last = l, !.clones = ClonesOf(a)]]
  BY DEF CloneAndReply, ClonesOf
<1>5. ClonesOf(a) \in Seq(Loads)
  <2>1. a.meta \in Seq(Tensors) /\ a.shared \in Contents
    BY <1>1 DEF Adapters
  <2>2. ASSUME NEW k \in 1..Len(a.meta)
        PROVE  [param |-> a.meta[k].param, values |-> Values(a.shared, a.meta[k])] \in Loads
    <3>1. a.meta[k] \in Tensors
      BY <2>1
    <3>2. a.meta[k].param \in Params /\ Span(a.meta[k]) \subseteq Cells
      BY <3>1, TensorsAre
    <3>3. Values(a.shared, a.meta[k]) \subseteq Pairs
      BY <2>1, <3>2 DEF Values, Contents
    <3> QED
      BY <3>2, <3>3 DEF Loads
  <2>3. Len(a.meta) \in Nat
    BY <2>1
  <2>4. ClonesOf(a) \in [1..Len(a.meta) -> Loads]
    BY <2>2 DEF ClonesOf
  <2> QED
    BY <2>3, <2>4, SeqDef
<1>6. p \in {"future", "fill"} /\ l \in BOOLEAN
  <2>1. l \in BOOLEAN
    BY Zenon
  <2> QED
    BY <2>1
<1> HIDE DEF p, l
<1>7. [a EXCEPT !.pc = p, !.meta = <<>>] \in Adapters
  <2>1. <<>> \in Seq(Tensors)
    OBVIOUS
  <2> HIDE DEF a
  <2> QED
    BY <1>1, <1>6, <2>1 DEF Adapters
<1>8. [w EXCEPT !.pc = "load", !.last = l, !.clones = ClonesOf(a)] \in Workers
  BY <1>1, <1>5, <1>6 DEF Workers
<1>9. adapter' \in [1..MaxRanks -> Adapters] /\ worker' \in [1..MaxRanks -> Workers]
  BY <1>3, <1>4, <1>7, <1>8, OneAdapter, OneWorker
<1> QED
  BY <1>2, <1>3, <1>4, <1>9, AdapterFrame DEF p, l

LEMMA LoadEffect ==
    ASSUME TypeInv, NEW r \in Ranks, LoadWeights(r), RankFrame
    PROVE  LET w == worker[r]
           IN /\ TypeInv'
              /\ w.pc = "load"
              /\ adapter' = adapter
              /\ worker' = [worker EXCEPT ![r] = [w EXCEPT !.pc = IF w.last THEN "loaded" ELSE "waiting",
                                                           !.loaded = w.loaded \o w.clones, !.clones = <<>>]]
<1> DEFINE w == worker[r]
           p == IF w.last THEN "loaded" ELSE "waiting"
<1>1. w \in Workers
  BY RankTypes
<1>2. w.pc = "load" /\ adapter' = adapter
  BY DEF LoadWeights
<1>3. worker' = [worker EXCEPT ![r] = [w EXCEPT !.pc = p, !.loaded = w.loaded \o w.clones, !.clones = <<>>]]
  BY RanksAre DEF LoadWeights, TypeInv
<1>4. w.loaded \o w.clones \in Seq(Loads) /\ p \in {"loaded", "waiting"}
  BY <1>1 DEF Workers
<1> HIDE DEF p
<1>5. [w EXCEPT !.pc = p, !.loaded = w.loaded \o w.clones, !.clones = <<>>] \in Workers
  <2>1. <<>> \in Seq(Loads)
    OBVIOUS
  <2> DEFINE all == w.loaded \o w.clones
  <2> HIDE DEF w, all
  <2>2. [w EXCEPT !.pc = p, !.loaded = all, !.clones = <<>>] \in Workers
    BY <1>1, <1>4, <2>1 DEF Workers, all
  <2> QED
    BY <2>2 DEF all
<1>6. adapter' \in [1..MaxRanks -> Adapters] /\ worker' \in [1..MaxRanks -> Workers]
  BY <1>2, <1>3, <1>5, OneWorker DEF TypeInv
<1> QED
  BY <1>2, <1>3, <1>6, AdapterFrame DEF p

LEMMA AdapterDoneEffect ==
    ASSUME TypeInv, NEW r \in Ranks, AdapterDone(r), RankFrame
    PROVE  /\ TypeInv'
           /\ adapter[r].pc = "future" /\ FutureDone(r)
           /\ adapter' = [adapter EXCEPT ![r] = [adapter[r] EXCEPT !.pc = "done"]]
           /\ worker' = worker
<1>1. adapter[r] \in Adapters
  BY RankTypes
<1>2. adapter' = [adapter EXCEPT ![r] = [adapter[r] EXCEPT !.pc = "done"]] /\ worker' = worker
  BY DEF AdapterDone
<1>3. [adapter[r] EXCEPT !.pc = "done"] \in Adapters
  BY <1>1 DEF Adapters
<1>4. adapter' \in [1..MaxRanks -> Adapters] /\ worker' \in [1..MaxRanks -> Workers]
  BY <1>2, <1>3, OneAdapter DEF TypeInv
<1> QED
  BY <1>2, <1>4, AdapterFrame DEF AdapterDone

-----------------------------------------------------------------------------
(* A rank: its engine e, adapter a, worker w and pair of buffers *)

Load(v, i) == [param |-> i, values |-> {<<v, i>>}]
Cloned(w) == Len(w.loaded) + Len(w.clones)
Taken(a, w) == Cloned(w) + Len(a.meta)

\* the parameter that follows those of the engine's bucket
EndOf(e, a, w) == Taken(a, w) + 2 + Len(e.meta) - e.pos

\* What the worker has loaded, and will load of what it has cloned.
WorkerOK(w, v) ==
    /\ \A k \in 1..Len(w.loaded) : w.loaded[k] = Load(v, k)
    /\ \A k \in 1..Len(w.clones) : w.clones[k] = Load(v, Len(w.loaded) + k)
    /\ w.pc # "load" => w.clones = <<>>
    /\ w.pc \in {"off", "called"} => w.loaded = <<>>
    /\ w.pc = "load" /\ w.last => Cloned(w) = NumParams
    /\ w.pc = "loaded" => Len(w.loaded) = NumParams

\* The shared buffer holds the tensors whose copies have run; those still to be
\* copied are the last ones, and stand in buffer b of the engine.
AdapterOK(a, w, b, source, v) ==
    /\ Covers(a.meta, Cloned(w) + 1)
    /\ Len(a.copies) <= Len(a.meta)
    /\ \A k \in 1 .. Len(a.meta) - Len(a.copies) : Holding(a.shared, a.meta[k], v)
    /\ \A j \in 1..Len(a.copies) : /\ a.copies[j].to = a.meta[Len(a.meta) - Len(a.copies) + j]
                                   /\ a.copies[j].buffer = b
                                   /\ Holding(source, a.copies[j].from, v)
    /\ a.pc # "fill" => a.copies = <<>>
    /\ a.pc \in {"idle", "attach", "future", "done"} => a.meta = <<>>
    /\ a.pc \in {"idle", "attach"} <=> w.pc \in {"off", "called"}
    /\ a.pc \in {"future", "done"} => w.pc = "loaded" \/ (w.pc = "load" /\ w.last)
    /\ w.pc = "loaded" => a.pc \in {"future", "done"}
    /\ w.pc = "load" /\ w.last => a.pc \in {"future", "done"}

\* The bucket being yielded goes on where the adapter stands, and the bucket being
\* received goes on where that one ends.
EngineOK(e, a, w, pair, v) ==
    /\ e.pc \in {"idle", "first", "loop", "tail", "done"}
    /\ e.pos <= Len(e.meta) + 1
    /\ Covers(e.meta, EndOf(e, a, w) - Len(e.meta))
    /\ e.pc = "idle" <=> a.pc \in {"idle", "attach"}
    /\ e.pc \in {"idle", "first"} => e.meta = <<>> /\ e.pos = 1 /\ Taken(a, w) = 0 /\ e.out = "none"
    /\ e.pc \in {"first", "loop"} => e.in \in {"start", "moving", "done"}
    /\ e.pc \notin {"first", "loop"} => e.in = "none"
    /\ e.pc \in {"tail", "done"} => EndOf(e, a, w) = NumParams + 1
    /\ e.pc = "done" => e.pos = Len(e.meta) + 1 /\ e.out = "none"
    /\ e.in \in {"moving", "done"} => Covers(e.got.meta, EndOf(e, a, w))
    /\ e.in \in {"moving", "done"} /\ e.got.last => EndOf(e, a, w) + Len(e.got.meta) = NumParams + 1
    /\ e.in = "done" => Intact(pair[2 - e.cur], e.got.meta, v)
    /\ e.pc # "idle" => Intact(pair[e.cur + 1], e.meta, v)
    /\ a.pc \in {"lastReply", "future", "done"} => e.pc = "done"

RankOK(e, a, w, pair, v) ==
    /\ WorkerOK(w, v)
    /\ AdapterOK(a, w, e.cur + 1, pair[e.cur + 1], v)
    /\ EngineOK(e, a, w, pair, v)

LEMMA RankFields ==
    ASSUME NEW e \in Engines, NEW a \in Adapters, NEW w \in Workers
    PROVE  /\ e.cur \in {0, 1} /\ e.cur + 1 \in 1..2 /\ 2 - e.cur \in 1..2 /\ e.cur + 1 # 2 - e.cur
           /\ e.meta \in Seq(Tensors) /\ e.pos \in Nat \ {0}
           /\ e.in \in {"moving", "done"} => e.got.meta \in Seq(Tensors)
           /\ a.meta \in Seq(Tensors) /\ a.copies \in Seq(Copies) /\ a.shared \in Contents
           /\ w.loaded \in Seq(Loads) /\ w.clones \in Seq(Loads)
           /\ Cloned(w) \in Nat /\ Taken(a, w) \in Nat /\ EndOf(e, a, w) \in Int
<1>1. e \in EngineRecords /\ (e.in \in {"moving", "done"} => e.got \in Buckets)
  BY EngineIs
<1>2. e.cur \in {0, 1} /\ e.meta \in Seq(Tensors) /\ e.pos \in Nat \ {0}
  BY <1>1 DEF EngineRecords
<1>3. e.in \in {"moving", "done"} => e.got.meta \in Seq(Tensors)
  BY <1>1 DEF Buckets
<1>4. a.meta \in Seq(Tensors) /\ a.copies \in Seq(Copies) /\ a.shared \in Contents
  BY DEF Adapters
<1>5. w.loaded \in Seq(Loads) /\ w.clones \in Seq(Loads)
  BY DEF Workers
<1>6. Cloned(w) \in Nat
  <2>1. Len(w.loaded) \in Nat /\ Len(w.clones) \in Nat
    BY <1>5
  <2>2. \A x, y \in Nat : x + y \in Nat
    OBVIOUS
  <2> QED
    BY <2>1, <2>2, Zenon DEF Cloned
<1>7. Taken(a, w) \in Nat
  BY <1>4, <1>6 DEF Taken
<1>8. EndOf(e, a, w) \in Int
  BY <1>2, <1>7 DEF EndOf
<1> QED
  BY <1>2, <1>3, <1>4, <1>5, <1>6, <1>7, <1>8

LEMMA NewRank ==
    ASSUME NEW pair \in [1..2 -> Contents], NEW v
    PROVE  RankOK(NewEngine, NewAdapter, NewWorker, pair, v) /\ EndOf(NewEngine, NewAdapter, NewWorker) = 1
<1> USE DEF NewEngine, NewAdapter, NewWorker
<1>1. Cloned(NewWorker) = 0 /\ Taken(NewAdapter, NewWorker) = 0
  BY DEF Cloned, Taken
<1>2. EndOf(NewEngine, NewAdapter, NewWorker) = 1
  BY <1>1 DEF EndOf
<1>3. WorkerOK(NewWorker, v)
  BY <1>1 DEF WorkerOK
<1>4. \A i : Covers(<<>>, i)
  BY DEF Covers
<1>5. AdapterOK(NewAdapter, NewWorker, NewEngine.cur + 1, pair[NewEngine.cur + 1], v)
  BY <1>4 DEF AdapterOK
<1>6. EngineOK(NewEngine, NewAdapter, NewWorker, pair, v)
  BY <1>1, <1>4 DEF EngineOK
<1> QED
  BY <1>2, <1>3, <1>5, <1>6 DEF RankOK

\* A bucket is about to be received that goes on where the last one ends.
LEMMA ReceiveRank ==
    ASSUME NEW e \in Engines, NEW a \in Adapters, NEW w \in Workers, NEW pair \in [1..2 -> Contents], NEW v,
           RankOK(e, a, w, pair, v), e.in = "start", NEW m \in Buckets, Covers(m.meta, EndOf(e, a, w)),
           m.last => EndOf(e, a, w) + Len(m.meta) = NumParams + 1
    PROVE  LET f == [e EXCEPT !.in = "moving", !.got = m]
           IN RankOK(f, a, w, pair, v) /\ EndOf(f, a, w) = EndOf(e, a, w)
<1> DEFINE f == [e EXCEPT !.in = "moving", !.got = m]
<1>1. /\ f.pc = e.pc /\ f.cur = e.cur /\ f.meta = e.meta /\ f.pos = e.pos /\ f.out = e.out
      /\ f.in = "moving" /\ f.got = m
  BY DEF Engines, EngineRecords
<1> HIDE DEF f
<1>2. EndOf(f, a, w) = EndOf(e, a, w)
  BY <1>1 DEF EndOf
<1>3. EngineOK(f, a, w, pair, v)
  BY <1>1, <1>2 DEF RankOK, EngineOK
<1> QED
  BY <1>1, <1>2, <1>3 DEF RankOK, f

\* The bucket has arrived in the buffer for receiving.
LEMMA ArriveRank ==
    ASSUME NEW e \in Engines, NEW a \in Adapters, NEW w \in Workers, NEW pair \in [1..2 -> Contents], NEW v,
           RankOK(e, a, w, pair, v), e.in = "moving", NEW c \in Contents, Intact(c, e.got.meta, v)
    PROVE  LET f == [e EXCEPT !.in = "done"]
               new == [pair EXCEPT ![2 - e.cur] = c]
           IN RankOK(f, a, w, new, v) /\ EndOf(f, a, w) = EndOf(e, a, w)
<1> DEFINE f == [e EXCEPT !.in = "done"]
           new == [pair EXCEPT ![2 - e.cur] = c]
<1>1. /\ f.pc = e.pc /\ f.cur = e.cur /\ f.meta = e.meta /\ f.pos = e.pos /\ f.out = e.out
      /\ f.in = "done" /\ f.got = e.got
  BY DEF Engines, EngineRecords
<1>2. new[2 - e.cur] = c /\ new[e.cur + 1] = pair[e.cur + 1]
  BY RankFields
<1> HIDE DEF f, new
<1>3. EndOf(f, a, w) = EndOf(e, a, w)
  BY <1>1 DEF EndOf
<1>4. EngineOK(f, a, w, new, v)
  BY <1>1, <1>2, <1>3 DEF RankOK, EngineOK
<1> QED
  BY <1>1, <1>2, <1>3, <1>4 DEF RankOK, f, new

\* The buffers are swapped: what was received is yielded next.
LEMMA SwapRank ==
    ASSUME NEW e \in Engines, NEW a \in Adapters, NEW w \in Workers, NEW pair \in [1..2 -> Contents], NEW v,
           RankOK(e, a, w, pair, v), e.in = "done",
           e.pc = "first" \/ (e.pc = "loop" /\ e.pos > Len(e.meta) /\ a.copies = <<>>),
           NEW f \in Engines,
           f.pc = IF e.got.last THEN "tail" ELSE "loop", f.in = IF e.got.last THEN "none" ELSE "start",
           f.cur = 1 - e.cur, f.meta = e.got.meta, f.pos = 1
    PROVE  RankOK(f, a, w, pair, v) /\ EndOf(f, a, w) = EndOf(e, a, w) + Len(e.got.meta)
<1>1. /\ e.cur \in {0, 1} /\ e.meta \in Seq(Tensors) /\ e.pos \in Nat \ {0} /\ e.got.meta \in Seq(Tensors)
      /\ a.meta \in Seq(Tensors) /\ a.copies \in Seq(Copies)
      /\ Cloned(w) \in Nat /\ Taken(a, w) \in Nat
  BY RankFields
<1>2. f.cur + 1 = 2 - e.cur
  BY <1>1
<1>3. e.pos = Len(e.meta) + 1
  BY <1>1 DEF RankOK, EngineOK
<1>4. EndOf(e, a, w) = Taken(a, w) + 1
  BY <1>1, <1>3 DEF EndOf
<1>5. EndOf(f, a, w) = EndOf(e, a, w) + Len(e.got.meta)
  <2>1. e \in EngineRecords /\ f \in EngineRecords
    BY EngineIs
  <2> QED
    BY <1>1, <1>4, <2>1 DEF EndOf, EngineRecords, Messages
<1>6. a.copies = <<>>
  <2>1. e.pc = "first" => Taken(a, w) = 0
    BY DEF RankOK, EngineOK
  <2>2. Taken(a, w) = 0 => Len(a.meta) = 0
    BY <1>1 DEF Taken
  <2>3. Len(a.copies) <= Len(a.meta)
    BY DEF RankOK, AdapterOK
  <2> QED
    BY <1>1, <2>1, <2>2, <2>3
<1>7. AdapterOK(a, w, f.cur + 1, pair[f.cur + 1], v)
  BY <1>6 DEF RankOK, AdapterOK
<1>8. EngineOK(f, a, w, pair, v)
  <2>1. EndOf(f, a, w) - Len(f.meta) = EndOf(e, a, w)
    BY <1>1, <1>4, <1>5
  <2>2. Covers(f.meta, EndOf(f, a, w) - Len(f.meta))
    BY <2>1 DEF RankOK, EngineOK
  <2>3. f.pos <= Len(f.meta) + 1
    BY <1>1
  <2>4. a.pc \notin {"idle", "attach"}
    BY DEF RankOK, EngineOK
  <2>5. a.pc \notin {"lastReply", "future", "done"}
    BY DEF RankOK, EngineOK
  <2>6. f.pc = "tail" => EndOf(f, a, w) = NumParams + 1
    BY <1>5 DEF RankOK, EngineOK
  <2>7. Intact(pair[f.cur + 1], f.meta, v)
    BY <1>2 DEF RankOK, EngineOK
  <2>8. /\ f.pc \in {"tail", "loop"} /\ f.in \in {"none", "start"}
        /\ f.pc = "loop" => f.in = "start"
        /\ f.pc = "tail" => f.in = "none"
    OBVIOUS
  <2> QED
    BY <2>2, <2>3, <2>4, <2>5, <2>6, <2>7, <2>8 DEF EngineOK
<1> QED
  BY <1>5, <1>7, <1>8 DEF RankOK

\* A tensor t of the engine's bucket is yielded, and its copy into the adapter's queued.
Yielded(e) == [e EXCEPT !.pos = @ + 1]
WithCopy(a, buffer, t) ==
    LET m == WithTensor(a.meta, t.param)
    IN [a EXCEPT !.meta = m, !.copies = Append(@, [buffer |-> buffer, from |-> t, to |-> m[Len(m)]])]

LEMMA YieldRank ==
    ASSUME NEW e \in Engines, NEW a \in Adapters, NEW w \in Workers, NEW pair \in [1..2 -> Contents], NEW v,
           RankOK(e, a, w, pair, v), e.pc \in {"loop", "tail"}, e.pos \in 1..Len(e.meta), a.pc = "fill",
           NEW t, t = e.meta[e.pos], Fits(a.meta, t.param)
    PROVE  LET f == Yielded(e)
               b == WithCopy(a, e.cur + 1, t)
           IN RankOK(f, b, w, pair, v) /\ EndOf(f, b, w) = EndOf(e, a, w)
<1> DEFINE m == WithTensor(a.meta, t.param)
           u == [param |-> t.param, offset |-> Used(a.meta)]
           copy == [buffer |-> e.cur + 1, from |-> t, to |-> m[Len(m)]]
           f == [e EXCEPT !.pos = @ + 1]
           b == [a EXCEPT !.meta = m, !.copies = Append(@, copy)]
<1>1. /\ e.cur + 1 \in 1..2 /\ e.meta \in Seq(Tensors) /\ e.pos \in Nat \ {0}
      /\ a.meta \in Seq(Tensors) /\ a.copies \in Seq(Copies)
      /\ Cloned(w) \in Nat /\ Taken(a, w) \in Nat
  BY RankFields
<1>2. t \in Tensors /\ t.param \in Params
  BY <1>1, TensorsAre
<1>3. t.param = Cloned(w) + 1 + Len(a.meta)
  <2>1. t.param = (EndOf(e, a, w) - Len(e.meta)) + e.pos - 1
    BY <1>1 DEF RankOK, EngineOK, Covers
  <2>2. e \in EngineRecords
    BY EngineIs
  <2> QED
    BY <1>1, <1>2, <2>1, <2>2, SMTT(30) DEF EndOf, Taken, EngineRecords, Adapters, Tensors
<1>4. /\ m \in Seq(Tensors) /\ u \in Tensors /\ Len(m) = Len(a.meta) + 1 /\ m[Len(m)] = u
      /\ \A k \in 1..Len(a.meta) : m[k] = a.meta[k]
  BY <1>1, <1>2, AddsTensor
<1>5. Covers(m, Cloned(w) + 1)
  <2>1. Cloned(w) + 1 \in Nat \ {0} /\ Covers(a.meta, Cloned(w) + 1)
    BY <1>1 DEF RankOK, AdapterOK
  <2> QED
    BY <1>1, <1>2, <1>3, <2>1, AddCovers
<1>6. /\ f.pc = e.pc /\ f.cur = e.cur /\ f.meta = e.meta /\ f.pos = e.pos + 1 /\ f.out = e.out
      /\ f.in = e.in /\ f.got = e.got
  BY DEF Engines, EngineRecords
<1>7. /\ b.pc = a.pc /\ b.meta = m /\ b.copies = Append(a.copies, copy) /\ b.shared = a.shared
  BY DEF Adapters
<1>8. copy.to = m[Len(m)] /\ copy.buffer = e.cur + 1 /\ copy.from = t
  OBVIOUS
<1>9. Holding(pair[e.cur + 1], t, v)
  BY DEF RankOK, EngineOK, Intact
<1>10. f \in EngineRecords /\ e \in EngineRecords
  BY EngineIs DEF EngineRecords
<1>11. b \in Adapters
  <2>1. copy \in Copies
    <3>1. u.param = t.param
      OBVIOUS
    <3> HIDE DEF m, u
    <3> QED
      BY <1>1, <1>2, <1>4, <3>1 DEF Copies
  <2> HIDE DEF m, copy
  <2>2. Append(a.copies, copy) \in Seq(Copies)
    BY <1>1, <2>1
  <2> QED
    BY <1>4, <2>2 DEF Adapters
<1> HIDE DEF m, u, copy, f, b
<1>12. /\ Len(b.copies) = Len(a.copies) + 1 /\ b.copies[Len(b.copies)] = copy
       /\ \A j \in 1..Len(a.copies) : b.copies[j] = a.copies[j]
  BY <1>1, <1>7, SMTT(30)
<1>13. Taken(b, w) = Taken(a, w) + 1
  BY <1>1, <1>4, <1>7 DEF Taken
<1>14. EndOf(f, b, w) = EndOf(e, a, w)
  BY <1>1, <1>6, <1>13, <1>10 DEF EndOf, EngineRecords
<1>15. AdapterOK(b, w, f.cur + 1, pair[f.cur + 1], v)
  <2>1. Len(b.copies) <= Len(b.meta) /\ Len(b.meta) - Len(b.copies) = Len(a.meta) - Len(a.copies)
    BY <1>1, <1>4, <1>7, <1>12 DEF RankOK, AdapterOK
  <2>2. \A k \in 1 .. Len(b.meta) - Len(b.copies) : Holding(b.shared, b.meta[k], v)
    <3> SUFFICES ASSUME NEW k \in 1 .. Len(b.meta) - Len(b.copies)
                 PROVE  Holding(b.shared, b.meta[k], v)
      OBVIOUS
    <3>1. k \in 1 .. Len(a.meta) - Len(a.copies) /\ k \in 1..Len(a.meta)
      BY <1>1, <1>11, <2>1 DEF Adapters
    <3> QED
      BY <1>4, <1>7, <3>1 DEF RankOK, AdapterOK
  <2>3. ASSUME NEW j \in 1..Len(b.copies)
        PROVE  /\ b.copies[j].to = b.meta[Len(b.meta) - Len(b.copies) + j]
               /\ b.copies[j].buffer = f.cur + 1
               /\ Holding(pair[f.cur + 1], b.copies[j].from, v)
    <3>1. CASE j = Len(b.copies)
      <4>1. Len(b.meta) - Len(b.copies) + j = Len(b.meta)
        <5>1. Len(b.meta) \in Nat /\ Len(b.copies) \in Nat
          BY <1>11 DEF Adapters
        <5>2. \A x, y \in Nat : x - y + y = x
          OBVIOUS
        <5> QED
          BY <3>1, <5>1, <5>2, Zenon
      <4>2. b.meta[Len(b.meta)] = m[Len(m)] /\ b.copies[j] = copy
        BY <1>7, <1>12, <3>1, Zenon
      <4> QED
        BY <1>6, <1>8, <1>9, <4>1, <4>2, Zenon
    <3>2. CASE j \in 1..Len(a.copies)
      <4>1. Len(a.meta) - Len(a.copies) + j \in 1..Len(a.meta)
        BY <1>1, <3>2 DEF RankOK, AdapterOK, Adapters
      <4>2. m[Len(b.meta) - Len(b.copies) + j] = a.meta[Len(a.meta) - Len(a.copies) + j]
        BY <1>4, <2>1, <4>1
      <4>3. /\ a.copies[j].to = a.meta[Len(a.meta) - Len(a.copies) + j]
            /\ a.copies[j].buffer = e.cur + 1
            /\ Holding(pair[e.cur + 1], a.copies[j].from, v)
        BY <3>2 DEF RankOK, AdapterOK
      <4>4. b.copies[j] = a.copies[j] /\ b.meta = m
        BY <1>7, <1>12, <3>2, Zenon
      <4> QED
        BY <1>6, <4>2, <4>3, <4>4, Zenon
    <3>3. Len(a.copies) \in Nat
      BY DEF Adapters
    <3>4. \A n \in Nat : \A i \in 1 .. n + 1 : i = n + 1 \/ i \in 1..n
      OBVIOUS
    <3>5. j = Len(b.copies) \/ j \in 1..Len(a.copies)
      BY <1>12, <3>3, <3>4, Zenon
    <3> QED
      BY <3>1, <3>2, <3>5
  <2> QED
    BY <1>5, <1>6, <1>7, <2>1, <2>2, <2>3 DEF RankOK, AdapterOK
<1>16. EngineOK(f, b, w, pair, v)
  <2>1. f.pos <= Len(f.meta) + 1
    BY <1>1, <1>6
  <2> QED
    BY <1>6, <1>7, <1>14, <2>1 DEF RankOK, EngineOK
<1>17. f = Yielded(e) /\ b = WithCopy(a, e.cur + 1, t)
  BY DEF Yielded, WithCopy, f, b, m, copy
<1> QED
  BY <1>14, <1>15, <1>16, <1>17 DEF RankOK

\* The generator of a rank is exhausted.
LEMMA ExhaustRank ==
    ASSUME NEW e \in Engines, NEW a \in Adapters, NEW w \in Workers, NEW pair \in [1..2 -> Contents], NEW v,
           RankOK(e, a, w, pair, v), e.pc = "tail", e.pos > Len(e.meta)
    PROVE  LET f == [e EXCEPT !.pc = "done", !.out = "none"]
           IN RankOK(f, a, w, pair, v) /\ EndOf(f, a, w) = EndOf(e, a, w)
<1> DEFINE f == [e EXCEPT !.pc = "done", !.out = "none"]
<1>1. /\ f.pc = "done" /\ f.cur = e.cur /\ f.meta = e.meta /\ f.pos = e.pos /\ f.out = "none"
      /\ f.in = e.in /\ f.got = e.got
  BY DEF Engines, EngineRecords
<1> HIDE DEF f
<1>2. EndOf(f, a, w) = EndOf(e, a, w)
  BY <1>1 DEF EndOf
<1>3. e.pos = Len(e.meta) + 1
  <2>1. e.meta \in Seq(Tensors) /\ e.pos \in Nat
    BY RankFields
  <2> QED
    BY <2>1 DEF RankOK, EngineOK
<1>4. EngineOK(f, a, w, pair, v)
  BY <1>1, <1>2, <1>3 DEF RankOK, EngineOK
<1> QED
  BY <1>1, <1>2, <1>4 DEF RankOK, f

\* The adapter enters update_weights, and calls its worker or those of its replica.
LEMMA BeginRank ==
    ASSUME NEW e \in Engines, NEW a \in Adapters, NEW w \in Workers, NEW pair, NEW v,
           RankOK(e, a, w, pair, v), a.pc = "idle"
    PROVE  LET b == [a EXCEPT !.pc = "attach"]
           IN RankOK(e, b, w, pair, v) /\ EndOf(e, b, w) = EndOf(e, a, w)
<1> DEFINE b == [a EXCEPT !.pc = "attach"]
<1>1. b.pc = "attach" /\ b.meta = a.meta /\ b.copies = a.copies /\ b.shared = a.shared
  BY DEF Adapters
<1> HIDE DEF b
<1>2. Taken(b, w) = Taken(a, w) /\ EndOf(e, b, w) = EndOf(e, a, w)
  BY <1>1 DEF EndOf, Taken
<1>3. AdapterOK(b, w, e.cur + 1, pair[e.cur + 1], v)
  BY <1>1 DEF RankOK, AdapterOK
<1>4. EngineOK(e, b, w, pair, v)
  BY <1>1, <1>2 DEF RankOK, EngineOK
<1> QED
  BY <1>2, <1>3, <1>4 DEF RankOK, b

LEMMA CallRank ==
    ASSUME NEW e \in Engines, NEW a \in Adapters, NEW w \in Workers, NEW pair, NEW v,
           RankOK(e, a, w, pair, v), w.pc = "off"
    PROVE  LET x == [w EXCEPT !.pc = "called"]
           IN RankOK(e, a, x, pair, v) /\ EndOf(e, a, x) = EndOf(e, a, w)
<1> DEFINE x == [w EXCEPT !.pc = "called"]
<1>1. x.pc = "called" /\ x.loaded = w.loaded /\ x.clones = w.clones
  BY DEF Workers
<1> HIDE DEF x
<1>2. Cloned(x) = Cloned(w) /\ Taken(a, x) = Taken(a, w) /\ EndOf(e, a, x) = EndOf(e, a, w)
  BY <1>1 DEF EndOf, Taken, Cloned
<1>3. WorkerOK(x, v)
  BY <1>1, <1>2 DEF RankOK, WorkerOK
<1>4. AdapterOK(a, x, e.cur + 1, pair[e.cur + 1], v)
  BY <1>1, <1>2 DEF RankOK, AdapterOK
<1>5. EngineOK(e, a, x, pair, v)
  BY <1>1, <1>2 DEF RankOK, EngineOK
<1> QED
  BY <1>2, <1>3, <1>4, <1>5 DEF RankOK, x

\* The first bucket is awaited.
LEMMA FirstRank ==
    ASSUME NEW e \in Engines, NEW a \in Adapters, NEW w \in Workers, NEW pair, NEW v,
           RankOK(e, a, w, pair, v), a.pc = "attach", w.pc = "called"
    PROVE  LET f == [e EXCEPT !.pc = "first", !.in = "start"]
               b == [a EXCEPT !.pc = "fill"]
               x == [w EXCEPT !.pc = "waiting"]
           IN RankOK(f, b, x, pair, v) /\ EndOf(f, b, x) = EndOf(e, a, w)
<1> DEFINE f == [e EXCEPT !.pc = "first", !.in = "start"]
           b == [a EXCEPT !.pc = "fill"]
           x == [w EXCEPT !.pc = "waiting"]
<1>1. /\ f.pc = "first" /\ f.in = "start" /\ f.cur = e.cur /\ f.meta = e.meta /\ f.pos = e.pos
      /\ f.got = e.got /\ f.out = e.out
  BY DEF Engines, EngineRecords
<1>2. b.pc = "fill" /\ b.meta = a.meta /\ b.copies = a.copies /\ b.shared = a.shared
  BY DEF Adapters
<1>3. x.pc = "waiting" /\ x.loaded = w.loaded /\ x.clones = w.clones
  BY DEF Workers
<1> HIDE DEF f, b, x
<1>4. Cloned(x) = Cloned(w) /\ Taken(b, x) = Taken(a, w) /\ EndOf(f, b, x) = EndOf(e, a, w)
  BY <1>1, <1>2, <1>3 DEF EndOf, Taken, Cloned
<1>5. WorkerOK(x, v)
  BY <1>3, <1>4 DEF RankOK, WorkerOK
<1>6. AdapterOK(b, x, f.cur + 1, pair[f.cur + 1], v)
  BY <1>1, <1>2, <1>3, <1>4, ZenonT(20) DEF RankOK, AdapterOK
<1>7. e.pc = "idle" /\ e.meta = <<>> /\ e.pos = 1 /\ Taken(a, w) = 0 /\ e.out = "none"
  BY DEF RankOK, EngineOK
<1>8. Intact(pair[f.cur + 1], f.meta, v)
  BY <1>1, <1>7 DEF Intact
<1>9. EngineOK(f, b, x, pair, v)
  BY <1>1, <1>2, <1>4, <1>7, <1>8 DEF RankOK, EngineOK
<1> QED
  BY <1>4, <1>5, <1>6, <1>9 DEF RankOK, f, b, x

\* The adapter has run its copies and sends the bucket to the worker.
LEMMA RequestRank ==
    ASSUME NEW e \in Engines, NEW a \in Adapters, NEW w \in Workers, NEW pair, NEW v,
           RankOK(e, a, w, pair, v), a.pc = "fill", a.copies = <<>>,
           NEW goes \in {"reply", "lastReply"}, goes = "lastReply" => e.pc = "done"
    PROVE  LET b == [a EXCEPT !.pc = goes]
           IN RankOK(e, b, w, pair, v) /\ EndOf(e, b, w) = EndOf(e, a, w)
<1> DEFINE b == [a EXCEPT !.pc = goes]
<1>1. b.pc = goes /\ b.meta = a.meta /\ b.copies = a.copies /\ b.shared = a.shared
  BY DEF Adapters
<1> HIDE DEF b
<1>2. Taken(b, w) = Taken(a, w) /\ EndOf(e, b, w) = EndOf(e, a, w)
  BY <1>1 DEF EndOf, Taken
<1>3. AdapterOK(b, w, e.cur + 1, pair[e.cur + 1], v)
  BY <1>1 DEF RankOK, AdapterOK
<1>4. EngineOK(e, b, w, pair, v)
  BY <1>1, <1>2 DEF RankOK, EngineOK
<1> QED
  BY <1>2, <1>3, <1>4 DEF RankOK, b

\* The future of the call is awaited.
LEMMA DoneRank ==
    ASSUME NEW e \in Engines, NEW a \in Adapters, NEW w \in Workers, NEW pair, NEW v,
           RankOK(e, a, w, pair, v), a.pc = "future"
    PROVE  LET b == [a EXCEPT !.pc = "done"]
           IN RankOK(e, b, w, pair, v) /\ EndOf(e, b, w) = EndOf(e, a, w)
<1> DEFINE b == [a EXCEPT !.pc = "done"]
<1>1. b.pc = "done" /\ b.meta = a.meta /\ b.copies = a.copies /\ b.shared = a.shared
  BY DEF Adapters
<1> HIDE DEF b
<1>2. Taken(b, w) = Taken(a, w) /\ EndOf(e, b, w) = EndOf(e, a, w)
  BY <1>1 DEF EndOf, Taken
<1>3. AdapterOK(b, w, e.cur + 1, pair[e.cur + 1], v)
  BY <1>1, ZenonT(20) DEF RankOK, AdapterOK
<1>4. EngineOK(e, b, w, pair, v)
  BY <1>1, <1>2 DEF RankOK, EngineOK
<1> QED
  BY <1>2, <1>3, <1>4 DEF RankOK, b

\* The copy that was queued first runs.
LEMMA CopyRank ==
    ASSUME NEW e \in Engines, NEW a \in Adapters, NEW w \in Workers, NEW pair \in [1..2 -> Contents], NEW v,
           RankOK(e, a, w, pair, v), a.copies # <<>>
    PROVE  LET c == Head(a.copies)
               b == [a EXCEPT !.copies = Tail(@),
                              !.shared = Copied(a.shared, c.to, pair[c.buffer], c.from)]
           IN RankOK(e, b, w, pair, v) /\ EndOf(e, b, w) = EndOf(e, a, w)
<1> DEFINE c == Head(a.copies)
           rest == Tail(a.copies)
           new == Copied(a.shared, c.to, pair[c.buffer], c.from)
           b == [a EXCEPT !.copies = rest, !.shared = new]
<1>1. a.copies \in Seq(Copies) /\ a.meta \in Seq(Tensors) /\ a.shared \in Contents
  BY RankFields
<1>2. /\ c = a.copies[1] /\ c \in Copies /\ rest \in Seq(Copies)
      /\ Len(a.copies) \in Nat \ {0} /\ Len(rest) = Len(a.copies) - 1
      /\ \A j \in 1..Len(rest) : rest[j] = a.copies[j + 1]
  BY <1>1
<1>3. b.pc = a.pc /\ b.meta = a.meta /\ b.copies = rest /\ b.shared = new
  BY DEF Adapters
<1> HIDE DEF c, rest, b
<1>4. /\ Covers(a.meta, Cloned(w) + 1) /\ Len(a.copies) <= Len(a.meta)
      /\ \A k \in 1 .. Len(a.meta) - Len(a.copies) : Holding(a.shared, a.meta[k], v)
      /\ \A j \in 1..Len(a.copies) : /\ a.copies[j].to = a.meta[Len(a.meta) - Len(a.copies) + j]
                                     /\ a.copies[j].buffer = e.cur + 1
                                     /\ Holding(pair[e.cur + 1], a.copies[j].from, v)
  BY DEF RankOK, AdapterOK
<1> DEFINE d == Len(a.meta) - Len(a.copies)
<1>5. /\ Len(a.meta) \in Nat /\ d \in Nat /\ d + 1 \in 1..Len(a.meta)
      /\ Len(a.meta) - Len(rest) = d + 1 /\ Len(rest) <= Len(a.meta)
  <2>1. Len(a.meta) \in Nat /\ Len(a.copies) \in Nat \ {0}
    BY <1>1, <1>2
  <2>2. \A x \in Nat, y \in Nat \ {0} : y <= x => /\ x - y \in Nat /\ x - y + 1 \in 1..x
                                                 /\ x - (y - 1) = x - y + 1 /\ y - 1 <= x
    OBVIOUS
  <2> QED
    BY <1>2, <1>4, <2>1, <2>2, Zenon
<1>6. /\ c.to = a.meta[d + 1] /\ c.buffer = e.cur + 1 /\ Holding(pair[e.cur + 1], c.from, v)
  <2>1. \A y \in Nat \ {0} : 1 \in 1..y
    OBVIOUS
  <2>2. 1 \in 1..Len(a.copies)
    BY <1>2, <2>1, Zenon
  <2> QED
    BY <1>2, <1>4, <2>2, Zenon
<1>7. /\ c.to \in Tensors /\ c.from \in Tensors /\ c.from.param = c.to.param /\ pair[c.buffer] \in Contents
  BY <1>2 DEF Copies
<1>8. /\ Holding(new, c.to, v)
      /\ \A t \in Tensors : t.offset + Sizes[t.param] <= c.to.offset /\ Holding(a.shared, t, v)
                            => Holding(new, t, v)
  BY <1>1, <1>6, <1>7, CopyHolds, Zenon
<1> HIDE DEF new
<1>9. \A k \in 1 .. d + 1 : Holding(new, a.meta[k], v)
  <2> SUFFICES ASSUME NEW k \in 1 .. d + 1 PROVE Holding(new, a.meta[k], v)
    OBVIOUS
  <2>1. CASE k = d + 1
    BY <1>6, <1>8, <2>1
  <2>2. CASE k \in 1..d
    <3>1. k \in 1..Len(a.meta) /\ k < d + 1
      <4>1. \A x, y \in Nat : x + 1 \in 1..y => \A i \in 1..x : i \in 1..y /\ i < x + 1
        OBVIOUS
      <4> QED
        BY <1>5, <2>2, <4>1, Zenon
    <3>2. a.meta[k] \in Tensors
      BY <1>1, <3>1
    <3>3. a.meta[k].offset + Sizes[a.meta[k].param] <= c.to.offset
      BY <1>4, <1>5, <1>6, <3>1 DEF Covers
    <3> QED
      BY <1>4, <1>8, <2>2, <3>2, <3>3
  <2> QED
    BY <1>5, <2>1, <2>2
<1>10. \A j \in 1..Len(rest) : /\ rest[j].to = a.meta[d + 1 + j]
                               /\ rest[j].buffer = e.cur + 1
                               /\ Holding(pair[e.cur + 1], rest[j].from, v)
  <2> SUFFICES ASSUME NEW j \in 1..Len(rest)
               PROVE  /\ rest[j].to = a.meta[d + 1 + j]
                      /\ rest[j].buffer = e.cur + 1
                      /\ Holding(pair[e.cur + 1], rest[j].from, v)
    OBVIOUS
  <2>1. j + 1 \in 1..Len(a.copies) /\ d + (j + 1) = d + 1 + j
    <3>1. \A x \in Nat \ {0} : \A y \in Nat, i \in 1 .. x - 1 : i + 1 \in 1..x /\ y + (i + 1) = y + 1 + i
      OBVIOUS
    <3>2. j \in 1 .. Len(a.copies) - 1
      BY <1>2, Zenon
    <3> QED
      BY <1>2, <1>5, <3>1, <3>2, Zenon
  <2> QED
    BY <1>2, <1>4, <2>1
<1>11. a.pc = "fill"
  BY DEF RankOK, AdapterOK
<1>12. Taken(b, w) = Taken(a, w) /\ EndOf(e, b, w) = EndOf(e, a, w)
  BY <1>3 DEF EndOf, Taken
<1>13. AdapterOK(b, w, e.cur + 1, pair[e.cur + 1], v)
  <2>1. /\ \A k \in 1 .. Len(b.meta) - Len(b.copies) : Holding(b.shared, b.meta[k], v)
        /\ \A j \in 1..Len(b.copies) : b.copies[j].to = b.meta[Len(b.meta) - Len(b.copies) + j]
        /\ Len(b.copies) <= Len(b.meta)
    BY <1>3, <1>5, <1>9, <1>10
  <2> QED
    BY <1>3, <1>4, <1>10, <1>11, <2>1 DEF RankOK, AdapterOK
<1>14. EngineOK(e, b, w, pair, v)
  BY <1>3, <1>12 DEF RankOK, EngineOK
<1> QED
  BY <1>12, <1>13, <1>14 DEF RankOK, b, new, c, rest

\* The worker clones the bucket, whose tensors have all been copied.
HandedOver(a) == [a EXCEPT !.pc = IF a.pc = "lastReply" THEN "future" ELSE "fill", !.meta = <<>>]
WithClones(w, a) == [w EXCEPT !.pc = "load", !.last = (a.pc = "lastReply"), !.clones = ClonesOf(a)]

LEMMA CloneRank ==
    ASSUME NEW e \in Engines, NEW a \in Adapters, NEW w \in Workers, NEW pair \in [1..2 -> Contents], NEW v,
           RankOK(e, a, w, pair, v), w.pc = "waiting", a.pc \in {"reply", "lastReply"}
    PROVE  LET b == HandedOver(a)
               x == WithClones(w, a)
           IN RankOK(e, b, x, pair, v) /\ EndOf(e, b, x) = EndOf(e, a, w)
<1>1. PICK last \in BOOLEAN : last = (a.pc = "lastReply")
  OBVIOUS
<1>2. PICK goes : goes = IF a.pc = "lastReply" THEN "future" ELSE "fill"
  OBVIOUS
<1> DEFINE n == Len(a.meta)
           m == Len(w.loaded)
           b == [a EXCEPT !.pc = goes, !.meta = <<>>]
           x == [w EXCEPT !.pc = "load", !.last = last, !.clones = ClonesOf(a)]
<1>3. b.pc = goes /\ b.meta = <<>> /\ b.copies = a.copies /\ b.shared = a.shared
  BY DEF Adapters
<1>4. x.pc = "load" /\ x.last = last /\ x.loaded = w.loaded /\ x.clones = ClonesOf(a)
  BY DEF Workers
<1>5. a.meta \in Seq(Tensors) /\ n \in Nat /\ m \in Nat /\ w.loaded \in Seq(Loads) /\ a.copies = <<>> /\ w.clones = <<>>
  BY RankFields DEF RankOK, AdapterOK, WorkerOK
<1>6. /\ Covers(a.meta, Cloned(w) + 1)
      /\ \A k \in 1..n : Holding(a.shared, a.meta[k], v)
  BY <1>5 DEF RankOK, AdapterOK
<1>7. Cloned(w) = m
  BY <1>5 DEF Cloned
<1> HIDE DEF b, x
<1>8. \A k \in 1..n : ClonesOf(a)[k] = Load(v, m + k)
  <2> SUFFICES ASSUME NEW k \in 1..n PROVE ClonesOf(a)[k] = Load(v, m + k)
    OBVIOUS
  <2>1. a.meta[k].param = m + k
    BY <1>5, <1>6, <1>7 DEF Covers
  <2>2. Values(a.shared, a.meta[k]) = {<<v, m + k>>}
    BY <1>6, <2>1 DEF Holding
  <2> QED
    BY <2>1, <2>2 DEF ClonesOf, Load
<1>9. Len(ClonesOf(a)) = n
  BY <1>5 DEF ClonesOf
<1>10. Cloned(x) = m + n /\ Taken(b, x) = m + n /\ Taken(a, w) = m + n
  BY <1>3, <1>4, <1>5, <1>7, <1>9 DEF Cloned, Taken
<1>11. EndOf(e, b, x) = EndOf(e, a, w)
  BY <1>10 DEF EndOf
<1>12. last => m + n = NumParams
  <2> SUFFICES ASSUME last PROVE m + n = NumParams
    OBVIOUS
  <2>1. e.pc = "done" /\ EndOf(e, a, w) = NumParams + 1 /\ e.pos = Len(e.meta) + 1
    BY <1>1 DEF RankOK, EngineOK
  <2>2. e \in EngineRecords
    BY EngineIs
  <2> QED
    <3>1. m + n + 2 + Len(e.meta) - (Len(e.meta) + 1) = NumParams + 1
      BY <1>10, <2>1, Zenon DEF EndOf
    <3>2. \A h, j, k \in Nat : h + 2 + j - (j + 1) = k + 1 => h = k
      OBVIOUS
    <3>3. m + n \in Nat
      BY <1>10, RankFields, Zenon
    <3>4. NumParams \in Nat /\ Len(e.meta) \in Nat
      BY <2>2, SizesAre DEF EngineRecords
    <3> QED
      BY <3>1, <3>2, <3>3, <3>4, Zenon
<1>13. WorkerOK(x, v)
  BY <1>4, <1>8, <1>9, <1>10, <1>12 DEF RankOK, WorkerOK
<1>14. AdapterOK(b, x, e.cur + 1, pair[e.cur + 1], v)
  <2>1. b.copies = <<>> /\ Len(b.meta) = 0 /\ Len(b.copies) = 0
    BY <1>3, <1>5
  <2>2. Covers(b.meta, Cloned(x) + 1)
    BY <2>1 DEF Covers
  <2>3. b.pc \in {"fill", "future"} /\ (x.last <=> b.pc = "future") /\ x.pc = "load"
    <3>1. last <=> a.pc = "lastReply"
      BY <1>1, Zenon
    <3> QED
      BY <1>3, <1>4, <1>2, <3>1
  <2> QED
    BY <2>1, <2>2, <2>3 DEF RankOK, AdapterOK
<1>15. EngineOK(e, b, x, pair, v)
  <2>1. b.pc \in {"fill", "future"} /\ (b.pc = "future" => e.pc = "done")
    BY <1>3, <1>2 DEF RankOK, EngineOK
  <2>2. b.pc \notin {"idle", "attach"} /\ a.pc \notin {"idle", "attach"}
    BY <2>1
  <2> QED
    BY <1>10, <1>11, <2>1, <2>2 DEF RankOK, EngineOK
<1>16. b = HandedOver(a) /\ x = WithClones(w, a)
  BY <1>1, <1>2, Zenon DEF HandedOver, WithClones, b, x
<1> QED
  BY <1>11, <1>13, <1>14, <1>15, <1>16 DEF RankOK

\* The worker loads what it has cloned.
WithLoaded(w) == [w EXCEPT !.pc = IF w.last THEN "loaded" ELSE "waiting",
                           !.loaded = w.loaded \o w.clones, !.clones = <<>>]

LEMMA LoadRank ==
    ASSUME NEW e \in Engines, NEW a \in Adapters, NEW w \in Workers, NEW pair, NEW v,
           RankOK(e, a, w, pair, v), w.pc = "load"
    PROVE  LET x == WithLoaded(w)
           IN /\ RankOK(e, a, x, pair, v) /\ EndOf(e, a, x) = EndOf(e, a, w)
              /\ Len(x.loaded) = Cloned(w)
<1>1. PICK goes : goes = IF w.last THEN "loaded" ELSE "waiting"
  OBVIOUS
<1> DEFINE n == Len(w.clones)
           m == Len(w.loaded)
           both == w.loaded \o w.clones
           x == [w EXCEPT !.pc = goes, !.loaded = both, !.clones = <<>>]
<1>2. x.pc = goes /\ x.last = w.last /\ x.loaded = both /\ x.clones = <<>>
  BY DEF Workers
<1>3. w.loaded \in Seq(Loads) /\ w.clones \in Seq(Loads) /\ m \in Nat /\ n \in Nat
  BY RankFields
<1>4. /\ Len(both) = m + n
      /\ \A k \in 1..m : both[k] = w.loaded[k]
      /\ \A k \in m + 1 .. m + n : both[k] = w.clones[k - m]
  BY <1>3 DEF Workers
<1> HIDE DEF x, both
<1>5. \A k \in 1 .. m + n : both[k] = Load(v, k)
  <2>1. ASSUME NEW k \in 1..m PROVE both[k] = Load(v, k)
    BY <1>4 DEF RankOK, WorkerOK
  <2>2. ASSUME NEW k \in m + 1 .. m + n PROVE both[k] = Load(v, k)
    <3>1. k - m \in 1..n /\ m + (k - m) = k
      <4>1. \A h, j \in Nat : \A i \in h + 1 .. h + j : i - h \in 1..j /\ h + (i - h) = i
        OBVIOUS
      <4> QED
        BY <1>3, <4>1, Zenon
    <3> QED
      BY <1>4, <3>1 DEF RankOK, WorkerOK
  <2>3. \A k \in 1 .. m + n : k \in 1..m \/ k \in m + 1 .. m + n
    <3>1. \A h, j \in Nat : \A i \in 1 .. h + j : i \in 1..h \/ i \in h + 1 .. h + j
      OBVIOUS
    <3> QED
      BY <1>3, <3>1, Zenon
  <2> QED
    BY <2>1, <2>2, <2>3, Zenon
<1>6. Cloned(w) = m + n /\ Cloned(x) = m + n /\ Len(x.loaded) = m + n /\ Len(x.clones) = 0
  BY <1>2, <1>3, <1>4 DEF Cloned
<1>7. Taken(a, x) = Taken(a, w) /\ EndOf(e, a, x) = EndOf(e, a, w)
  BY <1>6 DEF EndOf, Taken
<1>8. w.last => m + n = NumParams
  BY <1>6 DEF RankOK, WorkerOK
<1>9. WorkerOK(x, v)
  <2>1. \A k \in 1..Len(x.loaded) : x.loaded[k] = Load(v, k)
    BY <1>2, <1>5, <1>6, Zenon
  <2>2. \A k \in 1..Len(x.clones) : x.clones[k] = Load(v, Len(x.loaded) + k)
    <3>1. 1..0 = {}
      OBVIOUS
    <3> QED
      BY <1>6, <3>1, Zenon
  <2>3. x.pc = "loaded" => w.last
    BY <1>2, <1>1
  <2>4. x.pc \in {"loaded", "waiting"}
    BY <1>2, <1>1
  <2> QED
    BY <1>2, <1>6, <1>8, <2>1, <2>2, <2>3, <2>4, Zenon DEF WorkerOK
<1>10. AdapterOK(a, x, e.cur + 1, pair[e.cur + 1], v)
  BY <1>2, <1>6, <1>1 DEF RankOK, AdapterOK
<1>11. EngineOK(e, a, x, pair, v)
  BY <1>7 DEF RankOK, EngineOK
<1>12. x = WithLoaded(w)
  BY <1>1, Zenon DEF WithLoaded, x, both
<1> QED
  BY <1>6, <1>7, <1>9, <1>10, <1>11, <1>12 DEF RankOK

-----------------------------------------------------------------------------
(* The sender, and what one process announces to another *)

\* the parameter the next announcement of the sender begins with
StartOf(e, n) == IF e.pc \in {"closing", "done"} THEN n ELSE n - Len(e.meta)

\* The sender's engine e, when parameter n is next: the bucket in hand holds those just before.
SenderOK(e, n, pair, v) ==
    /\ e.in = "none" /\ e.pc \in {"idle", "send", "closing", "done"}
    /\ n - Len(e.meta) \in Nat \ {0}
    /\ Covers(e.meta, n - Len(e.meta))
    /\ e.pc = "idle" => n = 1 /\ e.meta = <<>>
    /\ e.pc \in {"idle", "done"} => e.out = "none"
    /\ e.pc \in {"closing", "done"} => n = NumParams + 1
    /\ e.pc = "send" => Intact(pair[e.cur + 1], e.meta, v)

\* What may still be copied is intact; of a rank it is what it yields, of the sender
\* the buffer it does not fill.
OutOK(e, pair, v) ==
    e.out \in {"start", "moving"} =>
        /\ e.sent.buffer = IF e.pc = "send" THEN 2 - e.cur ELSE e.cur + 1
        /\ Intact(pair[e.sent.buffer], e.sent.meta, v)

\* From a process that has announced bucket sent, the next to begin with parameter start, to
\* one that has received, with the bucket under way, what comes before parameter arrival.
OnTheWay(out, note, in) == out \in {"start", "moving"} /\ note = <<>> /\ in # "moving"
LinkOK(out, sent, start, note, box, in, got, arrival) ==
    /\ OnTheWay(out, note, in) => /\ Covers(sent.meta, arrival)
                                  /\ start = arrival + Len(sent.meta)
                                  /\ sent.last => start = NumParams + 1
    /\ ~OnTheWay(out, note, in) => start = arrival
    /\ in = "moving" => out = "moving" /\ note = <<>> /\ box = <<>> /\ got = sent
    /\ box # <<>> => box = <<sent>> /\ out = "moving" /\ note = <<>>
    /\ note # <<>> => Len(note) = 1 /\ out = "moving" /\ in # "moving" /\ box = <<>>

\* The last announcement was received by all, so there may be a new one, or none.
Received(out, note) == out \in {"none", "done"} \/ note # <<>>

LEMMA NewLink == ASSUME NEW sent, NEW got PROVE LinkOK("none", sent, 1, <<>>, <<>>, "none", got, 1)
BY DEF LinkOK, OnTheWay

LEMMA AnnounceLink ==
    ASSUME NEW out, NEW sent, NEW start, NEW note, NEW box, NEW in, NEW got, NEW arrival,
           LinkOK(out, sent, start, note, box, in, got, arrival), Received(out, note),
           NEW s, Covers(s.meta, start), NEW after, after = start + Len(s.meta),
           s.last => after = NumParams + 1
    PROVE  /\ LinkOK("start", s, after, <<>>, <<>>, in, got, arrival)
           /\ LinkOK("moving", s, after, <<>>, <<s>>, in, got, arrival)
           /\ box = <<>>
<1>1. /\ ~OnTheWay(out, note, in) /\ in # "moving" /\ box = <<>>
  BY DEF LinkOK, Received, OnTheWay
<1>2. start = arrival
  BY <1>1 DEF LinkOK
<1> QED
  BY <1>1, <1>2 DEF LinkOK, OnTheWay

LEMMA WithdrawLink ==
    ASSUME NEW out, NEW sent, NEW start, NEW note, NEW box, NEW in, NEW got, NEW arrival,
           LinkOK(out, sent, start, note, box, in, got, arrival), Received(out, note)
    PROVE  LinkOK("none", sent, start, <<>>, box, in, got, arrival)
<1>1. ~OnTheWay(out, note, in) /\ in # "moving" /\ box = <<>>
  BY DEF LinkOK, Received, OnTheWay
<1> QED
  BY <1>1 DEF LinkOK, OnTheWay

LEMMA PublishLink ==
    ASSUME NEW sent, NEW start, NEW note, NEW box, NEW in, NEW got, NEW arrival,
           LinkOK("start", sent, start, note, box, in, got, arrival), NEW new \in {<<>>, <<sent>>}
    PROVE  LinkOK("moving", sent, start, note, new, in, got, arrival) /\ box = <<>>
<1>1. note = <<>> /\ in # "moving" /\ box = <<>>
  BY DEF LinkOK
<1> QED
  BY <1>1 DEF LinkOK, OnTheWay

LEMMA ReceiveLink ==
    ASSUME NEW out, NEW sent, NEW start, NEW note, NEW box, NEW in, NEW got, NEW arrival,
           LinkOK(out, sent, start, note, box, in, got, arrival), in = "start", box # <<>>
    PROVE  /\ Head(box) = sent /\ Tail(box) = <<>>
           /\ Covers(sent.meta, arrival) /\ (sent.last => arrival + Len(sent.meta) = NumParams + 1)
           /\ LinkOK(out, sent, start, note, <<>>, "moving", sent, arrival + Len(sent.meta))
<1>1. box = <<sent>> /\ out = "moving" /\ note = <<>>
  BY DEF LinkOK
<1>2. OnTheWay(out, note, in)
  BY <1>1 DEF OnTheWay
<1>3. Head(box) = sent /\ Tail(box) = <<>>
  BY <1>1
<1>4. Covers(sent.meta, arrival) /\ start = arrival + Len(sent.meta) /\ (sent.last => start = NumParams + 1)
  BY <1>2 DEF LinkOK
<1> QED
  BY <1>1, <1>3, <1>4 DEF LinkOK, OnTheWay

LEMMA ReadLink ==
    ASSUME NEW out, NEW sent, NEW start, NEW note, NEW box, NEW got, NEW arrival,
           LinkOK(out, sent, start, note, box, "moving", got, arrival)
    PROVE  /\ out = "moving" /\ note = <<>> /\ got = sent
           /\ \A key : LinkOK(out, sent, start, <<key>>, box, "done", got, arrival)
           /\ LinkOK("done", sent, start, note, box, "done", got, arrival)
<1>1. out = "moving" /\ note = <<>> /\ box = <<>> /\ got = sent /\ start = arrival
  BY DEF LinkOK, OnTheWay
<1>2. \A key : <<key>> # <<>> /\ Len(<<key>>) = 1
  OBVIOUS
<1> QED
  BY <1>1, <1>2 DEF LinkOK, OnTheWay

LEMMA TurnLink ==
    ASSUME NEW out, NEW sent, NEW start, NEW note, NEW box, NEW in, NEW got, NEW arrival,
           LinkOK(out, sent, start, note, box, in, got, arrival), in # "moving", NEW turned, turned # "moving"
    PROVE  \A other : LinkOK(out, sent, start, note, box, turned, other, arrival)
BY DEF LinkOK, OnTheWay

-----------------------------------------------------------------------------
(* The sender's steps *)

LEMMA SenderFields ==
    ASSUME NEW e \in Engines
    PROVE  /\ e.cur \in {0, 1} /\ e.cur + 1 \in 1..2 /\ 2 - e.cur \in 1..2 /\ e.cur + 1 # 2 - e.cur
           /\ e.meta \in Seq(Tensors) /\ Len(e.meta) \in Nat
           /\ e.out # "none" => e.sent.meta \in Seq(Tensors)
<1>1. e \in EngineRecords /\ (e.out # "none" => e.sent \in Buckets)
  BY EngineIs
<1>2. e.cur \in {0, 1} /\ e.meta \in Seq(Tensors) /\ Len(e.meta) \in Nat
  BY <1>1 DEF EngineRecords
<1> QED
  BY <1>1, <1>2 DEF Buckets

LEMMA NewSender ==
    ASSUME NEW pair, NEW v
    PROVE  SenderOK(NewEngine, 1, pair, v) /\ StartOf(NewEngine, 1) = 1 /\ OutOK(NewEngine, pair, v)
BY DEF NewEngine, SenderOK, StartOf, OutOK, Covers

LEMMA BeginSender ==
    ASSUME NEW e \in Engines, NEW n, NEW pair, NEW v, SenderOK(e, n, pair, v), e.pc = "idle"
    PROVE  LET f == [e EXCEPT !.pc = "send"]
           IN SenderOK(f, n, pair, v) /\ StartOf(f, n) = StartOf(e, n) /\ OutOK(f, pair, v)
<1> DEFINE f == [e EXCEPT !.pc = "send"]
<1>1. /\ f.pc = "send" /\ f.cur = e.cur /\ f.meta = e.meta /\ f.in = e.in /\ f.out = e.out
  BY DEF Engines, EngineRecords
<1> HIDE DEF f
<1>2. f.meta = <<>> /\ f.out = "none"
  BY <1>1 DEF SenderOK
<1>3. Intact(pair[f.cur + 1], f.meta, v) /\ OutOK(f, pair, v)
  BY <1>2 DEF Intact, OutOK
<1> QED
  BY <1>1, <1>2, <1>3 DEF SenderOK, StartOf, f

LEMMA FillSender ==
    ASSUME NEW e \in Engines, NEW n \in Params, NEW pair \in [1..2 -> Contents], NEW v,
           SenderOK(e, n, pair, v), OutOK(e, pair, v), e.pc = "send", Fits(e.meta, n)
    PROVE  LET m == WithTensor(e.meta, n)
               f == [e EXCEPT !.meta = m]
               new == [pair EXCEPT ![e.cur + 1] = Put(pair[e.cur + 1], m[Len(m)], <<v, n>>)]
           IN SenderOK(f, n + 1, new, v) /\ StartOf(f, n + 1) = StartOf(e, n) /\ OutOK(f, new, v)
<1> DEFINE m == WithTensor(e.meta, n)
           f == [e EXCEPT !.meta = m]
           put == Put(pair[e.cur + 1], m[Len(m)], <<v, n>>)
           new == [pair EXCEPT ![e.cur + 1] = put]
<1>1. /\ f.pc = e.pc /\ f.cur = e.cur /\ f.meta = m /\ f.in = e.in /\ f.out = e.out /\ f.sent = e.sent
  BY DEF Engines, EngineRecords
<1>2. /\ e.cur + 1 \in 1..2 /\ 2 - e.cur \in 1..2 /\ e.cur + 1 # 2 - e.cur /\ e.meta \in Seq(Tensors)
      /\ Len(e.meta) \in Nat /\ n \in Nat
  BY SenderFields DEF Params
<1>3. m \in Seq(Tensors) /\ Len(m) = Len(e.meta) + 1
  BY <1>2, AddsTensor
<1>4. /\ n - Len(e.meta) \in Nat \ {0} /\ Covers(e.meta, n - Len(e.meta))
      /\ Intact(pair[e.cur + 1], e.meta, v) /\ e.in = "none"
  BY DEF SenderOK
<1>5. n = (n - Len(e.meta)) + Len(e.meta) /\ (n + 1) - (Len(e.meta) + 1) = n - Len(e.meta)
  <2>1. \A x, y \in Nat : x = (x - y) + y /\ (x + 1) - (y + 1) = x - y
    OBVIOUS
  <2> QED
    BY <1>2, <2>1
<1>6. Covers(m, n - Len(e.meta))
  BY <1>2, <1>4, <1>5, AddCovers
<1>7. Intact(put, m, v)
  BY <1>2, <1>4, <1>5, PutIntact
<1>8. new[e.cur + 1] = put /\ new[2 - e.cur] = pair[2 - e.cur]
  BY <1>2
<1> HIDE DEF m, f, put, new
<1>9. OutOK(f, new, v)
  BY <1>1, <1>8 DEF OutOK
<1>10. StartOf(f, n + 1) = StartOf(e, n)
  <2>1. StartOf(e, n) = n - Len(e.meta)
    BY Zenon DEF StartOf
  <2>2. f.pc = "send" /\ f.meta = m
    BY <1>1
  <2>3. StartOf(f, n + 1) = (n + 1) - Len(m)
    BY <2>2, Zenon DEF StartOf
  <2> QED
    BY <1>3, <1>5, <2>1, <2>3, Zenon
<1>11. SenderOK(f, n + 1, new, v)
  BY <1>1, <1>3, <1>4, <1>5, <1>6, <1>7, <1>8 DEF SenderOK
<1> QED
  BY <1>9, <1>10, <1>11 DEF m, f, put, new

\* Flush: what is announced starts where the last announcement ended.
LEMMA FlushSender ==
    ASSUME NEW e \in Engines, NEW n \in Nat, NEW pair, NEW v, SenderOK(e, n, pair, v), e.pc = "send",
           NEW f \in Engines, f.pc = "send", f.cur = 1 - e.cur, f.meta = <<>>, f.in = e.in, n # 0,
           f.sent.meta = e.meta, f.sent.buffer = e.cur + 1
    PROVE  /\ SenderOK(f, n, pair, v) /\ OutOK(f, pair, v)
           /\ Covers(f.sent.meta, StartOf(e, n)) /\ StartOf(e, n) \in Nat
           /\ StartOf(f, n) = StartOf(e, n) + Len(f.sent.meta)
<1>1. Len(e.meta) \in Nat /\ e.cur \in {0, 1}
  BY SenderFields
<1>2. /\ StartOf(e, n) = n - Len(e.meta) /\ Covers(e.meta, n - Len(e.meta)) /\ e.in = "none"
      /\ n - Len(e.meta) \in Nat /\ Intact(pair[e.cur + 1], e.meta, v)
  BY DEF SenderOK, StartOf
<1>3. Len(f.meta) = 0 /\ n - 0 = n /\ Covers(f.meta, n) /\ Intact(pair[f.cur + 1], f.meta, v)
  BY DEF Covers, Intact
<1>4. StartOf(f, n) = n
  BY <1>3 DEF StartOf
<1>5. n - Len(e.meta) + Len(e.meta) = n
  <2>1. \A x, y \in Nat : x - y + y = x
    OBVIOUS
  <2> QED
    BY <1>1, <2>1
<1>6. 2 - f.cur = e.cur + 1
  BY <1>1
<1>7. OutOK(f, pair, v)
  BY <1>2, <1>6 DEF OutOK
<1>8. SenderOK(f, n, pair, v)
  BY <1>2, <1>3 DEF SenderOK
<1> QED
  BY <1>2, <1>4, <1>5, <1>7, <1>8

LEMMA LastSender ==
    ASSUME NEW e \in Engines, NEW n \in Nat, NEW pair, NEW v, SenderOK(e, n, pair, v), e.pc = "send",
           n = NumParams + 1, NEW f \in Engines, f.pc = "closing", f.cur = e.cur, f.meta = e.meta,
           f.in = e.in, f.sent.meta = e.meta, f.sent.buffer = e.cur + 1
    PROVE  /\ SenderOK(f, n, pair, v) /\ OutOK(f, pair, v)
           /\ Covers(f.sent.meta, StartOf(e, n)) /\ StartOf(e, n) \in Nat
           /\ StartOf(f, n) = StartOf(e, n) + Len(f.sent.meta) /\ StartOf(f, n) = NumParams + 1
<1>1. Len(e.meta) \in Nat
  BY SenderFields
<1>2. /\ StartOf(e, n) = n - Len(e.meta) /\ Covers(e.meta, n - Len(e.meta)) /\ e.in = "none"
      /\ n - Len(e.meta) \in Nat \ {0} /\ Intact(pair[e.cur + 1], e.meta, v)
  BY DEF SenderOK, StartOf
<1>3. StartOf(f, n) = n
  BY DEF StartOf
<1>4. n - Len(e.meta) + Len(e.meta) = n
  <2>1. \A x, y \in Nat : x - y + y = x
    OBVIOUS
  <2> QED
    BY <1>1, <2>1
<1>5. OutOK(f, pair, v)
  BY <1>2 DEF OutOK
<1>6. SenderOK(f, n, pair, v)
  BY <1>2 DEF SenderOK
<1> QED
  BY <1>2, <1>3, <1>4, <1>5, <1>6

LEMMA DoneSender ==
    ASSUME NEW e \in Engines, NEW n, NEW pair, NEW v, SenderOK(e, n, pair, v), e.pc = "closing"
    PROVE  LET f == [e EXCEPT !.pc = "done", !.out = "none"]
           IN SenderOK(f, n, pair, v) /\ StartOf(f, n) = StartOf(e, n) /\ OutOK(f, pair, v) /\ f.out = "none"
<1> DEFINE f == [e EXCEPT !.pc = "done", !.out = "none"]
<1>1. /\ f.pc = "done" /\ f.cur = e.cur /\ f.meta = e.meta /\ f.in = e.in /\ f.out = "none"
  BY DEF Engines, EngineRecords
<1> HIDE DEF f
<1> QED
  BY <1>1 DEF SenderOK, StartOf, OutOK, f

-----------------------------------------------------------------------------
(* The invariant *)

\* the parameter after those a rank is yielding, and after those it is receiving
End(r) == EndOf(engine[r], adapter[r], worker[r])
Arrival(r) == IF engine[r].in \in {"moving", "done"} THEN End(r) + Len(engine[r].got.meta) ELSE End(r)

\* whom a rank receives from, and where the next announcement of a process begins
Source(r) == IF backend = "nccl" THEN 0 ELSE r - 1
From(p) == IF p = 0 THEN StartOf(engine[0], next) ELSE End(p)

SenderInv == SenderOK(engine[0], next, buffers[0], round)
RankInv(r) == RankOK(engine[r], adapter[r], worker[r], buffers[r], round)
OutInv(p) == /\ OutOK(engine[p], buffers[p], round)
             /\ p # 0 /\ ~Forwards(p) => engine[p].out = "none"
LinkInv(r) == LinkOK(engine[Source(r)].out, engine[Source(r)].sent, From(Source(r)), notes[Source(r)],
                     inbox[r], engine[r].in, engine[r].got, Arrival(r))

\* Nobody sends to a process that does not receive.
AbsentInv == /\ \A p \in Processes : p \notin Ranks => inbox[p] = <<>>
             /\ \A p \in Processes : p >= ranks \/ backend = "nccl" => notes[p] = <<>>

\* The first rank of a replica calls the workers of all, and waits for all.
CallInv == \A l \in Ranks : Leader(l) =>
              /\ adapter[l].pc = "idle" => \A q \in Replica(l) : worker[q].pc = "off"
              /\ adapter[l].pc = "done" => \A q \in Replica(l) : worker[q].pc = "loaded"

\* Between two updates nothing is under way.
QuietInv == phase # "transfer" => /\ \A p \in 0..ranks : engine[p].pc \in {"idle", "done"}
                                  /\ \A r \in Ranks : /\ adapter[r].pc \in {"idle", "done"}
                                                      /\ worker[r].pc \in {"off", "loaded"}

TransferInv == /\ TypeInv /\ SenderInv
               /\ \A r \in Ranks : RankInv(r) /\ LinkInv(r)
               /\ \A p \in Processes : OutInv(p)
               /\ AbsentInv /\ CallInv /\ QuietInv

LEMMA Division ==
    ASSUME NEW n \in Nat, NEW s \in Nat \ {0}
    PROVE  n \div s \in Nat /\ n % s \in 0 .. s - 1 /\ n = s * (n \div s) + (n % s)
OBVIOUS

LEMMA Quotient ==
    ASSUME NEW s \in Nat \ {0}, NEW k \in Nat
    PROVE  (s * k) \div s = k /\ (s * k) % s = 0
OBVIOUS

\* Every rank is in the replica of one leader.
LEMMA HasLeader ==
    ASSUME TypeInv, NEW q \in Ranks
    PROVE  \E l \in Ranks : Leader(l) /\ q \in Replica(l)
<1> DEFINE s == replicaSize
           k == (q - 1) \div s
           l == s * k + 1
<1>1. s \in Nat \ {0} /\ q \in Nat \ {0} /\ q - 1 \in Nat
  BY RanksAssumption DEF TypeInv, Ranks
<1>2. k \in Nat /\ (q - 1) % s \in Nat /\ q - 1 = s * k + ((q - 1) % s)
  <2>1. k \in Nat /\ (q - 1) % s \in 0 .. s - 1 /\ q - 1 = s * k + ((q - 1) % s)
    BY <1>1, Division, Zenon
  <2>2. \A z \in Nat \ {0} : 0 .. z - 1 \subseteq Nat
    OBVIOUS
  <2> QED
    BY <1>1, <2>1, <2>2, Zenon
<1> HIDE DEF k
<1>3. s * k \in Nat
  BY <1>1, <1>2
<1>4. l - 1 = s * k /\ l \in 1..q
  BY <1>1, <1>2, <1>3
<1>5. (l - 1) \div s = k /\ (l - 1) % s = 0
  BY <1>1, <1>2, <1>4, Quotient
<1>6. l \in Ranks
  BY <1>4, RanksAssumption DEF TypeInv, Ranks
<1> QED
  BY <1>5, <1>6 DEF Leader, Replica, k

LEMMA OneLeader ==
    ASSUME TypeInv, NEW l \in Ranks, NEW r \in Ranks, NEW q, Leader(l), Leader(r),
           q \in Replica(l), q \in Replica(r)
    PROVE  l = r
<1>1. replicaSize \in Nat \ {0} /\ l - 1 \in Nat /\ r - 1 \in Nat
  BY RanksAssumption DEF TypeInv, Ranks
<1>2. (l - 1) \div replicaSize = (r - 1) \div replicaSize
  BY DEF Replica
<1>3. (l - 1) % replicaSize = 0 /\ (r - 1) % replicaSize = 0
  BY DEF Leader
<1>4. l - 1 = r - 1
  <2>1. /\ l - 1 = replicaSize * ((l - 1) \div replicaSize) + ((l - 1) % replicaSize)
        /\ r - 1 = replicaSize * ((r - 1) \div replicaSize) + ((r - 1) % replicaSize)
    BY <1>1, Division, Zenon
  <2> QED
    BY <1>2, <1>3, <2>1, Zenon
<1> QED
  BY <1>1, <1>4, RanksAssumption DEF Ranks, TypeInv

\* A process that receives from another receives from one of the update.
LEMMA SourceIs ==
    ASSUME TypeInv, NEW r \in Ranks
    PROVE  Source(r) \in Processes /\ Source(r) \in 0..ranks /\ Source(r) # r
BY RanksAre DEF Source, TypeInv, Ranks, Processes

LEMMA InvInit == TransferInit => TransferInv
<1> SUFFICES ASSUME TransferInit PROVE TransferInv
  OBVIOUS
<1>1. TypeInv
  BY InitType
<1>2. /\ \A p \in Processes : engine[p] = NewEngine /\ buffers[p] = <<Zeroed, Zeroed>>
                              /\ inbox[p] = <<>> /\ notes[p] = <<>>
      /\ \A r \in 1..MaxRanks : adapter[r] = NewAdapter /\ worker[r] = NewWorker
      /\ next = 1 /\ phase = "idle"
  BY DEF TransferInit, AdapterInit
<1>3. 0 \in Processes /\ 0..ranks \subseteq Processes /\ Ranks \subseteq 1..MaxRanks /\ Ranks \subseteq Processes
  BY <1>1, RanksAre DEF TypeInv, Processes, Ranks
<1>4. SenderInv
  BY <1>2, <1>3, NewSender DEF SenderInv
<1>5. \A p \in Processes : OutInv(p)
  <2>1. NewEngine.out = "none"
    BY DEF NewEngine
  <2> QED
    BY <1>2, <2>1, NewSender, Zenon DEF OutInv
<1>6. ASSUME NEW r \in Ranks PROVE RankInv(r) /\ End(r) = 1
  <2>1. buffers[r] \in [1..2 -> Contents]
    BY <1>1, <1>3 DEF TypeInv
  <2> QED
    BY <1>2, <1>3, <2>1, NewRank DEF RankInv, End
<1>7. ASSUME NEW r \in Ranks PROVE LinkInv(r)
  <2>1. Source(r) \in Processes /\ Source(r) \in 0..ranks
    BY <1>1, SourceIs
  <2>2. From(Source(r)) = 1
    <3>1. CASE Source(r) = 0
      BY <1>2, <1>3, <3>1, NewSender DEF From
    <3>2. CASE Source(r) # 0
      <4>1. Source(r) \in Ranks
        BY <1>1, <2>1, <3>2 DEF Ranks, TypeInv
      <4> QED
        BY <1>6, <3>2, <4>1 DEF From
    <3> QED
      BY <3>1, <3>2
  <2>3. Arrival(r) = 1 /\ engine[r].in = "none" /\ engine[Source(r)].out = "none"
    BY <1>2, <1>3, <1>6, <2>1 DEF Arrival, NewEngine
  <2>4. notes[Source(r)] = <<>> /\ inbox[r] = <<>>
    BY <1>2, <1>3, <2>1
  <2> QED
    BY <2>2, <2>3, <2>4, NewLink DEF LinkInv
<1>8. AbsentInv
  BY <1>2 DEF AbsentInv
<1>9. CallInv
  BY <1>2, <1>3 DEF CallInv, NewAdapter, NewWorker, Replica
<1>10. QuietInv
  BY <1>2, <1>3 DEF QuietInv, NewEngine, NewAdapter, NewWorker
<1> QED
  BY <1>1, <1>4, <1>5, <1>6, <1>7, <1>8, <1>9, <1>10 DEF TransferInv

-----------------------------------------------------------------------------
(* Steps of one process *)

\* Only process p changes what is its own.
Alone(p) ==
    /\ phase = "transfer" /\ UNCHANGED managerVars
    /\ \A q \in Processes : q # p => engine'[q] = engine[q] /\ buffers'[q] = buffers[q]
    /\ \A q \in 1..MaxRanks : q # p => adapter'[q] = adapter[q] /\ worker'[q] = worker[q]
    /\ p # 0 => next' = next

LEMMA AloneKeeps ==
    ASSUME TypeInv, NEW p \in 0..ranks, Alone(p)
    PROVE  /\ Ranks' = Ranks /\ \A r \in Ranks : Source(r)' = Source(r) /\ Replica(r)' = Replica(r)
           /\ \A r : Leader(r)' = Leader(r) /\ (Forwards(r)' <=> Forwards(r))
           /\ round' = round /\ phase' = "transfer" /\ backend' = backend /\ ranks' = ranks
           /\ \A r \in Ranks : r # p => End(r)' = End(r) /\ Arrival(r)' = Arrival(r)
           /\ \A q \in 0..ranks : q # p => From(q)' = From(q)
<1>1. UNCHANGED <<ranks, replicaSize, backend, phase, round>> /\ phase = "transfer"
  BY DEF Alone, managerVars
<1>2. Ranks' = Ranks /\ Ranks \subseteq Processes /\ Ranks \subseteq 1..MaxRanks
  BY <1>1, RanksAre DEF Ranks
<1>3. \A r \in Ranks : Source(r)' = Source(r) /\ Replica(r)' = Replica(r)
  BY <1>1, <1>2 DEF Source, Replica
<1>4. \A r : Leader(r)' = Leader(r) /\ (Forwards(r)' <=> Forwards(r))
  BY <1>1 DEF Leader, Forwards, HasNext
<1>5. ASSUME NEW r \in Ranks, r # p PROVE End(r)' = End(r) /\ Arrival(r)' = Arrival(r)
  <2>1. engine'[r] = engine[r] /\ adapter'[r] = adapter[r] /\ worker'[r] = worker[r]
    BY <1>2, <1>5 DEF Alone
  <2>2. End(r)' = End(r)
    BY <2>1 DEF End
  <2> QED
    BY <2>1, <2>2 DEF Arrival
<1>6. ASSUME NEW q \in 0..ranks, q # p PROVE From(q)' = From(q)
  <2>1. CASE q = 0
    <3>1. engine'[0] = engine[0] /\ next' = next
      BY <1>6, <2>1, RanksAre DEF Alone
    <3> QED
      BY <2>1, <3>1 DEF From
  <2>2. CASE q # 0
    <3>1. q \in Ranks
      BY <2>2 DEF Ranks, TypeInv
    <3> QED
      BY <1>5, <1>6, <2>2, <3>1 DEF From
  <2> QED
    BY <2>1, <2>2
<1> QED
  BY <1>1, <1>2, <1>3, <1>4, <1>5, <1>6

\* A link that p has no part in.
LEMMA LinkElsewhere ==
    ASSUME TransferInv, NEW p \in 0..ranks, Alone(p), NEW r \in Ranks, r # p, Source(r) # p,
           inbox'[r] = inbox[r], notes'[Source(r)] = notes[Source(r)]
    PROVE  LinkInv(r)'
<1>1. TypeInv /\ LinkInv(r)
  BY DEF TransferInv
<1>2. Source(r) \in Processes /\ Source(r) \in 0..ranks
  BY <1>1, SourceIs
<1>3. r \in Processes
  BY <1>1, RanksAre
<1>4. engine'[r] = engine[r] /\ engine'[Source(r)] = engine[Source(r)]
  BY <1>2, <1>3 DEF Alone
<1>5. Source(r)' = Source(r) /\ From(Source(r))' = From(Source(r)) /\ Arrival(r)' = Arrival(r)
  BY <1>1, <1>2, AloneKeeps
<1> QED
  BY <1>1, <1>4, <1>5 DEF LinkInv

\* What remains to be shown of a step of process p.
LEMMA AloneStep ==
    ASSUME TransferInv, TypeInv', NEW p \in 0..ranks, Alone(p),
           p = 0 => SenderInv', p # 0 => RankInv(p)', OutInv(p)',
           \A r \in Ranks : r = p \/ Source(r) = p => LinkInv(r)',
           \A r \in Ranks : r # p /\ Source(r) # p => /\ inbox'[r] = inbox[r]
                                                       /\ notes'[Source(r)] = notes[Source(r)],
           AbsentInv', CallInv'
    PROVE  TransferInv'
<1>1. TypeInv
  BY DEF TransferInv
<1>2. /\ Ranks' = Ranks /\ round' = round /\ phase' = "transfer"
      /\ \A r : Forwards(r)' <=> Forwards(r)
  BY <1>1, AloneKeeps
<1>3. Ranks \subseteq Processes /\ Ranks \subseteq 1..MaxRanks /\ 0 \in Processes
  BY <1>1, RanksAre
<1>4. \A r \in Ranks : LinkInv(r)'
  BY LinkElsewhere
<1>5. ASSUME NEW r \in Ranks PROVE RankInv(r)'
  <2>1. CASE r = p
    <3>1. p # 0
      BY <1>1, <2>1 DEF Ranks, TypeInv
    <3> QED
      BY <2>1, <3>1
  <2>2. CASE r # p
    <3>1. /\ engine'[r] = engine[r] /\ adapter'[r] = adapter[r] /\ worker'[r] = worker[r]
          /\ buffers'[r] = buffers[r]
      BY <1>3, <2>2 DEF Alone
    <3> QED
      BY <1>2, <3>1 DEF RankInv, TransferInv
  <2> QED
    BY <2>1, <2>2
<1>6. SenderInv'
  <2>1. CASE p # 0
    <3>1. engine'[0] = engine[0] /\ buffers'[0] = buffers[0] /\ next' = next
      BY <1>3, <2>1 DEF Alone
    <3> QED
      BY <1>2, <3>1 DEF SenderInv, TransferInv
  <2> QED
    BY <2>1
<1>7. ASSUME NEW q \in Processes PROVE OutInv(q)'
  <2>1. CASE q # p
    <3>1. engine'[q] = engine[q] /\ buffers'[q] = buffers[q]
      BY <2>1 DEF Alone
    <3> QED
      BY <1>2, <3>1 DEF OutInv, TransferInv
  <2> QED
    BY <2>1
<1>8. QuietInv'
  BY <1>2 DEF QuietInv
<1> QED
  BY <1>2, <1>4, <1>5, <1>6, <1>7, <1>8 DEF TransferInv, Processes

\* A step that neither announces nor receives.
LEMMA InnerStep ==
    ASSUME TransferInv, TypeInv', NEW p \in 0..ranks, Alone(p), inbox' = inbox, notes' = notes,
           engine'[p].in = engine[p].in, engine'[p].got = engine[p].got,
           engine'[p].out = engine[p].out, engine'[p].sent = engine[p].sent,
           From(p)' = From(p), p = 0 => SenderInv', p # 0 => RankInv(p)',
           OutOK(engine'[p], buffers'[p], round), CallInv'
    PROVE  TransferInv'
<1>1. TypeInv /\ AbsentInv
  BY DEF TransferInv
<1>2. /\ Ranks' = Ranks /\ round' = round /\ backend' = backend /\ ranks' = ranks
      /\ \A r : Forwards(r)' <=> Forwards(r)
      /\ \A r \in Ranks : Source(r)' = Source(r)
      /\ \A r \in Ranks : r # p => Arrival(r)' = Arrival(r)
      /\ \A q \in 0..ranks : q # p => From(q)' = From(q)
  BY <1>1, AloneKeeps
<1>3. p \in Processes /\ Ranks \subseteq Processes
  BY <1>1, RanksAre DEF TypeInv, Processes, Ranks
<1>4. p \in Ranks => Arrival(p)' = Arrival(p)
  <2> SUFFICES ASSUME p \in Ranks PROVE Arrival(p)' = Arrival(p)
    OBVIOUS
  <2>1. p # 0
    BY <1>1 DEF Ranks, TypeInv
  <2>2. End(p)' = End(p)
    BY <2>1 DEF From
  <2> QED
    BY <2>2 DEF Arrival
<1>5. ASSUME NEW r \in Ranks PROVE LinkInv(r)'
  <2>1. LinkInv(r) /\ Source(r) \in Processes /\ Source(r) \in 0..ranks
    BY <1>1, SourceIs DEF TransferInv
  <2>2. /\ engine'[Source(r)].out = engine[Source(r)].out /\ engine'[Source(r)].sent = engine[Source(r)].sent
        /\ engine'[r].in = engine[r].in /\ engine'[r].got = engine[r].got
    BY <1>3, <2>1 DEF Alone
  <2>3. From(Source(r))' = From(Source(r)) /\ Arrival(r)' = Arrival(r) /\ Source(r)' = Source(r)
    BY <1>2, <1>4, <2>1
  <2> QED
    BY <2>1, <2>2, <2>3 DEF LinkInv
<1>6. OutInv(p)'
  BY <1>2, <1>3 DEF OutInv, TransferInv
<1>7. AbsentInv'
  BY <1>1, <1>2 DEF AbsentInv, Processes
<1> QED
  BY <1>5, <1>6, <1>7, AloneStep

\* A rank goes on yielding from the same buffer.
LEMMA OutKept ==
    ASSUME NEW e, NEW f, NEW pair, NEW v, OutOK(e, pair, v), e.pc # "send", f.pc # "send",
           f.out = e.out, f.sent = e.sent, f.cur = e.cur
    PROVE  OutOK(f, pair, v)
BY DEF OutOK

\* Neither calls nor their ends.
LEMMA CallKept ==
    ASSUME TransferInv, NEW p \in 0..ranks, Alone(p),
           p # 0 /\ adapter'[p].pc \in {"idle", "done"} => adapter'[p].pc = adapter[p].pc,
           p # 0 /\ worker[p].pc \in {"off", "loaded"} => worker'[p].pc = worker[p].pc
    PROVE  CallInv'
<1>1. TypeInv /\ CallInv
  BY DEF TransferInv
<1>2. Ranks' = Ranks /\ \A r \in Ranks : Replica(r)' = Replica(r) /\ Leader(r)' = Leader(r)
  BY <1>1, AloneKeeps
<1>3. \A r \in Ranks : r \in 1..MaxRanks /\ r # 0 /\ Replica(r) \subseteq Ranks
  BY <1>1, RanksAre DEF Replica
<1>4. \A r \in Ranks : /\ adapter'[r].pc \in {"idle", "done"} => adapter'[r].pc = adapter[r].pc
                       /\ worker[r].pc \in {"off", "loaded"} => worker'[r].pc = worker[r].pc
  BY <1>3 DEF Alone
<1> QED
  BY <1>1, <1>2, <1>3, <1>4 DEF CallInv

-----------------------------------------------------------------------------
(* The sender's steps preserve the invariant *)

LEMMA SendBeginStep == ASSUME TransferInv, SendBegin PROVE TransferInv'
<1> DEFINE f == [engine[0] EXCEPT !.pc = "send"]
<1>1. TypeInv /\ SenderInv /\ TypeInv' /\ engine' = [engine EXCEPT ![0] = f]
  BY SendBeginEffect DEF TransferInv
<1>2. 0 \in Processes /\ 0 \in 0..ranks /\ engine[0] \in Engines
  BY <1>1, RanksAre DEF TypeInv, Ranks
<1>3. engine'[0] = f /\ \A q \in Processes : q # 0 => engine'[q] = engine[q]
  BY <1>1, <1>2 DEF TypeInv
<1>4. /\ engine[0].pc = "idle" /\ phase = "transfer" /\ inbox' = inbox /\ notes' = notes
      /\ UNCHANGED <<managerVars, next, buffers, adapter, worker>>
  BY DEF SendBegin, linkVars, adapterVars
<1>5. Alone(0)
  BY <1>3, <1>4 DEF Alone
<1>6. f.in = engine[0].in /\ f.got = engine[0].got /\ f.out = engine[0].out /\ f.sent = engine[0].sent
  BY <1>2 DEF Engines, EngineRecords
<1>7. round' = round
  BY <1>4 DEF managerVars
<1>8. /\ SenderOK(f, next, buffers[0], round) /\ StartOf(f, next) = StartOf(engine[0], next)
      /\ OutOK(f, buffers[0], round)
  BY <1>1, <1>2, <1>4, BeginSender, Zenon DEF SenderInv
<1> HIDE DEF f
<1>9. SenderInv' /\ From(0)' = From(0) /\ OutOK(engine'[0], buffers'[0], round)
  BY <1>3, <1>4, <1>7, <1>8 DEF SenderInv, From
<1>10. CallInv'
  BY <1>2, <1>5, CallKept
<1> QED
  BY <1>1, <1>2, <1>3, <1>4, <1>5, <1>6, <1>9, <1>10, InnerStep

LEMMA FillStep == ASSUME TransferInv, Fill PROVE TransferInv'
<1> DEFINE e == engine[0]
           m == WithTensor(e.meta, next)
           put == Put(buffers[0][SendBuf(0)], m[Len(m)], <<round, next>>)
           f == [e EXCEPT !.meta = m]
           new == [buffers[0] EXCEPT ![SendBuf(0)] = put]
<1>1. TypeInv /\ SenderInv /\ OutInv(0)
  BY RanksAre DEF TransferInv
<1>2. /\ TypeInv' /\ next \in Params /\ Fits(e.meta, next) /\ e.pc = "send" /\ next' = next + 1
      /\ engine' = [engine EXCEPT ![0] = f] /\ buffers' = [buffers EXCEPT ![0] = new]
  BY <1>1, FillEffect, Zenon
<1>3. 0 \in Processes /\ 0 \in 0..ranks /\ e \in Engines /\ buffers[0] \in [1..2 -> Contents] /\ SendBuf(0) = e.cur + 1
  BY <1>1, RanksAre DEF TypeInv, Ranks, SendBuf
<1>4. f.in = e.in /\ f.got = e.got /\ f.out = e.out /\ f.sent = e.sent
  BY <1>3 DEF Engines, EngineRecords
<1>5. /\ SenderOK(f, next + 1, new, round) /\ StartOf(f, next + 1) = StartOf(e, next)
      /\ OutOK(f, new, round)
  BY <1>1, <1>2, <1>3, FillSender, Zenon DEF SenderInv, OutInv
<1> HIDE DEF m, f, put, new
<1>6. engine'[0] = f /\ buffers'[0] = new
      /\ \A q \in Processes : q # 0 => engine'[q] = engine[q] /\ buffers'[q] = buffers[q]
  BY <1>1, <1>2, <1>3 DEF TypeInv
<1>7. inbox' = inbox /\ notes' = notes /\ UNCHANGED <<managerVars, adapter, worker>>
  BY DEF Fill, linkVars, adapterVars
<1>8. phase = "transfer"
  BY <1>1, <1>2, <1>3 DEF TransferInv, QuietInv
<1>9. Alone(0) /\ round' = round
  BY <1>6, <1>7, <1>8 DEF Alone, managerVars
<1>10. SenderInv' /\ From(0)' = From(0) /\ OutOK(engine'[0], buffers'[0], round)
  BY <1>2, <1>5, <1>6, <1>9 DEF SenderInv, From
<1>11. CallInv'
  BY <1>3, <1>9, CallKept
<1> QED
  BY <1>2, <1>3, <1>4, <1>6, <1>7, <1>9, <1>10, <1>11, InnerStep

-----------------------------------------------------------------------------
(* Announcements *)

\* A process waits until its last announcement was received.
LEMMA WaitNotes ==
    ASSUME TransferInv, NEW p \in 0..ranks, WaitAnnounced(p)
    PROVE  /\ Received(engine[p].out, notes[p])
           /\ \A q \in Processes : q # p => notes'[q] = notes[q]
           /\ \A r \in Ranks : Source(r) = p => notes'[p] = <<>>
           /\ \A q \in Processes : q >= ranks \/ backend = "nccl" => notes'[q] = <<>>
<1>1. TypeInv /\ AbsentInv
  BY DEF TransferInv
<1>2. p \in Processes /\ p \in Nat /\ ranks \in Nat /\ notes[p] \in Seq(Nat)
      /\ backend \in {"nccl", "nixl"} /\ OutInv(p)
  BY <1>1, RanksAssumption DEF TypeInv, Processes, TransferInv
<1>3. /\ \A q \in Processes : q # p => notes'[q] = notes[q]
      /\ engine[p].out = "none" => notes'[p] = notes[p]
      /\ engine[p].out # "none" /\ backend = "nixl" => notes[p] # <<>> /\ notes'[p] = Tail(notes[p])
      /\ engine[p].out # "none" /\ backend = "nccl" => engine[p].out = "done" /\ notes'[p] = notes[p]
  BY <1>1, <1>2, WaitType
<1>4. Received(engine[p].out, notes[p])
  BY <1>2, <1>3 DEF Received
<1>5. ASSUME NEW r \in Ranks, Source(r) = p PROVE notes'[p] = <<>>
  <2>1. /\ notes[p] # <<>> => Len(notes[p]) = 1 /\ engine[p].out = "moving"
    BY <1>5 DEF TransferInv, LinkInv, LinkOK
  <2>2. CASE notes[p] = <<>>
    BY <1>2, <1>3, <2>2
  <2>3. CASE notes[p] # <<>>
    <3>1. backend = "nixl" /\ notes'[p] = Tail(notes[p])
      BY <1>2, <1>3, <2>1, <2>3
    <3>2. \A s \in Seq(Nat) : Len(s) = 1 => Tail(s) = <<>>
      <4> SUFFICES ASSUME NEW s \in Seq(Nat), Len(s) = 1 PROVE Tail(s) = <<>>
        OBVIOUS
      <4>1. s # <<>>
        OBVIOUS
      <4>2. Tail(s) \in Seq(Nat) /\ Len(Tail(s)) = 0
        BY <4>1, HeadTailProperties
      <4> QED
        BY <4>2, EmptySeq
    <3> QED
      BY <1>2, <2>1, <2>3, <3>1, <3>2, Zenon
  <2> QED
    BY <2>2, <2>3
<1>6. ASSUME NEW q \in Processes, q >= ranks \/ backend = "nccl" PROVE notes'[q] = <<>>
  <2>1. notes[q] = <<>>
    BY <1>1, <1>6 DEF AbsentInv
  <2>2. CASE q # p
    BY <1>3, <2>1, <2>2
  <2>3. CASE q = p
    <3>1. CASE backend = "nccl"
      BY <1>3, <2>1, <2>3, <3>1
    <3>2. CASE backend = "nixl"
      BY <1>3, <2>1, <2>3, <3>2
    <3> QED
      BY <1>2, <3>1, <3>2
  <2> QED
    BY <2>2, <2>3
<1> QED
  BY <1>3, <1>4, <1>5, <1>6

\* Process p announces a bucket that goes on where its last one ended.
LEMMA AnnounceStep ==
    ASSUME TransferInv, NEW p \in 0..ranks, Alone(p), p = 0 \/ Forwards(p), WaitAnnounced(p),
           NEW f \in Engines, engine'[p] = f, f.out = IF backend = "nixl" THEN "moving" ELSE "start",
           f.sent \in Buckets, Announce(p, f.sent),
           From(p) \in Nat, Covers(f.sent.meta, From(p)), From(p)' = From(p) + Len(f.sent.meta),
           f.sent.last => From(p)' = NumParams + 1
    PROVE  /\ \A r \in Ranks : Source(r) = p => LinkInv(r)'
           /\ \A r \in Ranks : Source(r) # p => inbox'[r] = inbox[r] /\ notes'[Source(r)] = notes[Source(r)]
           /\ AbsentInv'
<1>1. TypeInv /\ AbsentInv
  BY DEF TransferInv
<1>2. /\ Ranks' = Ranks /\ backend' = backend /\ ranks' = ranks
      /\ \A r \in Ranks : Source(r)' = Source(r)
      /\ \A r \in Ranks : r # p => Arrival(r)' = Arrival(r)
  BY <1>1, AloneKeeps
<1>3. /\ p \in Processes /\ p \in Nat /\ ranks \in Nat \ {0} /\ ranks <= MaxRanks
      /\ Ranks \subseteq Processes /\ backend \in {"nccl", "nixl"}
  BY <1>1, RanksAssumption, SMTT(30) DEF TypeInv, Processes, Ranks
<1>4. /\ Received(engine[p].out, notes[p])
      /\ \A q \in Processes : q # p => notes'[q] = notes[q]
      /\ \A r \in Ranks : Source(r) = p => notes'[p] = <<>>
      /\ \A q \in Processes : q >= ranks \/ backend = "nccl" => notes'[q] = <<>>
  BY WaitNotes
<1>5. /\ \A q \in Processes : q # p + 1 => inbox'[q] = inbox[q]
      /\ backend = "nccl" => inbox' = inbox
      /\ backend = "nixl" /\ p + 1 \in Processes => inbox'[p + 1] = Append(inbox[p + 1], f.sent)
  BY <1>1, <1>3, AnnounceType
<1>6. ASSUME NEW r \in Ranks, Source(r) = p PROVE LinkInv(r)'
  <2>1. r # p /\ LinkInv(r) /\ r \in Processes
    BY <1>1, <1>3, <1>6, SourceIs DEF TransferInv
  <2>2. engine'[r] = engine[r] /\ Arrival(r)' = Arrival(r) /\ Source(r)' = p
    BY <1>2, <1>6, <2>1 DEF Alone
  <2>3. /\ LinkOK("start", f.sent, From(p)', <<>>, <<>>, engine[r].in, engine[r].got, Arrival(r))
        /\ LinkOK("moving", f.sent, From(p)', <<>>, <<f.sent>>, engine[r].in, engine[r].got, Arrival(r))
        /\ inbox[r] = <<>>
    <3>1. PICK after : after = From(p)'
      OBVIOUS
    <3>2. after = From(p) + Len(f.sent.meta) /\ (f.sent.last => after = NumParams + 1)
      BY <3>1
    <3>3. LinkOK(engine[p].out, engine[p].sent, From(p), notes[p], inbox[r], engine[r].in, engine[r].got,
                 Arrival(r))
      BY <1>6, <2>1 DEF LinkInv
    <3> HIDE DEF From, Arrival
    <3>4. /\ LinkOK("start", f.sent, after, <<>>, <<>>, engine[r].in, engine[r].got, Arrival(r))
          /\ LinkOK("moving", f.sent, after, <<>>, <<f.sent>>, engine[r].in, engine[r].got, Arrival(r))
          /\ inbox[r] = <<>>
      BY <1>4, <3>2, <3>3, AnnounceLink
    <3> QED
      BY <3>1, <3>4
  <2>4. CASE backend = "nixl"
    <3>1. r = p + 1
      BY <1>3, <1>6, <2>4 DEF Source, Ranks
    <3>2. inbox'[r] = Append(<<>>, f.sent)
      BY <1>5, <2>1, <2>3, <2>4, <3>1
    <3>3. inbox'[r] = <<f.sent>> /\ f.out = "moving"
      BY <2>4, <3>2
    <3> QED
      BY <1>4, <1>6, <2>2, <2>3, <3>3 DEF LinkInv
  <2>5. CASE backend = "nccl"
    <3>1. inbox'[r] = <<>> /\ f.out = "start"
      BY <1>5, <2>3, <2>5
    <3> QED
      BY <1>4, <1>6, <2>2, <2>3, <3>1 DEF LinkInv
  <2> QED
    BY <1>3, <2>4, <2>5
<1>7. ASSUME NEW r \in Ranks, Source(r) # p
      PROVE  inbox'[r] = inbox[r] /\ notes'[Source(r)] = notes[Source(r)]
  <2>1. Source(r) \in Processes /\ r \in Processes
    BY <1>1, <1>3, SourceIs
  <2>2. backend = "nixl" => r # p + 1
    BY <1>3, <1>7 DEF Source
  <2> QED
    BY <1>3, <1>4, <1>5, <1>7, <2>1, <2>2
<1>8. AbsentInv'
  <2>1. p + 1 \in Ranks \/ backend = "nccl"
    BY <1>3 DEF Forwards, HasNext, Ranks
  <2>2. ASSUME NEW q \in Processes, q \notin Ranks PROVE inbox'[q] = <<>>
    <3>1. inbox[q] = <<>>
      BY <1>1, <2>2 DEF AbsentInv
    <3> QED
      BY <1>5, <2>1, <2>2, <3>1
  <2> QED
    BY <1>2, <1>4, <2>2 DEF AbsentInv, Processes
<1> QED
  BY <1>6, <1>7, <1>8

\* Process p has nothing announced any more.
LEMMA WithdrawStep ==
    ASSUME TransferInv, NEW p \in 0..ranks, Alone(p), WaitAnnounced(p), inbox' = inbox,
           engine'[p].out = "none", engine'[p].sent = engine[p].sent, From(p)' = From(p)
    PROVE  /\ \A r \in Ranks : Source(r) = p => LinkInv(r)'
           /\ \A r \in Ranks : Source(r) # p => inbox'[r] = inbox[r] /\ notes'[Source(r)] = notes[Source(r)]
           /\ AbsentInv'
<1>1. TypeInv /\ AbsentInv
  BY DEF TransferInv
<1>2. /\ Ranks' = Ranks /\ backend' = backend /\ ranks' = ranks
      /\ \A r \in Ranks : Source(r)' = Source(r)
      /\ \A r \in Ranks : r # p => Arrival(r)' = Arrival(r)
  BY <1>1, AloneKeeps
<1>3. /\ Received(engine[p].out, notes[p])
      /\ \A q \in Processes : q # p => notes'[q] = notes[q]
      /\ \A r \in Ranks : Source(r) = p => notes'[p] = <<>>
      /\ \A q \in Processes : q >= ranks \/ backend = "nccl" => notes'[q] = <<>>
  BY WaitNotes
<1>4. ASSUME NEW r \in Ranks, Source(r) = p PROVE LinkInv(r)'
  <2>1. r # p /\ LinkInv(r) /\ r \in Processes
    BY <1>1, <1>4, RanksAre, SourceIs DEF TransferInv
  <2>2. engine'[r] = engine[r] /\ Arrival(r)' = Arrival(r) /\ Source(r)' = p
    BY <1>2, <1>4, <2>1 DEF Alone
  <2>3. LinkOK("none", engine[p].sent, From(p), <<>>, inbox[r], engine[r].in, engine[r].got, Arrival(r))
    BY <1>3, <1>4, <2>1, WithdrawLink DEF LinkInv
  <2> QED
    BY <1>3, <1>4, <2>2, <2>3 DEF LinkInv
<1>5. ASSUME NEW r \in Ranks, Source(r) # p
      PROVE  inbox'[r] = inbox[r] /\ notes'[Source(r)] = notes[Source(r)]
  BY <1>1, <1>3, <1>5, SourceIs
<1>6. AbsentInv'
  BY <1>1, <1>2, <1>3 DEF AbsentInv, Processes
<1> QED
  BY <1>4, <1>5, <1>6

LEMMA FlushStep == ASSUME TransferInv, Flush PROVE TransferInv'
<1> DEFINE e == engine[0]
<1>1. TypeInv /\ SenderInv
  BY DEF TransferInv
<1>2. /\ TypeInv' /\ e.pc = "send" /\ WaitAnnounced(0)
      /\ UNCHANGED <<managerVars, next, consuming, buffers, adapterVars>>
  BY <1>1, FlushEffect
<1>3. PICK f \in Engines :
        /\ engine' = [engine EXCEPT ![0] = f]
        /\ f.pc = "send" /\ f.cur = 1 - e.cur /\ f.meta = <<>> /\ f.in = e.in
        /\ f.out = IF backend = "nixl" THEN "moving" ELSE "start"
        /\ f.sent \in Buckets /\ f.sent.meta = e.meta /\ f.sent.buffer = SendBuf(0)
        /\ ~f.sent.last
        /\ Announce(0, f.sent)
  BY <1>1, FlushEffect
<1>4. /\ 0 \in Processes /\ 0 \in 0..ranks /\ e \in Engines /\ SendBuf(0) = e.cur + 1
      /\ next \in Nat /\ next # 0 /\ 0 \notin Ranks
  BY <1>1, RanksAre, SizesAre DEF TypeInv, Ranks, SendBuf
<1>5. engine'[0] = f /\ \A q \in Processes : q # 0 => engine'[q] = engine[q]
  BY <1>1, <1>3, <1>4 DEF TypeInv
<1>6. phase = "transfer"
  BY <1>1, <1>2, <1>4 DEF TransferInv, QuietInv
<1>7. /\ Alone(0) /\ round' = round /\ next' = next /\ buffers' = buffers
  BY <1>2, <1>5, <1>6 DEF Alone, managerVars, adapterVars
<1>8. /\ SenderOK(f, next, buffers[0], round) /\ OutOK(f, buffers[0], round)
      /\ Covers(f.sent.meta, StartOf(e, next)) /\ StartOf(e, next) \in Nat
      /\ StartOf(f, next) = StartOf(e, next) + Len(f.sent.meta)
  BY <1>1, <1>2, <1>3, <1>4, FlushSender, Zenon DEF SenderInv
<1>9. /\ SenderInv' /\ From(0)' = From(0) + Len(f.sent.meta) /\ From(0) \in Nat
      /\ Covers(f.sent.meta, From(0)) /\ OutInv(0)'
  BY <1>5, <1>7, <1>8 DEF SenderInv, From, OutInv
<1>10. /\ \A r \in Ranks : Source(r) = 0 => LinkInv(r)'
       /\ \A r \in Ranks : Source(r) # 0 => inbox'[r] = inbox[r] /\ notes'[Source(r)] = notes[Source(r)]
       /\ AbsentInv'
  <2>1. f.sent.last => From(0)' = NumParams + 1
    BY <1>3
  <2> QED
    BY <1>2, <1>3, <1>4, <1>5, <1>7, <1>9, <2>1, AnnounceStep
<1>11. CallInv'
  BY <1>4, <1>7, CallKept
<1> QED
  BY <1>2, <1>4, <1>7, <1>9, <1>10, <1>11, AloneStep

LEMMA SendLastStep == ASSUME TransferInv, SendLast PROVE TransferInv'
<1> DEFINE e == engine[0]
<1>1. TypeInv /\ SenderInv
  BY DEF TransferInv
<1>2. /\ TypeInv' /\ e.pc = "send" /\ WaitAnnounced(0) /\ next = NumParams + 1
      /\ UNCHANGED <<managerVars, next, consuming, buffers, adapterVars>>
  BY <1>1, SendLastEffect
<1>3. PICK f \in Engines :
        /\ engine' = [engine EXCEPT ![0] = f]
        /\ f.pc = "closing" /\ f.cur = e.cur /\ f.meta = e.meta /\ f.in = e.in
        /\ f.out = IF backend = "nixl" THEN "moving" ELSE "start"
        /\ f.sent \in Buckets /\ f.sent.meta = e.meta /\ f.sent.buffer = SendBuf(0)
        /\ f.sent.last
        /\ Announce(0, f.sent)
  BY <1>1, SendLastEffect
<1>4. /\ 0 \in Processes /\ 0 \in 0..ranks /\ e \in Engines /\ SendBuf(0) = e.cur + 1
      /\ next \in Nat /\ 0 \notin Ranks
  BY <1>1, RanksAre, SizesAre DEF TypeInv, Ranks, SendBuf
<1>5. engine'[0] = f /\ \A q \in Processes : q # 0 => engine'[q] = engine[q]
  BY <1>1, <1>3, <1>4 DEF TypeInv
<1>6. phase = "transfer"
  BY <1>1, <1>2, <1>4 DEF TransferInv, QuietInv
<1>7. /\ Alone(0) /\ round' = round /\ next' = next /\ buffers' = buffers
  BY <1>2, <1>5, <1>6 DEF Alone, managerVars, adapterVars
<1>8. /\ SenderOK(f, next, buffers[0], round) /\ OutOK(f, buffers[0], round)
      /\ Covers(f.sent.meta, StartOf(e, next)) /\ StartOf(e, next) \in Nat
      /\ StartOf(f, next) = StartOf(e, next) + Len(f.sent.meta) /\ StartOf(f, next) = NumParams + 1
  BY <1>1, <1>2, <1>3, <1>4, LastSender, ZenonT(30) DEF SenderInv
<1>9. /\ SenderInv' /\ From(0)' = From(0) + Len(f.sent.meta) /\ From(0) \in Nat
      /\ Covers(f.sent.meta, From(0)) /\ OutInv(0)' /\ From(0)' = NumParams + 1
  BY <1>5, <1>7, <1>8 DEF SenderInv, From, OutInv
<1>10. /\ \A r \in Ranks : Source(r) = 0 => LinkInv(r)'
       /\ \A r \in Ranks : Source(r) # 0 => inbox'[r] = inbox[r] /\ notes'[Source(r)] = notes[Source(r)]
       /\ AbsentInv'
  BY <1>2, <1>3, <1>4, <1>5, <1>7, <1>9, AnnounceStep
<1>11. CallInv'
  BY <1>4, <1>7, CallKept
<1> QED
  BY <1>2, <1>4, <1>7, <1>9, <1>10, <1>11, AloneStep

LEMMA SendDoneStep == ASSUME TransferInv, SendDone PROVE TransferInv'
<1> DEFINE e == engine[0]
           f == [e EXCEPT !.pc = "done", !.out = "none"]
<1>1. TypeInv /\ SenderInv /\ TypeInv' /\ engine' = [engine EXCEPT ![0] = f]
  BY SendDoneEffect DEF TransferInv
<1>2. 0 \in Processes /\ 0 \in 0..ranks /\ e \in Engines /\ 0 \notin Ranks
  BY <1>1, RanksAre DEF TypeInv, Ranks
<1>3. engine'[0] = f /\ \A q \in Processes : q # 0 => engine'[q] = engine[q]
  BY <1>1, <1>2 DEF TypeInv
<1>4. /\ e.pc = "closing" /\ WaitAnnounced(0) /\ inbox' = inbox
      /\ UNCHANGED <<managerVars, next, buffers, adapter, worker>>
  BY DEF SendDone, adapterVars
<1>5. phase = "transfer"
  BY <1>1, <1>2, <1>4 DEF TransferInv, QuietInv
<1>6. Alone(0) /\ round' = round
  BY <1>3, <1>4, <1>5 DEF Alone, managerVars
<1>7. /\ SenderOK(f, next, buffers[0], round) /\ StartOf(f, next) = StartOf(e, next)
      /\ OutOK(f, buffers[0], round) /\ f.out = "none"
  BY <1>1, <1>2, <1>4, DoneSender, Zenon DEF SenderInv
<1>8. f.sent = e.sent
  BY <1>2 DEF Engines, EngineRecords
<1> HIDE DEF f
<1>9. SenderInv' /\ From(0)' = From(0) /\ OutInv(0)'
  BY <1>3, <1>4, <1>6, <1>7 DEF SenderInv, From, OutInv
<1>10. /\ \A r \in Ranks : Source(r) = 0 => LinkInv(r)'
       /\ \A r \in Ranks : Source(r) # 0 => inbox'[r] = inbox[r] /\ notes'[Source(r)] = notes[Source(r)]
       /\ AbsentInv'
  BY <1>2, <1>3, <1>4, <1>6, <1>7, <1>8, <1>9, WithdrawStep
<1>11. CallInv'
  BY <1>2, <1>6, CallKept
<1> QED
  BY <1>1, <1>2, <1>6, <1>9, <1>10, <1>11, AloneStep

LEMMA PublishStep == ASSUME TransferInv, Publish PROVE TransferInv'
<1> DEFINE e == engine[0]
           f == [e EXCEPT !.out = "moving"]
<1>1. TypeInv /\ SenderInv /\ AbsentInv /\ TypeInv' /\ engine' = [engine EXCEPT ![0] = f] /\ OutInv(0)
  BY PublishEffect, RanksAre DEF TransferInv
<1>2. 0 \in Processes /\ 0 \in 0..ranks /\ e \in Engines /\ 0 \notin Ranks /\ Ranks \subseteq Processes
  <2>1. TypeInv
    BY <1>1
  <2>2. 0 \in Processes /\ Ranks \subseteq Processes
    BY <2>1, RanksAre
  <2> QED
    BY <2>1, <2>2 DEF TypeInv, Ranks
<1>3. engine'[0] = f /\ \A q \in Processes : q # 0 => engine'[q] = engine[q]
  BY <1>1, <1>2 DEF TypeInv
<1>4. /\ backend = "nccl" /\ e.out = "start" /\ notes' = notes /\ subscribed \subseteq Ranks
      /\ inbox' = [p \in Processes |-> IF p \in subscribed THEN Append(inbox[p], e.sent) ELSE inbox[p]]
      /\ UNCHANGED <<managerVars, next, buffers, adapter, worker>>
  BY <1>1 DEF Publish, adapterVars, TypeInv
<1>5. /\ f.pc = e.pc /\ f.cur = e.cur /\ f.meta = e.meta /\ f.in = e.in /\ f.sent = e.sent
      /\ f.out = "moving"
  BY <1>2 DEF Engines, EngineRecords
<1> HIDE DEF f
<1>6. phase = "transfer"
  BY <1>1, <1>2, <1>4 DEF TransferInv, QuietInv, SenderInv, SenderOK
<1>7. Alone(0) /\ round' = round
  BY <1>3, <1>4, <1>6 DEF Alone, managerVars
<1>8. SenderInv'
  <2>1. SenderOK(f, next, buffers[0], round)
    BY <1>1, <1>4, <1>5 DEF SenderInv, SenderOK
  <2> QED
    BY <1>3, <1>4, <1>7, <2>1 DEF SenderInv
<1>9. From(0)' = From(0) /\ OutInv(0)'
  <2>1. StartOf(f, next) = StartOf(e, next) /\ OutOK(f, buffers[0], round)
    BY <1>1, <1>4, <1>5 DEF OutInv, OutOK, StartOf
  <2> QED
    BY <1>3, <1>4, <1>7, <2>1 DEF From, OutInv
<1>10. ASSUME NEW r \in Ranks PROVE LinkInv(r)'
  <2>1. /\ LinkInv(r) /\ Source(r) = 0 /\ r # 0 /\ r \in Processes
        /\ LinkOK("start", e.sent, From(0), notes[0], inbox[r], engine[r].in, engine[r].got, Arrival(r))
    BY <1>2, <1>4 DEF TransferInv, LinkInv, Source
  <2>2. /\ LinkOK("moving", e.sent, From(0), notes[0], <<>>, engine[r].in, engine[r].got, Arrival(r))
        /\ LinkOK("moving", e.sent, From(0), notes[0], <<e.sent>>, engine[r].in, engine[r].got, Arrival(r))
        /\ inbox[r] = <<>>
    BY <2>1, PublishLink
  <2>3. inbox'[r] = <<>> \/ inbox'[r] = <<e.sent>>
    <3>1. CASE r \in subscribed
      <4>1. inbox'[r] = Append(<<>>, e.sent)
        BY <1>4, <2>1, <2>2, <3>1
      <4> QED
        BY <4>1
    <3>2. CASE r \notin subscribed
      BY <1>4, <2>1, <2>2, <3>2
    <3> QED
      BY <3>1, <3>2
  <2>4. engine'[r] = engine[r] /\ Arrival(r)' = Arrival(r) /\ Source(r)' = 0
    BY <1>1, <1>2, <1>3, <1>7, <2>1, AloneKeeps
  <2> QED
    BY <1>3, <1>4, <1>5, <1>9, <2>2, <2>3, <2>4 DEF LinkInv
<1>11. AbsentInv'
  <2>1. Ranks' = Ranks /\ ranks' = ranks /\ backend' = backend
    BY <1>1, <1>2, <1>7, AloneKeeps
  <2> QED
    BY <1>1, <1>4, <2>1 DEF AbsentInv, Processes
<1>12. CallInv'
  BY <1>2, <1>7, CallKept
<1>13. \A r \in Ranks : Source(r) = 0
  BY <1>4 DEF Source
<1> QED
  BY <1>1, <1>2, <1>7, <1>8, <1>9, <1>10, <1>11, <1>12, <1>13, AloneStep

-----------------------------------------------------------------------------
(* What arrives at a rank *)

\* The link from a process whose announcement stays as it is.
LEMMA OutLinkKept ==
    ASSUME TransferInv, NEW p \in 0..ranks, Alone(p), NEW r \in Ranks, Source(r) = p,
           engine'[p].out = engine[p].out, engine'[p].sent = engine[p].sent, From(p)' = From(p),
           notes'[p] = notes[p], inbox'[r] = inbox[r]
    PROVE  LinkInv(r)'
<1>1. TypeInv /\ LinkInv(r)
  BY DEF TransferInv
<1>2. r # p /\ r \in Processes
  BY <1>1, SourceIs, RanksAre
<1>3. engine'[r] = engine[r] /\ Arrival(r)' = Arrival(r) /\ Source(r)' = p
  BY <1>1, <1>2, AloneKeeps DEF Alone
<1> QED
  BY <1>1, <1>3 DEF LinkInv

LEMMA ReceiveStep == ASSUME TransferInv, NEW r \in Ranks, Receive(r) PROVE TransferInv'
<1> DEFINE e == engine[r]
           s == Source(r)
           f == [e EXCEPT !.in = "moving", !.got = Head(inbox[r])]
<1>1. TypeInv /\ LinkInv(r) /\ RankInv(r) /\ OutInv(r) /\ AbsentInv
  BY RanksAre DEF TransferInv
<1>2. TypeInv' /\ engine' = [engine EXCEPT ![r] = f] /\ Head(inbox[r]) \in Buckets
  BY <1>1, ReceiveEffect
<1>3. r \in Processes /\ r \in 0..ranks /\ r # 0 /\ e \in Engines /\ Ranks \subseteq Processes
  BY <1>1, RanksAre DEF TypeInv, Ranks
<1>4. engine'[r] = f /\ \A q \in Processes : q # r => engine'[q] = engine[q]
  BY <1>1, <1>2, <1>3 DEF TypeInv
<1>5. /\ e.in = "start" /\ inbox[r] # <<>> /\ inbox' = [inbox EXCEPT ![r] = Tail(inbox[r])] /\ notes' = notes
      /\ UNCHANGED <<managerVars, next, buffers, adapter, worker>>
  BY DEF Receive, adapterVars
<1>6. /\ f.pc = e.pc /\ f.cur = e.cur /\ f.meta = e.meta /\ f.out = e.out /\ f.sent = e.sent
      /\ f.in = "moving" /\ f.got = Head(inbox[r])
  BY <1>3 DEF Engines, EngineRecords
<1>7. phase = "transfer"
  <2>1. e.pc \notin {"idle", "done"}
    BY <1>1, <1>5 DEF RankInv, RankOK, EngineOK
  <2> QED
    BY <1>3, <2>1 DEF TransferInv, QuietInv
<1>8. Alone(r) /\ round' = round
  BY <1>4, <1>5, <1>7 DEF Alone, managerVars
<1>9. Arrival(r) = End(r) /\ LinkOK(engine[s].out, engine[s].sent, From(s), notes[s], inbox[r], "start", e.got, End(r))
  BY <1>1, <1>5 DEF LinkInv, Arrival
<1>10. /\ Head(inbox[r]) = engine[s].sent /\ Tail(inbox[r]) = <<>>
       /\ Covers(engine[s].sent.meta, End(r)) /\ (engine[s].sent.last => End(r) + Len(engine[s].sent.meta) = NumParams + 1)
       /\ LinkOK(engine[s].out, engine[s].sent, From(s), notes[s], <<>>, "moving", engine[s].sent,
                 End(r) + Len(engine[s].sent.meta))
  BY <1>5, <1>9, ReceiveLink, Zenon
<1>11. RankOK(f, adapter[r], worker[r], buffers[r], round) /\ EndOf(f, adapter[r], worker[r]) = End(r)
  <2>1. adapter[r] \in Adapters /\ worker[r] \in Workers /\ buffers[r] \in [1..2 -> Contents]
    BY <1>1, RankTypes
  <2> QED
    <3>1. /\ Covers(Head(inbox[r]).meta, End(r))
          /\ Head(inbox[r]).last => End(r) + Len(Head(inbox[r]).meta) = NumParams + 1
      BY <1>10
    <3> QED
      BY <1>1, <1>2, <1>3, <1>5, <2>1, <3>1, ReceiveRank, ZenonT(30) DEF RankInv, End
<1> HIDE DEF f
<1>12. RankInv(r)' /\ End(r)' = End(r) /\ From(r)' = From(r)
  BY <1>3, <1>4, <1>5, <1>8, <1>11 DEF RankInv, End, From
<1>13. OutInv(r)'
  <2>1. OutOK(f, buffers[r], round)
    BY <1>1, <1>6 DEF OutInv, OutOK
  <2> QED
    BY <1>1, <1>3, <1>4, <1>5, <1>6, <1>8, <2>1, AloneKeeps DEF OutInv
<1>14. ASSUME NEW q \in Ranks, q = r \/ Source(q) = r PROVE LinkInv(q)'
  <2>1. CASE q = r
    <3>1. inbox'[r] = <<>> /\ Source(r)' = s /\ s \in Processes /\ s # r /\ s \in 0..ranks
      BY <1>1, <1>3, <1>5, <1>8, <1>10, SourceIs, AloneKeeps DEF TypeInv
    <3>2. engine'[s] = engine[s] /\ From(s)' = From(s)
      BY <1>1, <1>3, <1>4, <1>8, <3>1, AloneKeeps
    <3>3. Arrival(r)' = End(r) + Len(engine[s].sent.meta)
      BY <1>4, <1>6, <1>10, <1>12 DEF Arrival
    <3>4. notes'[s] = notes[s] /\ engine'[r].in = "moving" /\ engine'[r].got = engine[s].sent
      BY <1>4, <1>5, <1>6, <1>10
    <3> QED
      BY <1>10, <2>1, <3>1, <3>2, <3>3, <3>4 DEF LinkInv
  <2>2. CASE q # r
    <3>1. inbox'[q] = inbox[q]
      BY <1>1, <1>3, <1>5, <2>2 DEF TypeInv
    <3> QED
      BY <1>3, <1>4, <1>5, <1>6, <1>8, <1>12, <1>14, <2>2, <3>1, OutLinkKept
  <2> QED
    BY <2>1, <2>2
<1>15. \A q \in Ranks : q # r => inbox'[q] = inbox[q] /\ notes'[Source(q)] = notes[Source(q)]
  BY <1>1, <1>3, <1>5 DEF TypeInv
<1>16. AbsentInv'
  <2>1. Ranks' = Ranks /\ ranks' = ranks /\ backend' = backend
    BY <1>1, <1>3, <1>8, AloneKeeps
  <2> QED
    BY <1>1, <1>5, <2>1 DEF AbsentInv, Processes, TypeInv
<1>17. CallInv'
  BY <1>3, <1>5, <1>8, CallKept
<1> QED
  BY <1>2, <1>3, <1>8, <1>12, <1>13, <1>14, <1>15, <1>16, <1>17, AloneStep

LEMMA ReadDoneStep == ASSUME TransferInv, NEW r \in Ranks, ReadDone(r) PROVE TransferInv'
<1> DEFINE e == engine[r]
           s == r - 1
           c == buffers[s][e.got.buffer]
           f == [e EXCEPT !.in = "done"]
           new == [buffers[r] EXCEPT ![2 - e.cur] = c]
<1>1. TypeInv /\ LinkInv(r) /\ RankInv(r) /\ OutInv(r) /\ AbsentInv
  BY RanksAre DEF TransferInv
<1>2. /\ TypeInv' /\ engine' = [engine EXCEPT ![r] = f] /\ buffers' = [buffers EXCEPT ![r] = new]
      /\ notes' = [notes EXCEPT ![s] = Append(notes[s], e.got.key)]
  BY <1>1, ReadDoneEffect DEF RecvBuf
<1>3. /\ r \in Processes /\ r \in 0..ranks /\ r # 0 /\ e \in Engines /\ Ranks \subseteq Processes
      /\ s \in Processes /\ s # r /\ s \in 0..ranks /\ s < ranks
      /\ buffers[r] \in [1..2 -> Contents] /\ buffers[s] \in [1..2 -> Contents]
      /\ adapter[r] \in Adapters /\ worker[r] \in Workers
  <2>1. adapter[r] \in Adapters /\ worker[r] \in Workers
    BY <1>1, RankTypes
  <2> QED
    BY <1>1, <2>1, RanksAre, SMTT(30) DEF TypeInv, Ranks
<1>4. /\ engine'[r] = f /\ buffers'[r] = new
      /\ \A q \in Processes : q # r => engine'[q] = engine[q] /\ buffers'[q] = buffers[q]
      /\ notes'[s] = Append(notes[s], e.got.key) /\ \A q \in Processes : q # s => notes'[q] = notes[q]
  BY <1>1, <1>2, <1>3 DEF TypeInv
<1>5. /\ e.in = "moving" /\ backend = "nixl" /\ inbox' = inbox
      /\ UNCHANGED <<managerVars, next, adapter, worker>>
  BY DEF ReadDone, adapterVars, linkVars
<1>6. Source(r) = s
  BY <1>5 DEF Source
<1>7. /\ f.pc = e.pc /\ f.cur = e.cur /\ f.meta = e.meta /\ f.out = e.out /\ f.sent = e.sent
      /\ f.in = "done" /\ f.got = e.got
  BY <1>3 DEF Engines, EngineRecords
<1>8. phase = "transfer" /\ e.pc # "send"
  <2>1. e.pc \notin {"idle", "done", "send"}
    BY <1>1, <1>5 DEF RankInv, RankOK, EngineOK
  <2> QED
    BY <1>3, <2>1 DEF TransferInv, QuietInv
<1>9. Alone(r) /\ round' = round
  BY <1>4, <1>5, <1>8 DEF Alone, managerVars
<1>10. LinkOK(engine[s].out, engine[s].sent, From(s), notes[s], inbox[r], "moving", e.got, Arrival(r))
  BY <1>1, <1>5, <1>6 DEF LinkInv
<1>11. /\ engine[s].out = "moving" /\ notes[s] = <<>> /\ e.got = engine[s].sent
       /\ LinkOK(engine[s].out, engine[s].sent, From(s), <<e.got.key>>, inbox[r], "done", e.got, Arrival(r))
  BY <1>10, ReadLink
<1>12. c \in Contents /\ Intact(c, e.got.meta, round)
  <2>1. e.got.buffer \in 1..2
    BY <1>3, <1>5, EngineIs DEF Buckets
  <2>2. OutOK(engine[s], buffers[s], round)
    BY <1>3 DEF TransferInv, OutInv
  <2> QED
    BY <1>3, <1>11, <2>1, <2>2 DEF OutOK
<1>13. RankOK(f, adapter[r], worker[r], new, round) /\ EndOf(f, adapter[r], worker[r]) = End(r)
  <2> HIDE DEF c
  <2> QED
    BY <1>1, <1>3, <1>5, <1>12, ArriveRank, Zenon DEF RankInv, End
<1>14. OutOK(f, new, round)
  <2>1. e.cur + 1 \in 1..2 /\ e.cur + 1 # 2 - e.cur
    BY <1>3, SenderFields
  <2>2. new[e.cur + 1] = buffers[r][e.cur + 1]
    BY <1>3, <2>1
  <2> HIDE DEF f, new
  <2> QED
    BY <1>1, <1>7, <1>8, <2>2 DEF OutInv, OutOK
<1> HIDE DEF f, new, c
<1>15. RankInv(r)' /\ End(r)' = End(r) /\ From(r)' = From(r)
  BY <1>3, <1>4, <1>5, <1>9, <1>13 DEF RankInv, End, From
<1>16. OutInv(r)'
  BY <1>1, <1>3, <1>4, <1>7, <1>9, <1>14, AloneKeeps DEF OutInv
<1>17. ASSUME NEW q \in Ranks, q = r \/ Source(q) = r PROVE LinkInv(q)'
  <2>1. CASE q = r
    <3>1. Source(r)' = s /\ engine'[s] = engine[s] /\ From(s)' = From(s)
      BY <1>1, <1>3, <1>4, <1>6, <1>9, AloneKeeps
    <3>2. Arrival(r) = End(r) + Len(e.got.meta) /\ Arrival(r)' = End(r) + Len(e.got.meta)
      BY <1>4, <1>5, <1>7, <1>15 DEF Arrival
    <3>3. notes'[s] = <<e.got.key>>
      BY <1>4, <1>11
    <3> QED
      BY <1>4, <1>5, <1>7, <1>11, <2>1, <3>1, <3>2, <3>3 DEF LinkInv
  <2>2. CASE q # r
    <3>1. inbox'[q] = inbox[q] /\ notes'[r] = notes[r]
      BY <1>3, <1>4, <1>5
    <3> QED
      BY <1>3, <1>4, <1>7, <1>9, <1>15, <1>17, <2>2, <3>1, OutLinkKept
  <2> QED
    BY <2>1, <2>2
<1>18. \A q \in Ranks : q # r => inbox'[q] = inbox[q] /\ notes'[Source(q)] = notes[Source(q)]
  <2> SUFFICES ASSUME NEW q \in Ranks, q # r PROVE notes'[Source(q)] = notes[Source(q)]
    BY <1>5
  <2>1. Source(q) # s /\ Source(q) \in Processes
    BY <1>1, <1>5, SourceIs DEF Source, Ranks, TypeInv
  <2> QED
    BY <1>4, <2>1
<1>19. AbsentInv'
  <2>1. Ranks' = Ranks /\ ranks' = ranks /\ backend' = backend
    BY <1>1, <1>3, <1>9, AloneKeeps
  <2>2. ASSUME NEW q \in Processes, q >= ranks \/ backend = "nccl" PROVE notes'[q] = notes[q]
    <3>1. q # s
      <4>1. q \in Nat /\ s \in Nat /\ ranks \in Nat
        BY <1>1, <1>3, RanksAssumption DEF TypeInv, Processes
      <4> QED
        BY <1>3, <1>5, <2>2, <4>1
    <3> QED
      BY <1>4, <2>2, <3>1
  <2> QED
    BY <1>1, <1>5, <2>1, <2>2 DEF AbsentInv, Processes
<1>20. CallInv'
  BY <1>3, <1>5, <1>9, CallKept
<1> QED
  BY <1>2, <1>3, <1>9, <1>15, <1>16, <1>17, <1>18, <1>19, <1>20, AloneStep

\* The broadcast ends on all ranks together.
LEMMA BroadcastStep == ASSUME TransferInv, Broadcast PROVE TransferInv'
<1> DEFINE e == engine[0]
           f == [e EXCEPT !.out = "done"]
           c == buffers[0][e.sent.buffer]
<1>1. TypeInv /\ SenderInv /\ AbsentInv /\ OutInv(0)
  BY RanksAre DEF TransferInv
<1>2. /\ TypeInv'
      /\ engine'[0] = f
      /\ \A r \in Ranks : /\ engine'[r] = [engine[r] EXCEPT !.in = "done"]
                          /\ RecvBuf(r) \in 1..2
                          /\ buffers'[r] = [buffers[r] EXCEPT ![RecvBuf(r)] = c]
      /\ \A p \in Processes \ Ranks : p # 0 => engine'[p] = engine[p]
      /\ buffers'[0] = buffers[0]
  BY <1>1, BroadcastEffect, Zenon
<1>3. /\ backend = "nccl" /\ e.out = "moving" /\ \A r \in Ranks : engine[r].in = "moving"
      /\ UNCHANGED <<managerVars, next, inbox, notes, subscribed, lost, adapter, worker>>
  BY DEF Broadcast, adapterVars, linkVars
<1>4. 0 \in Processes /\ e \in Engines /\ Ranks \subseteq Processes /\ e.sent \in Buckets
  <2>1. 0 \in Processes /\ Ranks \subseteq Processes
    BY <1>1, RanksAre
  <2>2. e \in Engines
    BY <1>1, <2>1 DEF TypeInv
  <2> QED
    BY <1>3, <2>1, <2>2, EngineIs
<1>5. /\ f.pc = e.pc /\ f.cur = e.cur /\ f.meta = e.meta /\ f.in = e.in /\ f.sent = e.sent
      /\ f.out = "done"
  BY <1>4 DEF Engines, EngineRecords
<1> HIDE DEF f
<1>6. /\ Ranks' = Ranks /\ round' = round /\ phase' = phase /\ backend' = backend /\ ranks' = ranks
      /\ replicaSize' = replicaSize
  BY <1>3 DEF managerVars, Ranks
<1>7. phase = "transfer"
  <2>1. e.pc \notin {"idle", "done"}
    BY <1>1, <1>3 DEF SenderInv, SenderOK
  <2> QED
    BY <1>1, <2>1, RanksAssumption DEF TransferInv, QuietInv, TypeInv
<1>8. c \in Contents /\ Intact(c, e.sent.meta, round)
  <2>1. e.sent.buffer \in 1..2 /\ buffers[0] \in [1..2 -> Contents]
    BY <1>1, <1>4 DEF Buckets, TypeInv
  <2> QED
    BY <1>1, <1>3, <2>1 DEF OutInv, OutOK
<1> HIDE DEF c
<1>9. SenderInv'
  <2>1. SenderOK(f, next, buffers[0], round)
    BY <1>1, <1>3, <1>5 DEF SenderInv, SenderOK
  <2> QED
    BY <1>2, <1>3, <1>6, <2>1 DEF SenderInv
<1>10. From(0)' = From(0)
  <2>1. StartOf(f, next) = StartOf(e, next)
    BY <1>5 DEF StartOf
  <2> QED
    BY <1>2, <1>3, <2>1 DEF From
<1>11. ASSUME NEW r \in Ranks PROVE RankInv(r)' /\ LinkInv(r)'
  <2> DEFINE g == [engine[r] EXCEPT !.in = "done"]
  <2>1. /\ engine[r] \in Engines /\ adapter[r] \in Adapters /\ worker[r] \in Workers
        /\ buffers[r] \in [1..2 -> Contents] /\ RankInv(r) /\ LinkInv(r) /\ r # 0
    BY <1>1, RankTypes, RanksAre DEF TransferInv
  <2>2. /\ g.got = engine[r].got /\ g.in = "done"
    BY <2>1 DEF Engines, EngineRecords
  <2>3. Source(r) = 0 /\ Source(r)' = 0
    BY <1>3, <1>6 DEF Source
  <2>4. LinkOK("moving", e.sent, From(0), notes[0], inbox[r], "moving", engine[r].got, Arrival(r))
    BY <1>3, <2>1, <2>3 DEF LinkInv
  <2>5. /\ engine[r].got = e.sent
        /\ LinkOK("done", e.sent, From(0), notes[0], inbox[r], "done", engine[r].got, Arrival(r))
    BY <2>4, ReadLink
  <2>6. Intact(c, engine[r].got.meta, round) /\ engine[r].in = "moving"
    BY <1>3, <1>8, <2>5
  <2>7. /\ RankOK(g, adapter[r], worker[r], [buffers[r] EXCEPT ![2 - engine[r].cur] = c], round)
        /\ EndOf(g, adapter[r], worker[r]) = End(r)
    BY <1>8, <2>1, <2>6, ArriveRank, Zenon DEF RankInv, End
  <2>8. RankInv(r)' /\ End(r)' = End(r)
    BY <1>2, <1>3, <1>6, <2>7 DEF RankInv, End, RecvBuf
  <2>9. engine'[r].in = "done" /\ engine'[r].got = engine[r].got
    BY <1>2, <2>2
  <2>10. Arrival(r)' = Arrival(r)
    BY <2>6, <2>8, <2>9 DEF Arrival
  <2>11. LinkInv(r)'
    BY <1>2, <1>3, <1>5, <1>10, <2>3, <2>5, <2>9, <2>10 DEF LinkInv
  <2> QED
    BY <2>8, <2>11
<1>12. ASSUME NEW p \in Processes PROVE OutInv(p)'
  <2>1. CASE p = 0
    BY <1>2, <1>5, <2>1 DEF OutInv, OutOK
  <2>2. CASE p # 0
    <3>1. engine[p].out = "none" /\ engine[p] \in Engines
      BY <1>1, <1>3, <2>2 DEF TransferInv, OutInv, Forwards, TypeInv
    <3>2. engine'[p].out = "none"
      <4>1. CASE p \in Ranks
        BY <1>2, <3>1, <4>1 DEF Engines, EngineRecords
      <4>2. CASE p \notin Ranks
        BY <1>2, <2>2, <3>1, <4>2
      <4> QED
        BY <4>1, <4>2
    <3> QED
      BY <3>2 DEF OutInv, OutOK
  <2> QED
    BY <2>1, <2>2
<1>13. AbsentInv'
  BY <1>1, <1>3, <1>6 DEF AbsentInv, Processes
<1>14. CallInv'
  BY <1>3, <1>6 DEF TransferInv, CallInv, Leader, Replica
<1>15. QuietInv'
  BY <1>6, <1>7 DEF QuietInv
<1> QED
  BY <1>2, <1>6, <1>9, <1>11, <1>12, <1>13, <1>14, <1>15 DEF TransferInv, Processes

-----------------------------------------------------------------------------
(* The ranks' steps preserve the invariant *)

LEMMA InRanks ==
    ASSUME TransferInv, NEW r \in Ranks
    PROVE  /\ TypeInv /\ RankInv(r) /\ LinkInv(r) /\ OutInv(r)
           /\ r \in Processes /\ r \in 0..ranks /\ r # 0 /\ r \in 1..MaxRanks /\ Ranks \subseteq Processes
           /\ engine[r] \in Engines /\ adapter[r] \in Adapters /\ worker[r] \in Workers
           /\ buffers[r] \in [1..2 -> Contents] /\ SendBuf(r) = engine[r].cur + 1
           /\ engine \in [Processes -> Engines] /\ adapter \in [1..MaxRanks -> Adapters]
           /\ worker \in [1..MaxRanks -> Workers]
<1>1. TypeInv /\ RankInv(r) /\ LinkInv(r) /\ OutInv(r)
  BY RanksAre DEF TransferInv
<1>2. engine[r] \in Engines /\ adapter[r] \in Adapters /\ worker[r] \in Workers /\ buffers[r] \in [1..2 -> Contents]
  BY <1>1, RankTypes
<1>3. r \in Processes /\ r \in 0..ranks /\ r # 0 /\ r \in 1..MaxRanks /\ Ranks \subseteq Processes
  BY <1>1, RanksAre DEF TypeInv, Ranks
<1> QED
  BY <1>1, <1>2, <1>3 DEF TypeInv, SendBuf

\* A step of a rank that neither announces nor receives.
LEMMA RankStep ==
    ASSUME TransferInv, TypeInv', NEW r \in Ranks, Alone(r), inbox' = inbox, notes' = notes, buffers' = buffers,
           engine'[r].in = engine[r].in, engine'[r].got = engine[r].got, engine'[r].out = engine[r].out,
           engine'[r].sent = engine[r].sent, engine'[r].cur = engine[r].cur,
           RankOK(engine'[r], adapter'[r], worker'[r], buffers[r], round),
           EndOf(engine'[r], adapter'[r], worker'[r]) = EndOf(engine[r], adapter[r], worker[r]), CallInv'
    PROVE  TransferInv'
<1>1. TypeInv /\ RankInv(r) /\ OutInv(r) /\ r \in 0..ranks /\ r # 0 /\ r \in Processes
  BY InRanks
<1>2. round' = round
  BY <1>1, AloneKeeps
<1>3. RankInv(r)' /\ From(r)' = From(r)
  BY <1>1, <1>2 DEF RankInv, From, End
<1>4. OutOK(engine'[r], buffers'[r], round)
  <2>1. engine[r].pc # "send" /\ engine'[r].pc # "send"
    BY <1>1 DEF RankInv, RankOK, EngineOK
  <2>2. OutOK(engine[r], buffers[r], round)
    BY <1>1 DEF OutInv
  <2>3. PICK f : f = engine'[r]
    OBVIOUS
  <2>4. OutOK(f, buffers[r], round)
    BY <2>1, <2>2, <2>3, OutKept
  <2> QED
    BY <2>3, <2>4
<1> QED
  BY <1>1, <1>3, <1>4, InnerStep

LEMMA YieldStep == ASSUME TransferInv, NEW r \in Ranks, Yield(r) PROVE TransferInv'
<1> DEFINE e == engine[r]
           a == adapter[r]
           t == NextTensor(r)
           f == Yielded(e)
           b == WithCopy(a, e.cur + 1, t)
<1>1. /\ TypeInv /\ RankInv(r) /\ r \in Processes /\ r \in 0..ranks /\ r # 0 /\ r \in 1..MaxRanks
      /\ e \in Engines /\ a \in Adapters /\ worker[r] \in Workers /\ buffers[r] \in [1..2 -> Contents]
      /\ SendBuf(r) = e.cur + 1
      /\ engine \in [Processes -> Engines] /\ adapter \in [1..MaxRanks -> Adapters]
  BY InRanks
<1>2. /\ TypeInv' /\ e.pos \in 1..Len(e.meta) /\ a.pc = "fill" /\ Fits(a.meta, t.param)
      /\ engine' = [engine EXCEPT ![r] = f] /\ adapter' = [adapter EXCEPT ![r] = b]
  BY <1>1, YieldEffect DEF Yielded, WithCopy
<1>3. /\ e.pc \in {"loop", "tail"} /\ inbox' = inbox /\ notes' = notes
      /\ UNCHANGED <<managerVars, next, buffers, worker>>
  BY DEF Yield, MayYield, TakeTensor, linkVars
<1>4. f.in = e.in /\ f.got = e.got /\ f.out = e.out /\ f.sent = e.sent /\ f.cur = e.cur
  BY <1>1 DEF Engines, EngineRecords, Yielded
<1>5. b.pc = "fill"
  BY <1>1, <1>2 DEF Adapters, WithCopy
<1>6. RankOK(f, b, worker[r], buffers[r], round) /\ EndOf(f, b, worker[r]) = EndOf(e, a, worker[r])
  <2>1. t = e.meta[e.pos]
    BY DEF NextTensor
  <2> HIDE DEF t
  <2> QED
    <3>1. RankOK(e, a, worker[r], buffers[r], round)
      BY <1>1 DEF RankInv
    <3> QED
      BY <1>1, <1>2, <1>3, <2>1, <3>1, YieldRank, ZenonT(30)
<1> HIDE DEF f, b
<1>7. /\ engine'[r] = f /\ \A q \in Processes : q # r => engine'[q] = engine[q]
      /\ adapter'[r] = b /\ \A q \in 1..MaxRanks : q # r => adapter'[q] = adapter[q]
  BY <1>1, <1>2
<1>8. phase = "transfer"
  BY <1>1, <1>3 DEF TransferInv, QuietInv
<1>9. Alone(r)
  BY <1>3, <1>7, <1>8 DEF Alone
<1>10. CallInv'
  BY <1>1, <1>3, <1>5, <1>7, <1>9, CallKept
<1> QED
  BY <1>2, <1>3, <1>4, <1>6, <1>7, <1>9, <1>10, RankStep

\* The adapter or the worker of one rank takes a step.
LEMMA AdapterAlone ==
    ASSUME TransferInv, NEW r \in Ranks, RankFrame, TypeInv',
           NEW b, adapter' = [adapter EXCEPT ![r] = b], NEW x, worker' = [worker EXCEPT ![r] = x],
           adapter[r].pc \notin {"idle", "done"} \/ worker[r].pc \notin {"off", "loaded"},
           RankOK(engine[r], b, x, buffers[r], round),
           EndOf(engine[r], b, x) = EndOf(engine[r], adapter[r], worker[r]),
           Alone(r) => CallInv'
    PROVE  TransferInv'
<1>1. /\ TypeInv /\ r \in 0..ranks /\ r # 0 /\ r \in 1..MaxRanks
      /\ adapter \in [1..MaxRanks -> Adapters] /\ worker \in [1..MaxRanks -> Workers]
  BY InRanks
<1>2. /\ adapter'[r] = b /\ worker'[r] = x
      /\ \A q \in 1..MaxRanks : q # r => adapter'[q] = adapter[q] /\ worker'[q] = worker[q]
  BY <1>1
<1>3. phase = "transfer"
  BY DEF TransferInv, QuietInv
<1>4. /\ UNCHANGED <<managerVars, next, engine, buffers>> /\ inbox' = inbox /\ notes' = notes
  BY DEF RankFrame, linkVars
<1>5. Alone(r)
  BY <1>2, <1>3, <1>4 DEF Alone
<1>6. engine'[r] = engine[r]
  BY <1>4
<1> QED
  BY <1>2, <1>4, <1>5, <1>6, RankStep

\* The link a rank receives from, when it neither takes a bucket's metadata nor has the bucket under way.
LEMMA TurnStep ==
    ASSUME TransferInv, NEW r \in Ranks, Alone(r), engine[r].in # "moving", engine'[r].in # "moving",
           Arrival(r)' = Arrival(r), inbox'[r] = inbox[r], notes'[Source(r)] = notes[Source(r)]
    PROVE  LinkInv(r)'
<1>1. TypeInv /\ LinkInv(r) /\ r \in 0..ranks
  BY InRanks
<1>2. PICK s : s = Source(r)
  OBVIOUS
<1>3. s \in Processes /\ s \in 0..ranks /\ s # r /\ Source(r)' = s
  BY <1>1, <1>2, SourceIs, AloneKeeps
<1>4. engine'[s] = engine[s] /\ From(s)' = From(s)
  BY <1>1, <1>3, AloneKeeps DEF Alone
<1>5. LinkOK(engine[s].out, engine[s].sent, From(s), notes[s], inbox[r], engine[r].in, engine[r].got, Arrival(r))
  BY <1>1, <1>2 DEF LinkInv
<1>6. PICK turned, got : turned = engine'[r].in /\ got = engine'[r].got
  OBVIOUS
<1>7. LinkOK(engine[s].out, engine[s].sent, From(s), notes[s], inbox[r], turned, got, Arrival(r))
  <2>1. turned # "moving"
    BY <1>6
  <2> QED
    BY <1>5, <2>1, TurnLink, Zenon
<1>8. notes'[s] = notes[s]
  BY <1>2
<1> QED
  BY <1>3, <1>4, <1>6, <1>7, <1>8 DEF LinkInv

\* No process that takes no part has messages, before the step and after.
LEMMA AbsentKept ==
    ASSUME TransferInv, NEW p \in 0..ranks, Alone(p), inbox' = inbox, notes' = notes
    PROVE  AbsentInv'
<1>1. TypeInv /\ AbsentInv
  BY DEF TransferInv
<1>2. Ranks' = Ranks /\ ranks' = ranks /\ backend' = backend
  BY <1>1, AloneKeeps
<1> QED
  BY <1>1, <1>2 DEF AbsentInv, Processes, TypeInv

LEMMA FirstStep == ASSUME TransferInv, NEW r \in Ranks, First(r) PROVE TransferInv'
<1> DEFINE e == engine[r]
           f == [e EXCEPT !.pc = "first", !.in = "start"]
           b == [adapter[r] EXCEPT !.pc = "fill"]
           x == [worker[r] EXCEPT !.pc = "waiting"]
<1>1. /\ TypeInv /\ RankInv(r) /\ OutInv(r) /\ r \in Processes /\ r \in 0..ranks /\ r # 0 /\ r \in 1..MaxRanks
      /\ e \in Engines /\ adapter[r] \in Adapters /\ worker[r] \in Workers
      /\ engine \in [Processes -> Engines] /\ adapter \in [1..MaxRanks -> Adapters]
      /\ worker \in [1..MaxRanks -> Workers]
  BY InRanks
<1>2. TypeInv' /\ engine' = [engine EXCEPT ![r] = f] /\ adapter' = [adapter EXCEPT ![r] = b]
      /\ worker' = [worker EXCEPT ![r] = x]
  BY <1>1, FirstEffect, Zenon
<1>3. /\ adapter[r].pc = "attach" /\ worker[r].pc = "called" /\ inbox' = inbox /\ notes' = notes
      /\ UNCHANGED <<managerVars, next, buffers>>
  BY DEF First, Attach, linkVars
<1>4. RankOK(e, adapter[r], worker[r], buffers[r], round)
  BY <1>1 DEF RankInv
<1>5. RankOK(f, b, x, buffers[r], round) /\ EndOf(f, b, x) = End(r)
  BY <1>1, <1>3, <1>4, FirstRank, Zenon DEF End
<1>6. /\ f.pc = "first" /\ f.in = "start" /\ f.out = e.out /\ f.sent = e.sent /\ f.cur = e.cur
      /\ b.pc = "fill" /\ x.pc = "waiting"
  BY <1>1 DEF Engines, EngineRecords, Adapters, Workers
<1>7. e.pc = "idle" /\ e.in = "none" /\ e.out = "none"
  BY <1>3, <1>4 DEF RankOK, EngineOK
<1> HIDE DEF f, b, x
<1>8. /\ engine'[r] = f /\ adapter'[r] = b /\ worker'[r] = x
      /\ \A q \in Processes : q # r => engine'[q] = engine[q]
      /\ \A q \in 1..MaxRanks : q # r => adapter'[q] = adapter[q] /\ worker'[q] = worker[q]
  BY <1>1, <1>2
<1>9. phase = "transfer"
  BY <1>1, <1>3 DEF TransferInv, QuietInv
<1>10. Alone(r) /\ round' = round
  BY <1>3, <1>8, <1>9 DEF Alone, managerVars
<1>11. RankInv(r)' /\ End(r)' = End(r)
  BY <1>3, <1>5, <1>8, <1>10 DEF RankInv, End
<1>12. From(r)' = From(r) /\ Arrival(r)' = Arrival(r)
  BY <1>1, <1>6, <1>7, <1>8, <1>11 DEF From, Arrival
<1>13. OutInv(r)'
  BY <1>1, <1>6, <1>7, <1>8 DEF OutInv, OutOK
<1>14. ASSUME NEW q \in Ranks, q = r \/ Source(q) = r PROVE LinkInv(q)'
  <2>1. CASE q = r
    BY <1>3, <1>6, <1>7, <1>8, <1>10, <1>12, <2>1, TurnStep
  <2>2. CASE q # r
    <3>1. engine'[r].out = e.out /\ engine'[r].sent = e.sent
      BY <1>6, <1>8
    <3> QED
      BY <1>1, <1>3, <1>10, <1>12, <1>14, <2>2, <3>1, OutLinkKept
  <2> QED
    BY <2>1, <2>2
<1>15. AbsentInv'
  BY <1>1, <1>3, <1>10, AbsentKept
<1>16. CallInv'
  BY <1>1, <1>3, <1>6, <1>8, <1>10, CallKept
<1> QED
  BY <1>1, <1>2, <1>3, <1>10, <1>11, <1>13, <1>14, <1>15, <1>16, AloneStep

LEMMA ExhaustedStep == ASSUME TransferInv, NEW r \in Ranks, Exhausted(r) PROVE TransferInv'
<1> DEFINE e == engine[r]
           f == [e EXCEPT !.pc = "done", !.out = "none"]
<1>1. /\ TypeInv /\ RankInv(r) /\ r \in Processes /\ r \in 0..ranks /\ r # 0 /\ r \in 1..MaxRanks
      /\ e \in Engines /\ adapter[r] \in Adapters /\ worker[r] \in Workers /\ buffers[r] \in [1..2 -> Contents]
      /\ engine \in [Processes -> Engines]
  BY InRanks
<1>2. TypeInv' /\ engine' = [engine EXCEPT ![r] = f]
  BY <1>1, ExhaustedEffect, Zenon
<1>3. /\ e.pc = "tail" /\ e.pos > Len(e.meta) /\ WaitAnnounced(r) /\ inbox' = inbox
      /\ UNCHANGED <<managerVars, next, buffers, adapter, worker>>
  BY DEF Exhausted, adapterVars
<1>4. RankOK(e, adapter[r], worker[r], buffers[r], round)
  BY <1>1 DEF RankInv
<1>5. RankOK(f, adapter[r], worker[r], buffers[r], round) /\ EndOf(f, adapter[r], worker[r]) = End(r)
  BY <1>1, <1>3, <1>4, ExhaustRank, Zenon DEF End
<1>6. f.in = e.in /\ f.out = "none" /\ f.sent = e.sent
  BY <1>1 DEF Engines, EngineRecords
<1>7. e.in = "none"
  BY <1>3, <1>4 DEF RankOK, EngineOK
<1> HIDE DEF f
<1>8. engine'[r] = f /\ \A q \in Processes : q # r => engine'[q] = engine[q]
  BY <1>1, <1>2
<1>9. phase = "transfer"
  BY <1>1, <1>3 DEF TransferInv, QuietInv
<1>10. Alone(r) /\ round' = round
  BY <1>3, <1>8, <1>9 DEF Alone, managerVars
<1>11. RankInv(r)' /\ End(r)' = End(r)
  BY <1>3, <1>5, <1>8, <1>10 DEF RankInv, End
<1>12. From(r)' = From(r) /\ Arrival(r)' = Arrival(r)
  BY <1>1, <1>6, <1>7, <1>8, <1>11 DEF From, Arrival
<1>13. OutInv(r)'
  BY <1>1, <1>6, <1>8 DEF OutInv, OutOK
<1>14. /\ \A q \in Ranks : Source(q) = r => LinkInv(q)'
       /\ \A q \in Ranks : Source(q) # r => inbox'[q] = inbox[q] /\ notes'[Source(q)] = notes[Source(q)]
       /\ AbsentInv'
  <2>1. engine'[r].out = "none" /\ engine'[r].sent = engine[r].sent
    BY <1>6, <1>8
  <2> QED
    BY <1>1, <1>3, <1>10, <1>12, <2>1, WithdrawStep
<1>15. LinkInv(r)'
  <2>1. Source(r) # r
    BY <1>1, SourceIs
  <2>2. inbox'[r] = inbox[r] /\ notes'[Source(r)] = notes[Source(r)]
    BY <1>14, <2>1
  <2> QED
    BY <1>6, <1>7, <1>8, <1>10, <1>12, <2>2, TurnStep
<1>16. CallInv'
  BY <1>1, <1>3, <1>10, CallKept
<1> QED
  BY <1>1, <1>2, <1>10, <1>11, <1>13, <1>14, <1>15, <1>16, AloneStep

\* Only what is forwarded has a receiver.
LEMMA NoReceiver ==
    ASSUME TypeInv, NEW r \in Ranks, ~Forwards(r)
    PROVE  \A q \in Ranks : Source(q) # r
BY DEF TypeInv, Ranks, Source, Forwards, HasNext

LEMMA SwapStep == ASSUME TransferInv, NEW r \in Ranks, Swap(r) PROVE TransferInv'
<1> DEFINE e == engine[r]
<1>1. /\ TypeInv /\ RankInv(r) /\ OutInv(r) /\ r \in Processes /\ r \in 0..ranks /\ r # 0 /\ r \in 1..MaxRanks
      /\ e \in Engines /\ adapter[r] \in Adapters /\ worker[r] \in Workers /\ buffers[r] \in [1..2 -> Contents]
      /\ engine \in [Processes -> Engines]
  BY InRanks
<1>2. /\ TypeInv' /\ MaySwap(r) /\ WaitAnnounced(r)
      /\ UNCHANGED <<managerVars, next, consuming, buffers, adapterVars>>
  BY <1>1, SwapEffect, Zenon
<1>3. PICK f \in Engines :
        /\ engine' = [engine EXCEPT ![r] = f]
        /\ f.pc = IF e.got.last THEN "tail" ELSE "loop"
        /\ f.in = IF e.got.last THEN "none" ELSE "start"
        /\ f.cur = 1 - e.cur /\ f.meta = e.got.meta /\ f.pos = 1 /\ f.got = e.got
        /\ Forwards(r) => /\ f.out = "moving" /\ f.sent \in Buckets
                          /\ f.sent.meta = e.got.meta /\ f.sent.last = e.got.last
                          /\ f.sent.buffer = f.cur + 1
                          /\ Announce(r, f.sent)
        /\ ~Forwards(r) => f.out = e.out /\ f.sent = e.sent /\ inbox' = inbox
  BY <1>1, SwapEffect, Zenon
<1>4. /\ e.in = "done"
      /\ e.pc = "first" \/ (e.pc = "loop" /\ e.pos > Len(e.meta) /\ adapter[r].copies = <<>>)
  BY <1>2 DEF MaySwap, Synchronized
<1>5. RankOK(e, adapter[r], worker[r], buffers[r], round)
  BY <1>1 DEF RankInv
<1>6. /\ RankOK(f, adapter[r], worker[r], buffers[r], round)
      /\ EndOf(f, adapter[r], worker[r]) = End(r) + Len(e.got.meta)
  BY <1>1, <1>3, <1>4, <1>5, SwapRank, Zenon DEF End
<1>7. /\ engine'[r] = f /\ \A q \in Processes : q # r => engine'[q] = engine[q]
      /\ buffers' = buffers /\ adapter' = adapter /\ worker' = worker
  BY <1>1, <1>2, <1>3 DEF adapterVars
<1>8. phase = "transfer"
  BY <1>1, <1>4 DEF TransferInv, QuietInv
<1>9. Alone(r) /\ round' = round
  BY <1>2, <1>7, <1>8 DEF Alone, managerVars
<1>10. RankInv(r)' /\ End(r)' = End(r) + Len(e.got.meta)
  BY <1>6, <1>7, <1>9 DEF RankInv, End
<1>11. From(r) = End(r) /\ From(r)' = From(r) + Len(e.got.meta)
  BY <1>1, <1>10 DEF From
<1>12. Arrival(r)' = Arrival(r)
  <2>1. engine'[r].in \notin {"moving", "done"}
    BY <1>3, <1>7
  <2> QED
    BY <1>4, <1>10, <2>1 DEF Arrival
<1>13. OutInv(r)'
  <2>1. f.pc \in {"tail", "loop"}
    BY <1>3
  <2>2. Intact(buffers[r][f.cur + 1], f.meta, round)
    BY <1>6, <2>1 DEF RankOK, EngineOK
  <2>3. CASE Forwards(r)
    <3>1. OutOK(f, buffers[r], round) /\ Forwards(r)'
      BY <1>1, <1>3, <1>9, <2>1, <2>2, <2>3, AloneKeeps DEF OutOK
    <3> QED
      BY <1>7, <1>9, <3>1 DEF OutInv
  <2>4. CASE ~Forwards(r)
    <3>1. f.out = "none"
      BY <1>1, <1>3, <2>4 DEF OutInv
    <3> QED
      BY <1>7, <3>1 DEF OutInv, OutOK
  <2> QED
    BY <2>3, <2>4
<1>14. /\ \A q \in Ranks : Source(q) = r => LinkInv(q)'
       /\ \A q \in Ranks : Source(q) # r => inbox'[q] = inbox[q] /\ notes'[Source(q)] = notes[Source(q)]
       /\ AbsentInv'
  <2>1. CASE Forwards(r)
    <3>1. /\ Covers(e.got.meta, End(r))
          /\ e.got.last => End(r) + Len(e.got.meta) = NumParams + 1
      BY <1>4, <1>5 DEF RankOK, EngineOK, End
    <3>2. End(r) \in Nat
      <4>1. e.meta \in Seq(Tensors) /\ e.pos \in Nat \ {0} /\ Taken(adapter[r], worker[r]) \in Nat
        BY <1>1, RankFields
      <4>2. e.pos <= Len(e.meta) + 1
        BY <1>5 DEF RankOK, EngineOK
      <4>3. \A a, l, p \in Nat : p <= l + 1 => a + 2 + l - p \in Nat
        OBVIOUS
      <4>4. Len(e.meta) \in Nat
        BY <4>1
      <4> QED
        BY <4>1, <4>2, <4>3, <4>4 DEF End, EndOf
    <3>3. /\ f.out = IF backend = "nixl" THEN "moving" ELSE "start"
          /\ f.sent \in Buckets /\ Announce(r, f.sent) /\ f.sent.meta = e.got.meta
      BY <1>3, <2>1 DEF Forwards
    <3>4. From(r) \in Nat /\ Covers(f.sent.meta, From(r)) /\ From(r)' = From(r) + Len(f.sent.meta)
      BY <1>11, <3>1, <3>2, <3>3
    <3>5. f.sent.last => From(r)' = NumParams + 1
      BY <1>3, <1>11, <2>1, <3>1
    <3> QED
      BY <1>1, <1>2, <1>7, <1>9, <2>1, <3>3, <3>4, <3>5, AnnounceStep
  <2>2. CASE ~Forwards(r)
    <3>1. e.out = "none"
      BY <1>1, <2>2 DEF OutInv
    <3>2. notes' = notes /\ inbox' = inbox
      BY <1>2, <1>3, <2>2, <3>1 DEF WaitAnnounced, Announces
    <3>3. AbsentInv'
      BY <1>1, <1>9, <3>2, AbsentKept
    <3> QED
      BY <1>1, <2>2, <3>2, <3>3, NoReceiver
  <2> QED
    BY <2>1, <2>2
<1>15. LinkInv(r)'
  <2>1. Source(r) # r
    BY <1>1, SourceIs
  <2>2. inbox'[r] = inbox[r] /\ notes'[Source(r)] = notes[Source(r)]
    BY <1>14, <2>1
  <2>3. engine[r].in # "moving" /\ engine'[r].in # "moving"
    BY <1>3, <1>4, <1>7
  <2> QED
    BY <1>9, <1>12, <2>2, <2>3, TurnStep
<1>16. CallInv'
  BY <1>1, <1>7, <1>9, CallKept
<1> QED
  BY <1>1, <1>2, <1>9, <1>10, <1>13, <1>14, <1>15, <1>16, AloneStep

LEMMA RequestStep ==
    ASSUME TransferInv, NEW r \in Ranks, NEW last \in BOOLEAN, Request(r, last), RankFrame,
           last => engine[r].pc = "done"
    PROVE  TransferInv'
<1> DEFINE a == adapter[r]
<1>1. PICK goes \in {"reply", "lastReply"} : goes = IF last THEN "lastReply" ELSE "reply"
  OBVIOUS
<1> DEFINE b == [a EXCEPT !.pc = goes]
<1>2. /\ TypeInv /\ RankInv(r) /\ r \in 0..ranks /\ r # 0 /\ r \in 1..MaxRanks
      /\ engine[r] \in Engines /\ a \in Adapters /\ worker[r] \in Workers
      /\ worker \in [1..MaxRanks -> Workers]
  BY InRanks
<1>3. TypeInv' /\ a.pc = "fill" /\ a.copies = <<>> /\ adapter' = [adapter EXCEPT ![r] = b] /\ worker' = worker
  BY <1>1, <1>2, RequestEffect
<1>4. RankOK(engine[r], a, worker[r], buffers[r], round)
  BY <1>2 DEF RankInv
<1>5. goes = "lastReply" => engine[r].pc = "done"
  BY <1>1
<1>6. /\ RankOK(engine[r], b, worker[r], buffers[r], round)
      /\ EndOf(engine[r], b, worker[r]) = EndOf(engine[r], a, worker[r])
  BY <1>2, <1>3, <1>4, <1>5, RequestRank, Zenon
<1>7. b.pc \notin {"idle", "done"}
  BY <1>1, <1>2 DEF Adapters
<1>8. adapter'[r] = b
  <2> HIDE DEF b
  <2> QED
    BY <1>2, <1>3 DEF TypeInv
<1> HIDE DEF b
<1>9. Alone(r) => CallInv'
  BY <1>2, <1>3, <1>7, <1>8, CallKept
<1>10. worker' = [worker EXCEPT ![r] = worker[r]]
  BY <1>2, <1>3
<1> QED
  BY <1>3, <1>6, <1>9, <1>10, AdapterAlone

LEMMA CopyRunsStep ==
    ASSUME TransferInv, NEW r \in Ranks, CopyRuns(r), RankFrame PROVE TransferInv'
<1> DEFINE a == adapter[r]
           c == Head(a.copies)
           b == [a EXCEPT !.copies = Tail(@), !.shared = Copied(a.shared, c.to, buffers[r][c.buffer], c.from)]
<1>1. /\ TypeInv /\ RankInv(r) /\ r \in 0..ranks /\ r # 0 /\ r \in 1..MaxRanks
      /\ engine[r] \in Engines /\ a \in Adapters /\ worker[r] \in Workers /\ buffers[r] \in [1..2 -> Contents]
      /\ worker \in [1..MaxRanks -> Workers] /\ adapter \in [1..MaxRanks -> Adapters]
  BY InRanks
<1>2. TypeInv' /\ a.copies # <<>> /\ adapter' = [adapter EXCEPT ![r] = b] /\ worker' = worker
  BY <1>1, CopyRunsEffect, Zenon
<1>3. RankOK(engine[r], a, worker[r], buffers[r], round)
  BY <1>1 DEF RankInv
<1>4. /\ RankOK(engine[r], b, worker[r], buffers[r], round)
      /\ EndOf(engine[r], b, worker[r]) = EndOf(engine[r], a, worker[r])
  BY <1>1, <1>2, <1>3, CopyRank, Zenon
<1>5. b.pc = a.pc
  BY <1>1 DEF Adapters
<1>6. a.pc = "fill"
  BY <1>2, <1>3 DEF RankOK, AdapterOK
<1> HIDE DEF b
<1>7. adapter'[r] = b
  BY <1>1, <1>2
<1>8. Alone(r) => CallInv'
  BY <1>1, <1>2, <1>5, <1>7, CallKept
<1>9. worker' = [worker EXCEPT ![r] = worker[r]]
  BY <1>1, <1>2
<1> QED
  BY <1>2, <1>4, <1>6, <1>8, <1>9, AdapterAlone

LEMMA CloneStep ==
    ASSUME TransferInv, NEW r \in Ranks, CloneAndReply(r), RankFrame PROVE TransferInv'
<1> DEFINE a == adapter[r]
           w == worker[r]
<1> DEFINE b == HandedOver(a)
           x == WithClones(w, a)
<1>1. /\ TypeInv /\ RankInv(r) /\ r \in 0..ranks /\ r # 0 /\ r \in 1..MaxRanks
      /\ engine[r] \in Engines /\ a \in Adapters /\ w \in Workers /\ buffers[r] \in [1..2 -> Contents]
      /\ worker \in [1..MaxRanks -> Workers] /\ adapter \in [1..MaxRanks -> Adapters]
  BY InRanks
<1>2. TypeInv' /\ w.pc = "waiting" /\ a.pc \in {"reply", "lastReply"}
  BY <1>1, CloneEffect, Zenon
<1>3. /\ adapter' = [adapter EXCEPT ![r] = b] /\ worker' = [worker EXCEPT ![r] = x]
  <2>1. /\ adapter' = [adapter EXCEPT ![r] = [a EXCEPT !.pc = IF a.pc = "lastReply" THEN "future" ELSE "fill",
                                                       !.meta = <<>>]]
        /\ worker' = [worker EXCEPT ![r] = [w EXCEPT !.pc = "load", !.last = (a.pc = "lastReply"),
                                                     !.clones = ClonesOf(a)]]
    BY <1>1, CloneEffect, Zenon
  <2> QED
    BY <2>1, Zenon DEF HandedOver, WithClones
<1>4. RankOK(engine[r], a, w, buffers[r], round)
  BY <1>1 DEF RankInv
<1>5. RankOK(engine[r], b, x, buffers[r], round) /\ EndOf(engine[r], b, x) = EndOf(engine[r], a, w)
  BY <1>1, <1>2, <1>4, CloneRank, Zenon
<1>6. b.pc \in {"future", "fill"}
  BY <1>1 DEF Adapters, HandedOver
<1> HIDE DEF b, x
<1>7. adapter'[r] = b
  BY <1>1, <1>3
<1>8. Alone(r) => CallInv'
  BY <1>1, <1>2, <1>6, <1>7, CallKept
<1> QED
  BY <1>2, <1>3, <1>5, <1>8, AdapterAlone

LEMMA LoadStep ==
    ASSUME TransferInv, NEW r \in Ranks, LoadWeights(r), RankFrame PROVE TransferInv'
<1> DEFINE w == worker[r]
           x == WithLoaded(w)
<1>1. /\ TypeInv /\ RankInv(r) /\ r \in 0..ranks /\ r # 0 /\ r \in 1..MaxRanks
      /\ engine[r] \in Engines /\ adapter[r] \in Adapters /\ w \in Workers
      /\ worker \in [1..MaxRanks -> Workers] /\ adapter \in [1..MaxRanks -> Adapters]
  BY InRanks
<1>2. TypeInv' /\ w.pc = "load" /\ adapter' = adapter
  BY <1>1, LoadEffect, Zenon
<1>3. worker' = [worker EXCEPT ![r] = x]
  BY <1>1, LoadEffect, Zenon DEF WithLoaded
<1>4. RankOK(engine[r], adapter[r], w, buffers[r], round)
  BY <1>1 DEF RankInv
<1>5. /\ RankOK(engine[r], adapter[r], x, buffers[r], round)
      /\ EndOf(engine[r], adapter[r], x) = EndOf(engine[r], adapter[r], w)
  BY <1>1, <1>2, <1>4, LoadRank, Zenon
<1> HIDE DEF x
<1>6. Alone(r) => CallInv'
  BY <1>1, <1>2, CallKept
<1>7. adapter' = [adapter EXCEPT ![r] = adapter[r]]
  BY <1>1, <1>2
<1> QED
  BY <1>2, <1>3, <1>5, <1>6, <1>7, AdapterAlone

\* The first rank of a replica has waited for all its workers.
LEMMA AdapterDoneStep ==
    ASSUME TransferInv, NEW r \in Ranks, AdapterDone(r), RankFrame PROVE TransferInv'
<1> DEFINE b == [adapter[r] EXCEPT !.pc = "done"]
<1>1. /\ TypeInv /\ RankInv(r) /\ r \in 0..ranks /\ r # 0 /\ r \in 1..MaxRanks
      /\ engine[r] \in Engines /\ adapter[r] \in Adapters /\ worker[r] \in Workers
      /\ worker \in [1..MaxRanks -> Workers] /\ adapter \in [1..MaxRanks -> Adapters]
  BY InRanks
<1>2. /\ TypeInv' /\ adapter[r].pc = "future" /\ FutureDone(r)
      /\ adapter' = [adapter EXCEPT ![r] = b] /\ worker' = worker
  BY <1>1, AdapterDoneEffect
<1>3. RankOK(engine[r], adapter[r], worker[r], buffers[r], round)
  BY <1>1 DEF RankInv
<1>4. /\ RankOK(engine[r], b, worker[r], buffers[r], round)
      /\ EndOf(engine[r], b, worker[r]) = EndOf(engine[r], adapter[r], worker[r])
  BY <1>1, <1>2, <1>3, DoneRank, Zenon
<1>5. b.pc = "done"
  BY <1>1 DEF Adapters
<1> HIDE DEF b
<1>6. adapter'[r] = b /\ \A q \in 1..MaxRanks : q # r => adapter'[q] = adapter[q]
  BY <1>1, <1>2
<1>7. CallInv'
  <2>1. CallInv /\ Ranks \subseteq 1..MaxRanks
    BY <1>1, RanksAre DEF TransferInv
  <2>2. Ranks' = Ranks /\ \A l : Leader(l)' = Leader(l) /\ Replica(l)' = Replica(l)
    BY DEF RankFrame, managerVars, Ranks, Leader, Replica
  <2> SUFFICES ASSUME NEW l \in Ranks, Leader(l)
               PROVE  /\ adapter'[l].pc = "idle" => \A q \in Replica(l) : worker[q].pc = "off"
                      /\ adapter'[l].pc = "done" => \A q \in Replica(l) : worker[q].pc = "loaded"
    BY <1>2, <2>2 DEF CallInv
  <2>3. CASE l = r
    BY <1>2, <1>5, <1>6, <2>3 DEF FutureDone
  <2>4. CASE l # r
    BY <1>6, <2>1, <2>4 DEF CallInv
  <2> QED
    BY <2>3, <2>4
<1>8. worker' = [worker EXCEPT ![r] = worker[r]]
  BY <1>1, <1>2
<1> QED
  BY <1>2, <1>4, <1>7, <1>8, AdapterAlone

LEMMA AdapterStepStep == ASSUME TransferInv, NEW r \in Ranks, AdapterStep(r) PROVE TransferInv'
<1>1. RankFrame
  BY DEF AdapterStep, RankFrame
<1>2. \/ Request(r, FALSE) \/ (engine[r].pc = "done" /\ Request(r, TRUE))
      \/ CopyRuns(r) \/ CloneAndReply(r) \/ LoadWeights(r) \/ AdapterDone(r)
  BY DEF AdapterStep, SendBucket
<1> QED
  BY <1>1, <1>2, RequestStep, CopyRunsStep, CloneStep, LoadStep, AdapterDoneStep

\* The adapter of a rank begins, and the first rank of a replica calls the workers of all.
LEMMA BeginStep == ASSUME TransferInv, NEW r \in Ranks, Begin(r) PROVE TransferInv'
<1> DEFINE b == [adapter[r] EXCEPT !.pc = "attach"]
           Called(q) == Leader(r) /\ q \in Replica(r)
<1>1. /\ TypeInv /\ SenderInv /\ AbsentInv /\ CallInv /\ r \in 1..MaxRanks
      /\ Ranks \subseteq Processes /\ Ranks \subseteq 1..MaxRanks
      /\ adapter \in [1..MaxRanks -> Adapters]
  BY InRanks, RanksAre DEF TransferInv
<1>2. /\ TypeInv' /\ adapter' = [adapter EXCEPT ![r] = b]
      /\ \A q \in 1..MaxRanks : worker'[q] = IF Called(q) THEN [worker[q] EXCEPT !.pc = "called"] ELSE worker[q]
  BY <1>1, BeginEffect, Zenon
<1>3. /\ phase = "transfer" /\ adapter[r].pc = "idle" /\ inbox' = inbox /\ notes' = notes
      /\ UNCHANGED <<managerVars, next, engine, buffers>>
  BY DEF Begin, AdapterBegin, linkVars
<1>4. /\ Ranks' = Ranks /\ round' = round /\ phase' = phase /\ backend' = backend /\ ranks' = ranks
      /\ \A q : Leader(q)' = Leader(q) /\ Replica(q)' = Replica(q)
      /\ \A q : Source(q)' = Source(q) /\ (Forwards(q)' <=> Forwards(q))
  BY <1>3 DEF managerVars, Ranks, Leader, Replica, Source, Forwards, HasNext
<1>5. b.pc = "attach" /\ adapter'[r] = b /\ \A q \in 1..MaxRanks : q # r => adapter'[q] = adapter[q]
  BY <1>1, <1>2 DEF Adapters
<1>6. ASSUME NEW q \in Ranks, Called(q) PROVE worker[q].pc = "off"
  BY <1>1, <1>3, <1>6 DEF CallInv
<1>7. ASSUME NEW q \in Ranks PROVE RankInv(q)' /\ End(q)' = End(q)
  <2>1. /\ engine[q] \in Engines /\ adapter[q] \in Adapters /\ worker[q] \in Workers
        /\ RankOK(engine[q], adapter[q], worker[q], buffers[q], round)
    BY <1>1, RankTypes DEF TransferInv, RankInv
  <2>2. PICK w : w = worker'[q]
    OBVIOUS
  <2>3. w \in Workers
    BY <1>1, <1>2, <1>4, <2>2 DEF TypeInv
  <2>4. /\ RankOK(engine[q], adapter[q], w, buffers[q], round)
        /\ EndOf(engine[q], adapter[q], w) = End(q)
    <3>1. CASE Called(q)
      <4>1. w = [worker[q] EXCEPT !.pc = "called"] /\ worker[q].pc = "off"
        BY <1>1, <1>2, <1>6, <2>2, <3>1
      <4> QED
        BY <2>1, <4>1, CallRank, Zenon DEF End
    <3>2. CASE ~Called(q)
      BY <1>1, <1>2, <2>1, <2>2, <3>2 DEF End
    <3> QED
      BY <3>1, <3>2
  <2>5. PICK a : a = adapter'[q]
    OBVIOUS
  <2>6. RankOK(engine[q], a, w, buffers[q], round) /\ EndOf(engine[q], a, w) = End(q)
    <3>1. CASE q = r
      <4>1. a = [adapter[q] EXCEPT !.pc = "attach"] /\ adapter[q].pc = "idle"
        BY <1>3, <1>5, <2>5, <3>1
      <4> QED
        BY <2>1, <2>3, <2>4, <4>1, BeginRank, Zenon
    <3>2. CASE q # r
      BY <1>1, <1>5, <2>4, <2>5, <3>2
    <3> QED
      BY <3>1, <3>2
  <2> QED
    BY <1>3, <1>4, <2>2, <2>5, <2>6 DEF RankInv, End
<1>8. \A p \in 0..ranks : From(p)' = From(p)
  BY <1>1, <1>3, <1>7 DEF From, TypeInv, Ranks
<1>9. ASSUME NEW q \in Ranks PROVE LinkInv(q)'
  <2>1. LinkInv(q)
    BY DEF TransferInv
  <2>2. Arrival(q)' = Arrival(q)
    BY <1>3, <1>7 DEF Arrival
  <2>3. PICK s : s = Source(q)
    OBVIOUS
  <2>4. From(s)' = From(s) /\ Source(q)' = s
    BY <1>1, <1>4, <1>8, <2>3, SourceIs
  <2> QED
    BY <1>3, <2>1, <2>2, <2>3, <2>4 DEF LinkInv
<1>10. SenderInv'
  BY <1>1, <1>3, <1>4 DEF SenderInv
<1>11. \A p \in Processes : OutInv(p)'
  BY <1>3, <1>4 DEF OutInv, TransferInv
<1>12. AbsentInv'
  BY <1>1, <1>3, <1>4 DEF AbsentInv, Processes
<1>13. QuietInv'
  BY <1>3, <1>4 DEF QuietInv
<1>14. CallInv'
  <2> SUFFICES ASSUME NEW l \in Ranks, Leader(l)
               PROVE  /\ adapter'[l].pc = "idle" => \A q \in Replica(l) : worker'[q].pc = "off"
                      /\ adapter'[l].pc = "done" => \A q \in Replica(l) : worker'[q].pc = "loaded"
    BY <1>4 DEF CallInv
  <2>1. CASE l = r
    BY <1>5, <2>1
  <2>2. CASE l # r
    <3>1. \A q \in Replica(l) : q \in 1..MaxRanks /\ worker'[q] = worker[q]
      <4> SUFFICES ASSUME NEW q \in Replica(l) PROVE q \in 1..MaxRanks /\ worker'[q] = worker[q]
        OBVIOUS
      <4>1. q \in 1..MaxRanks
        BY <1>1 DEF Replica
      <4>2. ~Called(q)
        BY <1>1, <2>2, OneLeader
      <4> QED
        BY <1>2, <4>1, <4>2
    <3>2. adapter'[l] = adapter[l]
      BY <1>1, <1>5, <2>2
    <3> QED
      BY <1>1, <3>1, <3>2 DEF CallInv
  <2> QED
    BY <2>1, <2>2
<1> QED
  BY <1>2, <1>4, <1>7, <1>9, <1>10, <1>11, <1>12, <1>13, <1>14 DEF TransferInv, Processes

\* The step of a rank, whichever it is.
LEMMA RankNextStep == ASSUME TransferInv, NEW r \in Ranks, RankNext(r), ~Connected(r) PROVE TransferInv'
BY BeginStep, FirstStep, SwapStep, YieldStep, ExhaustedStep, AdapterStepStep, ReceiveStep, ReadDoneStep DEF RankNext

-----------------------------------------------------------------------------
(* The manager's steps preserve the invariant *)

\* Nothing that the invariant is about changes, but for the phase.
LEMMA Unmoved ==
    ASSUME TransferInv, TypeInv', QuietInv',
           UNCHANGED <<ranks, replicaSize, backend, round, next, engine, buffers, inbox, notes, adapterVars>>
    PROVE  TransferInv'
<1>1. /\ Ranks' = Ranks /\ \A q : Leader(q)' = Leader(q) /\ Replica(q)' = Replica(q)
      /\ \A q : Source(q)' = Source(q) /\ (Forwards(q)' <=> Forwards(q))
      /\ \A q : End(q)' = End(q)
  BY DEF Ranks, Leader, Replica, Source, Forwards, HasNext, End, adapterVars
<1>2. \A q : RankInv(q)' = RankInv(q) /\ Arrival(q)' = Arrival(q) /\ From(q)' = From(q)
  BY <1>1 DEF RankInv, Arrival, From, adapterVars
<1>3. \A q : LinkInv(q)' = LinkInv(q)
  <2> SUFFICES ASSUME NEW q PROVE LinkInv(q)' = LinkInv(q)
    OBVIOUS
  <2>1. PICK s : s = Source(q)
    OBVIOUS
  <2>2. From(s)' = From(s) /\ Source(q)' = s /\ Arrival(q)' = Arrival(q)
    BY <1>1, <1>2, <2>1
  <2> QED
    BY <2>1, <2>2 DEF LinkInv
<1>4. SenderInv' /\ \A p \in Processes : OutInv(p)'
  BY <1>1 DEF TransferInv, SenderInv, OutInv
<1>5. AbsentInv'
  BY <1>1 DEF TransferInv, AbsentInv, Processes
<1>6. CallInv'
  BY <1>1 DEF TransferInv, CallInv, adapterVars
<1> QED
  BY <1>1, <1>2, <1>3, <1>4, <1>5, <1>6 DEF TransferInv, Processes

LEMMA ConnectedStep == ASSUME TransferInv, NEW r \in Ranks, Connected(r) PROVE TransferInv'
<1>1. TypeInv'
  BY ConnectedType DEF TransferInv
<1>2. UNCHANGED <<managerVars, next, engine, buffers, inbox, notes, adapterVars>>
  BY DEF Connected
<1>3. QuietInv'
  BY <1>2 DEF TransferInv, QuietInv, managerVars, adapterVars, Ranks
<1> QED
  BY <1>1, <1>2, <1>3, Unmoved DEF managerVars

LEMMA ConsumeStep == ASSUME TransferInv, NEW t, Consume(t) PROVE TransferInv'
<1>1. TypeInv'
  BY ConsumeType DEF TransferInv
<1>2. UNCHANGED <<managerVars, next, engine, buffers, inbox, notes, adapterVars>>
  BY DEF Consume, linkVars
<1>3. QuietInv'
  BY <1>2 DEF TransferInv, QuietInv, managerVars, adapterVars, Ranks
<1> QED
  BY <1>1, <1>2, <1>3, Unmoved DEF managerVars

\* Between two updates no message is left.
LEMMA QuietLinks ==
    ASSUME TransferInv, phase # "transfer"
    PROVE  \A p \in Processes : inbox[p] = <<>> /\ notes[p] = <<>>
<1>1. TypeInv /\ SenderInv /\ AbsentInv /\ QuietInv
  BY DEF TransferInv
<1>2. \A p \in 0..ranks : engine[p].out = "none"
  <2> SUFFICES ASSUME NEW p \in 0..ranks PROVE engine[p].out = "none"
    OBVIOUS
  <2>1. engine[p].pc \in {"idle", "done"}
    BY <1>1 DEF QuietInv
  <2>2. CASE p = 0
    BY <1>1, <2>1, <2>2 DEF SenderInv, SenderOK
  <2>3. CASE p # 0
    <3>1. p \in Ranks
      BY <1>1, <2>3 DEF TypeInv, Ranks
    <3> QED
      BY <2>1, <3>1 DEF TransferInv, RankInv, RankOK, EngineOK
  <2> QED
    BY <2>2, <2>3
<1>3. ASSUME NEW r \in Ranks PROVE inbox[r] = <<>> /\ notes[Source(r)] = <<>>
  <2>1. engine[Source(r)].out = "none" /\ LinkInv(r)
    BY <1>1, <1>2, SourceIs DEF TransferInv
  <2> QED
    BY <2>1 DEF LinkInv, LinkOK
<1> SUFFICES ASSUME NEW p \in Processes PROVE inbox[p] = <<>> /\ notes[p] = <<>>
  OBVIOUS
<1>4. inbox[p] = <<>>
  BY <1>1, <1>3 DEF AbsentInv
<1>5. notes[p] = <<>>
  <2>1. CASE p >= ranks \/ backend = "nccl"
    BY <1>1, <2>1 DEF AbsentInv
  <2>2. CASE ~(p >= ranks \/ backend = "nccl")
    <3>1. p \in Nat
      BY <1>1, RanksAre
    <3>2. p + 1 \in Ranks /\ Source(p + 1) = p
      BY <1>1, <2>2, <3>1 DEF TypeInv, Ranks, Source
    <3> QED
      BY <1>3, <3>2
  <2> QED
    BY <2>1, <2>2
<1> QED
  BY <1>4, <1>5

LEMMA BuildGroupStep == ASSUME TransferInv, BuildGroup PROVE TransferInv'
<1>1. TypeInv /\ TypeInv'
  BY BuildGroupType DEF TransferInv
<1>2. /\ phase = "prepared" /\ phase' = "transfer"
      /\ UNCHANGED <<ranks, replicaSize, backend, round, next, engine, buffers, notes, adapterVars>>
  BY DEF BuildGroup
<1>3. inbox' = inbox
  <2>1. inbox = [p \in Processes |-> <<>>]
    BY <1>1, <1>2, QuietLinks DEF TypeInv
  <2> QED
    BY <2>1 DEF BuildGroup
<1>4. QuietInv'
  BY <1>2 DEF QuietInv
<1> QED
  BY <1>1, <1>2, <1>3, <1>4, Unmoved

LEMMA FinalizeStep == ASSUME TransferInv, Finalize PROVE TransferInv'
<1>1. TypeInv /\ TypeInv' /\ CallInv
  BY FinalizeType DEF TransferInv
<1>2. /\ UNCHANGED <<ranks, replicaSize, backend, round, next, engine, buffers, inbox, notes, adapterVars>>
      /\ engine[0].pc = "done" /\ \A r \in Ranks : adapter[r].pc = "done"
  BY DEF Finalize, linkVars
<1>3. ASSUME NEW r \in Ranks PROVE engine[r].pc = "done" /\ worker[r].pc = "loaded"
  <2>1. engine[r].pc = "done"
    BY <1>2 DEF TransferInv, RankInv, RankOK, EngineOK
  <2>2. PICK l \in Ranks : Leader(l) /\ r \in Replica(l)
    BY <1>1, HasLeader
  <2> QED
    BY <1>1, <1>2, <2>1, <2>2 DEF CallInv
<1>4. \A p \in 0..ranks : engine[p].pc = "done"
  BY <1>1, <1>2, <1>3 DEF TypeInv, Ranks
<1>5. QuietInv'
  <2>1. Ranks' = Ranks
    BY <1>2 DEF Ranks
  <2> QED
    BY <1>2, <1>3, <1>4, <2>1 DEF QuietInv, adapterVars
<1> QED
  BY <1>1, <1>2, <1>5, Unmoved

LEMMA PrepareStep == ASSUME TransferInv, Prepare PROVE TransferInv'
<1>1. TypeInv /\ TypeInv' /\ \A p \in Processes : inbox[p] = <<>> /\ notes[p] = <<>>
  BY PrepareType, QuietLinks DEF TransferInv, Prepare
<1>2. /\ \A p \in Processes : engine'[p] = NewEngine /\ buffers'[p] = <<Zeroed, Zeroed>>
      /\ \A r \in 1..MaxRanks : adapter'[r] = NewAdapter /\ worker'[r] = NewWorker
      /\ next' = 1 /\ UNCHANGED <<ranks, replicaSize, backend, inbox, notes>>
  BY DEF Prepare, linkVars
<1>3. /\ Ranks' = Ranks /\ \A q : Replica(q)' = Replica(q)
      /\ \A q : Source(q)' = Source(q) /\ (Forwards(q)' <=> Forwards(q))
  BY <1>2 DEF Ranks, Replica, Source, Forwards, HasNext
<1>4. 0 \in Processes /\ 0..ranks \subseteq Processes /\ Ranks \subseteq 1..MaxRanks /\ Ranks \subseteq Processes
  BY <1>1, RanksAre DEF TypeInv, Processes, Ranks
<1>5. SenderInv'
  BY <1>2, <1>4, NewSender DEF SenderInv
<1>6. \A p \in Processes : OutInv(p)'
  <2>1. NewEngine.out = "none"
    BY DEF NewEngine
  <2> QED
    BY <1>2, <2>1, NewSender, Zenon DEF OutInv
<1>7. ASSUME NEW r \in Ranks PROVE RankInv(r)' /\ End(r)' = 1
  <2>1. buffers'[r] \in [1..2 -> Contents]
    BY <1>1, <1>4 DEF TypeInv, Processes
  <2> QED
    BY <1>2, <1>4, <2>1, NewRank DEF RankInv, End
<1>8. ASSUME NEW r \in Ranks PROVE LinkInv(r)'
  <2>1. PICK s : s = Source(r)
    OBVIOUS
  <2>2. s \in Processes /\ s \in 0..ranks /\ Source(r)' = s
    BY <1>1, <1>3, <2>1, SourceIs
  <2>3. From(s)' = 1
    <3>1. CASE s = 0
      BY <1>2, <1>4, <3>1, NewSender DEF From
    <3>2. CASE s # 0
      <4>1. s \in Ranks
        BY <1>1, <2>2, <3>2 DEF Ranks, TypeInv
      <4> QED
        BY <1>7, <3>2, <4>1 DEF From
    <3> QED
      BY <3>1, <3>2
  <2>4. Arrival(r)' = 1 /\ engine'[r].in = "none" /\ engine'[s].out = "none"
    BY <1>2, <1>4, <1>7, <2>2 DEF Arrival, NewEngine
  <2>5. notes'[s] = <<>> /\ inbox'[r] = <<>>
    BY <1>1, <1>2, <1>4, <2>2
  <2> QED
    BY <2>2, <2>3, <2>4, <2>5, NewLink DEF LinkInv
<1>9. AbsentInv'
  BY <1>1, <1>2 DEF AbsentInv, Processes
<1>10. CallInv'
  BY <1>2, <1>3, <1>4 DEF CallInv, NewAdapter, NewWorker, Replica
<1>11. QuietInv'
  BY <1>2, <1>3, <1>4 DEF QuietInv, NewEngine, NewAdapter, NewWorker
<1> QED
  BY <1>1, <1>3, <1>5, <1>6, <1>7, <1>8, <1>9, <1>10, <1>11 DEF TransferInv, Processes

-----------------------------------------------------------------------------
(* The theorems *)

LEMMA InvNext == TransferInv /\ [TransferNext]_vars => TransferInv'
<1> SUFFICES ASSUME TransferInv, [TransferNext]_vars PROVE TransferInv'
  OBVIOUS
<1>1. CASE ManagerNext
  BY <1>1, PrepareStep, BuildGroupStep, FinalizeStep DEF ManagerNext
<1>2. CASE SenderNext
  BY <1>2, SendBeginStep, FillStep, FlushStep, SendLastStep, SendDoneStep, PublishStep, ConsumeStep DEF SenderNext
<1>3. CASE Broadcast
  BY <1>3, BroadcastStep
<1>4. ASSUME NEW r \in Ranks, RankNext(r) PROVE TransferInv'
  BY <1>4, RankNextStep, ConnectedStep
<1>5. CASE UNCHANGED vars
  <2>1. UNCHANGED <<managerVars, next, engine, buffers, linkVars, adapterVars>>
    BY <1>5 DEF vars
  <2>2. TypeInv' /\ QuietInv'
    BY <2>1 DEF TransferInv, TypeInv, QuietInv, managerVars, linkVars, adapterVars, Ranks
  <2> QED
    BY <2>1, <2>2, Unmoved DEF managerVars, linkVars
<1> QED
  BY <1>1, <1>2, <1>3, <1>4, <1>5 DEF TransferNext

\* The inductive invariant of the transfer holds in every state.
THEOREM TransferAlways == TransferSpec => []TransferInv
<1>1. TransferInit => TransferInv
  BY InvInit
<1>2. TransferInv /\ [TransferNext]_vars => TransferInv'
  BY InvNext
<1> QED
  BY <1>1, <1>2, PTL DEF TransferSpec

\* TransferTypeOK holds in every state: between two engines there is at most one unread announcement
\* and at most one unread notification, and none for a process that takes no part in the update.
THEOREM TransferTypesCorrect == TransferSpec => []TransferTypeOK
<1>1. TransferInv => TransferTypeOK
  <2> SUFFICES ASSUME TransferInv PROVE TransferTypeOK
    OBVIOUS
  <2>1. TypeInv /\ AbsentInv
    BY DEF TransferInv
  <2>2. Messages \subseteq Message
    <3>1. Tensors \subseteq [param : 1..NumParams, offset : Cells]
      BY DEF Tensors, Params
    <3>2. Seq(Tensors) \subseteq Seq([param : 1..NumParams, offset : Cells])
      BY <3>1, SeqMonotonic, Zenon
    <3> QED
      BY <3>2 DEF Messages, Message
  <2>3. ASSUME NEW p \in Processes
        PROVE  /\ engine[p].pc \in {"idle", "send", "closing", "first", "loop", "tail", "done"}
               /\ engine[p].cur \in {0, 1} /\ engine[p].got \in Message /\ engine[p].sent \in Message
    <3>1. engine[p] \in EngineRecords
      BY <2>1 DEF TypeInv, Engines
    <3> QED
      BY <2>2, <3>1 DEF EngineRecords
  <2>4. ASSUME NEW p \in Processes
        PROVE  buffers[p] \in Seq([Cells -> (0..Rounds) \X (0..NumParams)])
    <3>1. buffers[p] \in [1..2 -> Contents]
      BY <2>1 DEF TypeInv
    <3>2. \A S : [1..2 -> S] \subseteq Seq(S)
      <4>1. 2 \in Nat
        OBVIOUS
      <4> QED
        BY <4>1, SeqDef
    <3> QED
      BY <3>1, <3>2 DEF Contents, Pairs
  <2>5. ASSUME NEW r \in Ranks PROVE Len(inbox[r]) <= 1 /\ Len(notes[Source(r)]) <= 1
    <3>1. LinkInv(r)
      BY DEF TransferInv
    <3>2. inbox[r] = <<>> \/ inbox[r] = <<engine[Source(r)].sent>>
      BY <3>1 DEF LinkInv, LinkOK
    <3>3. notes[Source(r)] = <<>> \/ Len(notes[Source(r)]) = 1
      BY <3>1 DEF LinkInv, LinkOK
    <3>4. Len(<<>>) = 0 /\ \A x : Len(<<x>>) = 1
      OBVIOUS
    <3>5. 0 <= 1 /\ 1 <= 1
      OBVIOUS
    <3> QED
      BY <3>2, <3>3, <3>4, <3>5, Zenon
  <2>6. ASSUME NEW p \in Processes PROVE Len(inbox[p]) <= IF p \in Ranks THEN 1 ELSE 0
    BY <2>1, <2>5 DEF AbsentInv
  <2>7. ASSUME NEW p \in Processes PROVE Len(notes[p]) <= 1
    <3>1. CASE p >= ranks \/ backend = "nccl"
      BY <2>1, <3>1 DEF AbsentInv
    <3>2. CASE ~(p >= ranks \/ backend = "nccl")
      <4>1. p \in Nat
        BY <2>1, RanksAre
      <4>2. p + 1 \in Ranks /\ Source(p + 1) = p
        BY <2>1, <3>2, <4>1 DEF TypeInv, Ranks, Source
      <4> QED
        BY <2>5, <4>2
    <3> QED
      BY <3>1, <3>2
  <2> QED
    BY <2>1, <2>3, <2>4, <2>6, <2>7 DEF TransferTypeOK, TypeInv
<1> QED
  BY <1>1, TransferAlways, PTL

\* AnnouncedIntact holds in every state: a bucket that a receiver may still copy is as announced.
THEOREM AnnouncedStaysIntact == TransferSpec => []AnnouncedIntact
<1>1. TransferInv => AnnouncedIntact
  BY DEF TransferInv, OutInv, OutOK, AnnouncedIntact, Intact, Holding
<1> QED
  BY <1>1, TransferAlways, PTL

\* What a worker has loaded is the first parameters of the version.
LEMMA LoadedIs ==
    ASSUME NEW w \in Workers, NEW v, WorkerOK(w, v)
    PROVE  w.loaded = Delivery!Prefix(v, Len(w.loaded))
<1>1. w.loaded \in Seq(Loads)
  BY DEF Workers
<1>2. \A k \in 1..Len(w.loaded) : w.loaded[k] = [param |-> k, values |-> {<<v, k>>}]
  BY DEF WorkerOK, Load
<1>3. PICK s \in Seq(Loads) : s = w.loaded
  BY <1>1
<1>4. s = [k \in 1..Len(s) |-> s[k]]
  OBVIOUS
<1>5. \A k \in 1..Len(s) : s[k] = [param |-> k, values |-> {<<v, k>>}]
  BY <1>2, <1>3
<1>6. s = [k \in 1..Len(s) |-> [param |-> k, values |-> {<<v, k>>}]]
  BY <1>4, <1>5, Zenon
<1> QED
  BY <1>3, <1>6 DEF Delivery!Prefix

\* When the manager ends the update every worker has loaded its last bucket.
LEMMA AllLoaded ==
    ASSUME TransferInv, Finalize, NEW r \in Ranks
    PROVE  worker[r].loaded = Delivery!Prefix(round, NumParams)
<1>1. TypeInv /\ CallInv /\ \A l \in Ranks : adapter[l].pc = "done"
  BY DEF TransferInv, Finalize
<1>2. PICK l \in Ranks : Leader(l) /\ r \in Replica(l)
  BY <1>1, HasLeader
<1>3. worker[r].pc = "loaded"
  BY <1>1, <1>2 DEF CallInv
<1>4. WorkerOK(worker[r], round) /\ worker[r] \in Workers
  BY <1>1, RankTypes DEF TransferInv, RankInv, RankOK
<1>5. Len(worker[r].loaded) = NumParams
  BY <1>3, <1>4 DEF WorkerOK
<1> QED
  BY <1>4, <1>5, LoadedIs

LEMMA DeliveryStutters ==
    ASSUME UNCHANGED <<round, ranks>>, phase' # "idle" <=> phase # "idle",
           \A r \in 1..MaxRanks : worker'[r].loaded = worker[r].loaded
    PROVE  UNCHANGED <<round, phase # "idle", ranks, [r \in 1..MaxRanks |-> worker[r].loaded]>>
<1>1. (phase # "idle")' = (phase # "idle")
  OBVIOUS
<1>2. [r \in 1..MaxRanks |-> worker[r].loaded]' = [r \in 1..MaxRanks |-> worker[r].loaded]
  OBVIOUS
<1> QED
  BY <1>1, <1>2

\* Every step of the transfer is a step of the abstract specification, or none.
LEMMA DeliveryStep ==
    ASSUME TransferInv, TransferInv', [TransferNext]_vars
    PROVE  [Delivery!DeliveryNext]_<<round, phase # "idle", ranks, [r \in 1..MaxRanks |-> worker[r].loaded]>>
<1> DEFINE Stutters == /\ UNCHANGED <<round, ranks>> /\ (phase' # "idle" <=> phase # "idle")
                       /\ \A r \in 1..MaxRanks : worker'[r].loaded = worker[r].loaded
<1>1. Stutters => UNCHANGED <<round, phase # "idle", ranks, [r \in 1..MaxRanks |-> worker[r].loaded]>>
  BY DeliveryStutters
<1>2. TypeInv /\ TypeInv' /\ Ranks \subseteq 1..MaxRanks /\ worker \in [1..MaxRanks -> Workers]
  BY RanksAre DEF TransferInv, TypeInv
<1>3. UNCHANGED <<managerVars, worker>> => Stutters
  BY DEF managerVars
<1>4. CASE Prepare
  <2>1. /\ phase = "idle" /\ phase' = "prepared" /\ round' = round + 1 /\ ranks' = ranks
        /\ worker' = [r \in 1..MaxRanks |-> NewWorker]
    BY <1>4 DEF Prepare
  <2>2. [r \in 1..MaxRanks |-> worker[r].loaded]' = [r \in 1..MaxRanks |-> <<>>]
    BY <2>1 DEF NewWorker
  <2>3. Delivery!BeginUpdate
    BY <2>1, <2>2 DEF Delivery!BeginUpdate
  <2> QED
    BY <2>3 DEF Delivery!DeliveryNext
<1>5. CASE BuildGroup
  BY <1>5 DEF BuildGroup, adapterVars
<1>6. CASE Finalize
  <2>1. /\ phase = "transfer" /\ phase' = "idle" /\ UNCHANGED <<round, ranks, worker>>
    BY <1>6 DEF Finalize, adapterVars
  <2>2. \A r \in 1..ranks : [q \in 1..MaxRanks |-> worker[q].loaded][r] = Delivery!Prefix(round, NumParams)
    BY <1>2, <1>6, AllLoaded DEF Ranks
  <2>3. [r \in 1..MaxRanks |-> worker[r].loaded]' = [r \in 1..MaxRanks |-> worker[r].loaded]
    BY <2>1
  <2>4. Delivery!FinishUpdate
    BY <2>1, <2>2, <2>3 DEF Delivery!FinishUpdate
  <2> QED
    BY <2>4 DEF Delivery!DeliveryNext
<1>7. CASE SenderNext \/ Broadcast
  <2>1. UNCHANGED <<managerVars, worker>>
    BY <1>7 DEF SenderNext, SendBegin, Fill, Flush, SendLast, SendDone, Publish, Consume, Broadcast, adapterVars
  <2> QED
    BY <1>3, <2>1
<1>8. ASSUME NEW r \in Ranks, LoadWeights(r), RankFrame
      PROVE  Delivery!DeliveryNext \/ Stutters
  <2> DEFINE w == worker[r]
             x == worker'[r]
  <2>1. /\ w.pc = "load" /\ r \in 1..MaxRanks
        /\ worker' = [worker EXCEPT ![r] = [w EXCEPT !.pc = IF w.last THEN "loaded" ELSE "waiting",
                                                     !.loaded = w.loaded \o w.clones, !.clones = <<>>]]
    BY <1>2, <1>8, LoadEffect, Zenon
  <2>2. w \in Workers /\ x \in Workers
    BY <1>2, <2>1 DEF TypeInv
  <2>3. x.loaded = w.loaded \o w.clones /\ \A q \in 1..MaxRanks : q # r => worker'[q] = worker[q]
    BY <1>2, <2>1 DEF Workers
  <2>4. /\ round' = round /\ ranks' = ranks /\ phase' = phase /\ phase = "transfer"
    BY <1>8, <2>1 DEF RankFrame, managerVars, TransferInv, QuietInv
  <2>5. x.loaded = Delivery!Prefix(round, Len(x.loaded))
    <3>1. RankInv(r)'
      BY <2>4 DEF TransferInv, Ranks
    <3>2. PICK y, v : y = x /\ v = round
      OBVIOUS
    <3>3. WorkerOK(y, v) /\ y \in Workers
      BY <2>2, <2>4, <3>1, <3>2 DEF RankInv, RankOK
    <3> QED
      BY <3>2, <3>3, LoadedIs
  <2>6. /\ w.loaded \in Seq(Loads) /\ w.clones \in Seq(Loads)
    BY <2>2 DEF Workers
  <2> DEFINE held == [q \in 1..MaxRanks |-> worker[q].loaded]
  <2>7. /\ held[r] = w.loaded /\ held'[r] = x.loaded
        /\ \A q \in 1..MaxRanks \ {r} : held'[q] = held[q]
    BY <2>1, <2>3
  <2>8. CASE w.clones = <<>>
    <3>1. \A s \in Seq(Loads) : s \o <<>> = s
      OBVIOUS
    <3>2. x.loaded = w.loaded
      BY <2>3, <2>6, <2>8, <3>1
    <3> QED
      BY <2>3, <2>4, <3>2
  <2>9. CASE w.clones # <<>>
    <3>1. \A s, t \in Seq(Loads) : t # <<>> => Len(s) < Len(s \o t)
      OBVIOUS
    <3>2. Len(w.loaded) < Len(x.loaded)
      BY <2>3, <2>6, <2>9, <3>1
    <3>3. Delivery!Deliver(r)
      BY <2>4, <2>5, <2>7, <3>2 DEF Delivery!Deliver
    <3> QED
      BY <2>1, <3>3 DEF Delivery!DeliveryNext
  <2> QED
    BY <2>8, <2>9
<1>9. ASSUME NEW r \in Ranks, RankNext(r)
      PROVE  Delivery!DeliveryNext \/ Stutters
  <2>1. UNCHANGED managerVars /\ r \in 1..MaxRanks
    BY <1>2, <1>9 DEF RankNext, Begin, First, Swap, Yield, Exhausted, AdapterStep, Connected, Receive, ReadDone
  <2>2. CASE Begin(r)
    <3>1. \A q \in 1..MaxRanks : worker'[q] = worker[q] \/ worker'[q] = [worker[q] EXCEPT !.pc = "called"]
      BY <1>2, <2>2, BeginEffect
    <3>2. \A w \in Workers : [w EXCEPT !.pc = "called"].loaded = w.loaded
      BY DEF Workers
    <3>3. \A q \in 1..MaxRanks : worker[q] \in Workers
      BY <1>2
    <3>4. \A q \in 1..MaxRanks : worker'[q].loaded = worker[q].loaded
      BY <3>1, <3>2, <3>3, Zenon
    <3> QED
      BY <2>1, <3>4 DEF managerVars
  <2>3. CASE First(r)
    <3>1. worker' = [worker EXCEPT ![r] = [worker[r] EXCEPT !.pc = "waiting"]]
      BY <1>2, <2>3, FirstEffect, Zenon
    <3>2. \A q \in 1..MaxRanks : worker'[q].loaded = worker[q].loaded
      BY <1>2, <2>1, <3>1 DEF Workers
    <3> QED
      BY <2>1, <3>2 DEF managerVars
  <2>4. CASE AdapterStep(r)
    <3>1. RankFrame
      BY <2>4 DEF AdapterStep, RankFrame
    <3>2. CASE LoadWeights(r)
      BY <1>8, <3>1, <3>2
    <3>3. CASE CloneAndReply(r)
      <4>1. worker' = [worker EXCEPT ![r] = WithClones(worker[r], adapter[r])]
        BY <1>2, <3>1, <3>3, CloneEffect, Zenon DEF WithClones
      <4>2. \A w \in Workers : \A a : WithClones(w, a).loaded = w.loaded
        BY DEF Workers, WithClones
      <4>3. \A q \in 1..MaxRanks : worker'[q].loaded = worker[q].loaded
        BY <1>2, <2>1, <4>1, <4>2
      <4> QED
        BY <2>1, <4>3 DEF managerVars
    <3>4. CASE ~LoadWeights(r) /\ ~CloneAndReply(r)
      <4>1. worker' = worker
        BY <2>4, <3>4 DEF AdapterStep, SendBucket, Request, CopyRuns, AdapterDone
      <4> QED
        BY <1>3, <2>1, <4>1
    <3> QED
      BY <3>2, <3>3, <3>4
  <2>5. CASE ~Begin(r) /\ ~First(r) /\ ~AdapterStep(r)
    <3>1. worker' = worker
      BY <1>9, <2>5 DEF RankNext, Swap, Yield, TakeTensor, Exhausted, Connected, Receive, ReadDone, adapterVars
    <3> QED
      BY <1>3, <2>1, <3>1
  <2> QED
    BY <2>2, <2>3, <2>4, <2>5
<1>10. CASE UNCHANGED vars
  BY <1>3, <1>10 DEF vars, adapterVars
<1> HIDE DEF Stutters
<1> QED
  BY <1>1, <1>4, <1>5, <1>6, <1>7, <1>9, <1>10 DEF TransferNext, ManagerNext

\* The update does what it promises: ImplementsDelivery, whose formula DeliverySpec is.
THEOREM WeightDeliveryImplemented == TransferSpec => ImplementsDelivery
<1>1. TransferInit => Delivery!DeliveryInit
  BY DEF TransferInit, AdapterInit, NewWorker, Delivery!DeliveryInit
<1>2. TransferInv /\ TransferInv' /\ [TransferNext]_vars
        => [Delivery!DeliveryNext]_<<round, phase # "idle", ranks, [r \in 1..MaxRanks |-> worker[r].loaded]>>
  BY DeliveryStep
<1> QED
  BY <1>1, <1>2, TransferAlways, PTL DEF TransferSpec, ImplementsDelivery, Delivery!DeliverySpec

-----------------------------------------------------------------------------
(* No update gets stuck: what an update needs to go on *)

\* An engine that has announced its last bucket, and one that has the metadata of the last one.
Closed(e) == e.pc \in {"closing", "tail", "done"}
Ended(e) == \/ e.pc \in {"tail", "done"}
            \/ e.in \in {"moving", "done"} /\ e.got.last

\* From a process that has closed, or not, and has announced a bucket, final or not, to a rank that
\* has ended, or not: what was announced is on its way unless it was lost, and the last bucket is
\* announced once and received once.
FlowOK(closed, out, final, note, box, in, ended, missed) ==
    /\ out = "moving" => note # <<>> \/ box # <<>> \/ in = "moving" \/ missed
    /\ ended => closed /\ ~OnTheWay(out, note, in)
    /\ closed => ended \/ (OnTheWay(out, note, in) /\ final)
    /\ OnTheWay(out, note, in) /\ final => closed
FlowInv(r) == FlowOK(Closed(engine[Source(r)]), engine[Source(r)].out, engine[Source(r)].sent.last,
                     notes[Source(r)], inbox[r], engine[r].in, Ended(engine[r]), r \in lost)

\* A notification is of the bucket that was announced last; nixl announces without a thread.
NoteInv(p) == backend = "nixl" => /\ engine[p].out \in {"none", "moving"}
                                  /\ notes[p] # <<>> => Head(notes[p]) = engine[p].sent.key
LinksInv == /\ \A r \in Ranks : FlowInv(r)
            /\ \A p \in 0..ranks : NoteInv(p)

\* The first rank of a replica has called the workers of all once its adapter has begun.
CalledInv == \A l \in Ranks : Leader(l) /\ adapter[l].pc # "idle" =>
                 \A q \in Replica(l) : worker[q].pc # "off"

ProgressInv == LinksInv /\ CalledInv /\ consuming \subseteq OtherTrainers

LEMMA ProgressInit == TransferInit => ProgressInv
<1> SUFFICES ASSUME TransferInit PROVE ProgressInv
  OBVIOUS
<1>1. TypeInv
  BY InitType
<1>2. /\ \A p \in Processes : engine[p] = NewEngine /\ notes[p] = <<>>
      /\ \A r \in 1..MaxRanks : adapter[r] = NewAdapter
      /\ consuming = {}
  BY DEF TransferInit, AdapterInit
<1>3. 0..ranks \subseteq Processes /\ Ranks \subseteq Processes /\ Ranks \subseteq 1..MaxRanks
  BY <1>1, RanksAre, RanksAssumption DEF TypeInv, Processes, Ranks
<1>4. /\ NewEngine.out = "none" /\ NewEngine.in = "none" /\ ~Closed(NewEngine) /\ ~Ended(NewEngine)
      /\ NewAdapter.pc = "idle"
  BY DEF NewEngine, NewAdapter, Closed, Ended
<1>5. ASSUME NEW r \in Ranks PROVE FlowInv(r)
  <2>1. engine[r] = NewEngine /\ engine[Source(r)] = NewEngine
    BY <1>1, <1>2, <1>3, SourceIs
  <2> QED
    BY <1>4, <2>1 DEF FlowInv, FlowOK, OnTheWay
<1>6. ASSUME NEW p \in 0..ranks PROVE NoteInv(p)
  BY <1>2, <1>3, <1>4, <1>6 DEF NoteInv
<1>7. CalledInv
  BY <1>2, <1>3, <1>4 DEF CalledInv
<1> QED
  BY <1>2, <1>5, <1>6, <1>7 DEF ProgressInv, LinksInv

\* An engine that changes nothing of what the link to the next is about, or the link it receives from.
SameOut(e, f) == f.out = e.out /\ f.sent = e.sent /\ Closed(f) = Closed(e)
SameIn(e, f) == (f.in = "moving") = (e.in = "moving") /\ Ended(f) = Ended(e)
SameFlow(e, f) == SameOut(e, f) /\ SameIn(e, f)

LEMMA FlowKept ==
    ASSUME NEW r \in Ranks, FlowInv(r), backend' = backend,
           SameIn(engine[r], engine'[r]), SameOut(engine[Source(r)], engine'[Source(r)]),
           inbox'[r] = inbox[r], notes'[Source(r)] = notes[Source(r)], r \in lost => r \in lost'
    PROVE  FlowInv(r)'
<1>1. PICK s : s = Source(r)
  OBVIOUS
<1>2. Source(r)' = s
  BY <1>1 DEF Source
<1>3. /\ engine'[s].out = engine[s].out /\ engine'[s].sent = engine[s].sent
      /\ Closed(engine'[s]) = Closed(engine[s])
      /\ (engine'[r].in = "moving") = (engine[r].in = "moving")
      /\ Ended(engine'[r]) = Ended(engine[r])
  BY <1>1 DEF SameOut, SameIn
<1>4. FlowOK(Closed(engine[s]), engine[s].out, engine[s].sent.last, notes[s], inbox[r], engine[r].in,
             Ended(engine[r]), r \in lost)
  BY <1>1 DEF FlowInv
<1>5. FlowOK(Closed(engine'[s]), engine'[s].out, engine'[s].sent.last, notes'[s], inbox'[r], engine'[r].in,
             Ended(engine'[r]), r \in lost')
  BY <1>1, <1>3, <1>4, Zenon DEF FlowOK, OnTheWay
<1> QED
  BY <1>2, <1>5, Zenon DEF FlowInv

\* A step that no link is about.
LEMMA LinksKept ==
    ASSUME TypeInv, LinksInv, UNCHANGED <<ranks, backend, inbox, notes>>,
           \A p \in 0..ranks : SameFlow(engine[p], engine'[p]), lost \subseteq lost'
    PROVE  LinksInv'
<1>1. Ranks' = Ranks /\ Ranks \subseteq 0..ranks
  BY DEF Ranks, TypeInv
<1>2. ASSUME NEW r \in Ranks PROVE FlowInv(r)'
  <2>1. r \in 0..ranks /\ Source(r) \in 0..ranks /\ FlowInv(r)
    BY <1>1, SourceIs DEF LinksInv
  <2> QED
    BY <2>1, FlowKept, Zenon DEF SameFlow
<1>3. ASSUME NEW p \in 0..ranks PROVE NoteInv(p)'
  <2>1. NoteInv(p) /\ engine'[p].out = engine[p].out /\ engine'[p].sent = engine[p].sent
    BY DEF LinksInv, SameFlow, SameOut
  <2> QED
    BY <2>1 DEF NoteInv
<1> QED
  BY <1>1, <1>2, <1>3 DEF LinksInv

-----------------------------------------------------------------------------
(* Steps that neither announce nor receive *)

\* An engine changes only in its state, and not to or from one that has announced the last bucket.
LEMMA SamePc ==
    ASSUME NEW e \in Engines, NEW goes, goes \notin {"closing", "tail", "done"}, ~Closed(e)
    PROVE  SameFlow(e, [e EXCEPT !.pc = goes])
<1>1. PICK f : f = [e EXCEPT !.pc = goes]
  OBVIOUS
<1>2. f.pc = goes /\ f.out = e.out /\ f.sent = e.sent /\ f.in = e.in /\ f.got = e.got
  BY <1>1 DEF Engines, EngineRecords
<1>3. Closed(f) = Closed(e)
  BY <1>2 DEF Closed
<1>4. Ended(f) = Ended(e)
  BY <1>2 DEF Ended, Closed
<1> QED
  BY <1>1, <1>2, <1>3, <1>4 DEF SameFlow, SameOut, SameIn

LEMMA SameItself == ASSUME NEW e PROVE SameFlow(e, e)
BY DEF SameFlow, SameOut, SameIn

\* One engine changes in nothing that its links are about.
LEMMA OneSame ==
    ASSUME TypeInv, LinksInv, UNCHANGED <<ranks, backend, inbox, notes, lost>>,
           NEW p \in 0..ranks, NEW f, engine' = [engine EXCEPT ![p] = f], SameFlow(engine[p], f)
    PROVE  LinksInv'
<1>1. 0..ranks \subseteq Processes /\ engine \in [Processes -> Engines]
  BY RanksAre, RanksAssumption DEF TypeInv, Processes
<1>2. \A q \in 0..ranks : engine'[q] = IF q = p THEN f ELSE engine[q]
  BY <1>1
<1>3. \A q \in 0..ranks : SameFlow(engine[q], engine'[q])
  BY <1>2, SameItself
<1> QED
  BY <1>3, LinksKept

LEMMA SendBeginLinks == ASSUME TransferInv, LinksInv, SendBegin PROVE LinksInv'
<1>1. TypeInv /\ 0 \in 0..ranks /\ engine[0] \in Engines
  BY RanksAre DEF TransferInv, TypeInv
<1>2. engine' = [engine EXCEPT ![0] = [engine[0] EXCEPT !.pc = "send"]] /\ engine[0].pc = "idle"
  BY <1>1, SendBeginEffect DEF SendBegin
<1>3. SameFlow(engine[0], [engine[0] EXCEPT !.pc = "send"])
  BY <1>1, <1>2, SamePc DEF Closed
<1>4. UNCHANGED <<ranks, backend, inbox, notes, lost>>
  BY DEF SendBegin, managerVars, linkVars
<1> QED
  BY <1>1, <1>2, <1>3, <1>4, OneSame

\* What an engine holds and where it stands in it: no link is about that.
LEMMA SameMeta ==
    ASSUME NEW e \in Engines, NEW m, NEW n
    PROVE  SameFlow(e, [e EXCEPT !.meta = m]) /\ SameFlow(e, [e EXCEPT !.pos = n])
<1>1. PICK f : f = [e EXCEPT !.meta = m]
  OBVIOUS
<1>2. f.pc = e.pc /\ f.out = e.out /\ f.sent = e.sent /\ f.in = e.in /\ f.got = e.got
  BY <1>1 DEF Engines, EngineRecords
<1>3. PICK g : g = [e EXCEPT !.pos = n]
  OBVIOUS
<1>4. g.pc = e.pc /\ g.out = e.out /\ g.sent = e.sent /\ g.in = e.in /\ g.got = e.got
  BY <1>3 DEF Engines, EngineRecords
<1>5. SameFlow(e, f) /\ SameFlow(e, g)
  BY <1>2, <1>4 DEF SameFlow, SameOut, SameIn, Closed, Ended
<1> QED
  BY <1>1, <1>3, <1>5

LEMMA FillLinks == ASSUME TransferInv, LinksInv, Fill PROVE LinksInv'
<1>1. TypeInv /\ 0 \in 0..ranks /\ engine[0] \in Engines
  BY RanksAre DEF TransferInv, TypeInv
<1>2. PICK m : m = WithTensor(engine[0].meta, next)
  OBVIOUS
<1>3. engine' = [engine EXCEPT ![0] = [engine[0] EXCEPT !.meta = m]]
  BY <1>1, <1>2, FillEffect
<1>4. UNCHANGED <<ranks, backend, inbox, notes, lost>>
  BY DEF Fill, managerVars, linkVars
<1> QED
  BY <1>1, <1>3, <1>4, SameMeta, OneSame

LEMMA YieldLinks == ASSUME TransferInv, LinksInv, NEW r \in Ranks, Yield(r) PROVE LinksInv'
<1>1. TypeInv /\ r \in 0..ranks /\ engine[r] \in Engines
  BY InRanks
<1>2. engine' = [engine EXCEPT ![r] = [engine[r] EXCEPT !.pos = engine[r].pos + 1]]
  BY <1>1, YieldEffect
<1>3. UNCHANGED <<ranks, backend, inbox, notes, lost>>
  BY DEF Yield, managerVars, linkVars
<1> QED
  BY <1>1, <1>2, <1>3, SameMeta, OneSame

\* The first bucket is awaited: nothing was taken from the link yet.
LEMMA FirstLinks == ASSUME TransferInv, LinksInv, NEW r \in Ranks, First(r) PROVE LinksInv'
<1>1. TypeInv /\ RankInv(r) /\ r \in 0..ranks /\ engine[r] \in Engines /\ adapter[r].pc = "attach"
  BY InRanks DEF First, Attach
<1>2. PICK f : f = [engine[r] EXCEPT !.pc = "first", !.in = "start"]
  OBVIOUS
<1>3. engine' = [engine EXCEPT ![r] = f]
  BY <1>1, <1>2, FirstEffect
<1>4. f.pc = "first" /\ f.in = "start" /\ f.out = engine[r].out /\ f.sent = engine[r].sent
  BY <1>1, <1>2 DEF Engines, EngineRecords
<1>5. engine[r].pc = "idle" /\ engine[r].in = "none"
  BY <1>1 DEF RankInv, RankOK, EngineOK
<1>6. SameFlow(engine[r], f)
  BY <1>4, <1>5 DEF SameFlow, SameOut, SameIn, Closed, Ended
<1>7. UNCHANGED <<ranks, backend, inbox, notes, lost>>
  BY DEF First, managerVars, linkVars
<1> QED
  BY <1>1, <1>3, <1>6, <1>7, OneSame

\* Steps that leave the engines alone, and do not touch a message.
LEMMA IdleLinks ==
    ASSUME TransferInv, LinksInv, UNCHANGED <<ranks, backend, engine, inbox, notes>>, lost \subseteq lost'
    PROVE  LinksInv'
<1>1. \A p \in 0..ranks : SameFlow(engine[p], engine'[p])
  BY SameItself
<1> QED
  BY <1>1, LinksKept DEF TransferInv

-----------------------------------------------------------------------------
(* Steps that announce *)

\* The last announcement was received, and it was the last.
LEMMA WithdrawFlow ==
    ASSUME NEW closed, NEW out, NEW final, NEW note, NEW box, NEW in, NEW ended, NEW missed,
           FlowOK(closed, out, final, note, box, in, ended, missed), closed, Received(out, note)
    PROVE  FlowOK(closed, "none", final, <<>>, box, in, ended, missed)
<1>1. ~OnTheWay(out, note, in)
  BY DEF Received, OnTheWay
<1> QED
  BY <1>1, Zenon DEF FlowOK, OnTheWay

\* When the last announcement was received nothing is being copied from the announcer.
LEMMA ReceivedLink ==
    ASSUME TransferInv, NEW r \in Ranks, NEW p, p = Source(r), Received(engine[p].out, notes[p])
    PROVE  engine[r].in # "moving"
BY DEF TransferInv, LinkInv, LinkOK, Received

\* The announcer takes its notification.
LEMMA NotesTaken ==
    ASSUME TransferInv, NEW p \in 0..ranks, WaitAnnounced(p)
    PROVE  /\ backend = "nixl" => notes'[p] = <<>>
           /\ \A r \in Ranks : Source(r) # p => notes'[Source(r)] = notes[Source(r)]
           /\ \A q \in 0..ranks : q # p => notes'[q] = notes[q]
<1>1. TypeInv /\ 0..ranks \subseteq Processes
  BY RanksAre, RanksAssumption, SMTT(30) DEF TransferInv, TypeInv, Processes
<1>2. /\ \A q \in Processes : q # p => notes'[q] = notes[q]
      /\ \A r \in Ranks : Source(r) = p => notes'[p] = <<>>
      /\ \A q \in Processes : q >= ranks \/ backend = "nccl" => notes'[q] = <<>>
  BY WaitNotes
<1>3. ASSUME backend = "nixl" PROVE notes'[p] = <<>>
  <2>1. CASE p >= ranks
    BY <1>1, <1>2, <2>1
  <2>2. CASE ~(p >= ranks)
    <3>1. p + 1 \in Ranks /\ Source(p + 1) = p
      BY <1>1, <1>3, <2>2 DEF Ranks, Source, TypeInv
    <3> QED
      BY <1>2, <3>1
  <2> QED
    BY <2>1, <2>2
<1> QED
  BY <1>1, <1>2, <1>3, SourceIs

\* Process p, not closed, announces a bucket, and closes with the last.
LEMMA AnnounceLinks ==
    ASSUME TransferInv, LinksInv, NEW p \in 0..ranks, p = 0 \/ Forwards(p), WaitAnnounced(p),
           UNCHANGED <<ranks, backend>>, NEW f \in Engines, engine' = [engine EXCEPT ![p] = f],
           f.out = IF backend = "nixl" THEN "moving" ELSE "start",
           f.sent \in Buckets, Announce(p, f.sent), ~Closed(engine[p]), Closed(f) = f.sent.last,
           (f.in = "moving") = (engine[p].in = "moving"), Ended(f) = Ended(engine[p])
    PROVE  LinksInv'
<1>1. /\ TypeInv /\ p \in Processes /\ 0..ranks \subseteq Processes /\ Ranks \subseteq 0..ranks
      /\ engine \in [Processes -> Engines] /\ backend \in {"nccl", "nixl"} /\ p \in Nat
  BY RanksAre, RanksAssumption, SMTT(30) DEF TransferInv, TypeInv, Processes, Ranks
<1>2. /\ engine'[p] = f /\ \A q \in 0..ranks : q # p => engine'[q] = engine[q]
      /\ Ranks' = Ranks /\ lost' = lost /\ \A r \in Ranks : Source(r)' = Source(r)
  BY <1>1 DEF Ranks, Source, Announce
<1>3. /\ \A q \in Processes : q # p + 1 => inbox'[q] = inbox[q]
      /\ backend = "nccl" => inbox' = inbox
      /\ backend = "nixl" /\ p + 1 \in Processes => inbox'[p + 1] = Append(inbox[p + 1], f.sent)
  BY <1>1, AnnounceType
<1>4. /\ backend = "nixl" => notes'[p] = <<>>
      /\ \A r \in Ranks : Source(r) # p => notes'[Source(r)] = notes[Source(r)]
      /\ \A q \in 0..ranks : q # p => notes'[q] = notes[q]
  BY NotesTaken
<1>5. ASSUME NEW r \in Ranks, Source(r) = p PROVE FlowInv(r)'
  <2>1. r # p /\ r \in 0..ranks /\ FlowInv(r) /\ engine'[r] = engine[r]
    BY <1>1, <1>2, <1>5, SourceIs DEF LinksInv
  <2>2. Received(engine[p].out, notes[p]) /\ notes'[p] = <<>>
    BY <1>5, WaitNotes
  <2>3. engine[r].in # "moving"
    BY <1>5, <2>2, ReceivedLink
  <2>4. FlowOK(Closed(engine[p]), engine[p].out, engine[p].sent.last, notes[p], inbox[r], engine[r].in,
               Ended(engine[r]), r \in lost)
    BY <1>5, <2>1 DEF FlowInv
  <2>5. /\ FlowOK(f.sent.last, "start", f.sent.last, <<>>, inbox[r], engine[r].in, Ended(engine[r]), r \in lost)
        /\ FlowOK(f.sent.last, "moving", f.sent.last, <<>>, <<f.sent>>, engine[r].in, Ended(engine[r]), r \in lost)
    <3>1. ~Ended(engine[r])
      BY <2>4, Zenon DEF FlowOK
    <3>2. <<f.sent>> # <<>>
      OBVIOUS
    <3> QED
      BY <2>3, <3>1, <3>2, Zenon DEF FlowOK, OnTheWay
  <2>6. FlowOK(Closed(f), f.out, f.sent.last, notes'[p], inbox'[r], engine[r].in, Ended(engine[r]), r \in lost)
    <3>1. CASE backend = "nixl"
      <4>1. r = p + 1 /\ r \in Processes
        BY <1>1, <1>5, <2>1, <3>1 DEF Source, Ranks
      <4>2. inbox[r] = <<>>
        BY <1>5, <2>1, <2>2 DEF TransferInv, LinkInv, LinkOK, Received
      <4>3. inbox'[r] = Append(<<>>, f.sent)
        BY <1>3, <3>1, <4>1, <4>2
      <4>4. inbox'[r] = <<f.sent>> /\ f.out = "moving"
        BY <3>1, <4>3
      <4> QED
        BY <2>2, <2>5, <4>4
    <3>2. CASE backend = "nccl"
      <4>1. inbox'[r] = inbox[r] /\ f.out = "start"
        BY <1>3, <3>2
      <4> QED
        BY <2>2, <2>5, <4>1
    <3> QED
      BY <1>1, <3>1, <3>2
  <2> QED
    BY <1>2, <1>5, <2>1, <2>6, Zenon DEF FlowInv
<1>6. ASSUME NEW r \in Ranks, Source(r) # p PROVE FlowInv(r)'
  <2>1. /\ Source(r) \in 0..ranks /\ r \in 0..ranks /\ r \in Processes /\ FlowInv(r)
        /\ engine'[Source(r)] = engine[Source(r)] /\ notes'[Source(r)] = notes[Source(r)]
    BY <1>1, <1>2, <1>4, <1>6, SourceIs DEF LinksInv
  <2>2. inbox'[r] = inbox[r]
    <3>1. backend = "nixl" => r # p + 1
      BY <1>1, <1>6 DEF Source, Ranks
    <3> QED
      BY <1>1, <1>3, <2>1, <3>1
  <2>3. SameIn(engine[r], engine'[r])
    BY <1>2, <2>1 DEF SameIn
  <2> QED
    BY <1>2, <2>1, <2>2, <2>3, FlowKept DEF SameOut
<1>7. ASSUME NEW q \in 0..ranks PROVE NoteInv(q)'
  <2>1. CASE q # p
    BY <1>2, <1>4, <2>1 DEF LinksInv, NoteInv
  <2>2. CASE q = p
    BY <1>2, <1>4, <2>2 DEF NoteInv
  <2> QED
    BY <2>1, <2>2
<1> QED
  BY <1>2, <1>5, <1>6, <1>7 DEF LinksInv

\* Process p, closed, has nothing announced any more.
LEMMA WithdrawLinks ==
    ASSUME TransferInv, LinksInv, NEW p \in 0..ranks, WaitAnnounced(p),
           UNCHANGED <<ranks, backend, inbox, lost>>, NEW f \in Engines, engine' = [engine EXCEPT ![p] = f],
           f.out = "none", f.sent = engine[p].sent, Closed(engine[p]), Closed(f),
           p # 0 => SameIn(engine[p], f)
    PROVE  LinksInv'
<1>1. /\ TypeInv /\ p \in Processes /\ 0..ranks \subseteq Processes
      /\ engine \in [Processes -> Engines] /\ \A r \in Ranks : r \in 0..ranks /\ r # 0
  <2>1. TypeInv /\ ranks \in 1..MaxRanks
    BY DEF TransferInv, TypeInv
  <2>2. 0..ranks \subseteq Processes
    BY <2>1, RanksAssumption DEF Processes
  <2>3. engine \in [Processes -> Engines]
    BY <2>1 DEF TypeInv
  <2>4. \A r \in Ranks : r \in 0..ranks /\ r # 0
    BY <2>1, RanksAssumption DEF Ranks
  <2> QED
    BY <2>1, <2>2, <2>3, <2>4
<1>2. /\ engine'[p] = f /\ \A q \in 0..ranks : q # p => engine'[q] = engine[q]
      /\ Ranks' = Ranks /\ \A r \in Ranks : Source(r)' = Source(r)
  BY <1>1 DEF Ranks, Source
<1>3. /\ backend = "nixl" => notes'[p] = <<>>
      /\ \A r \in Ranks : Source(r) # p => notes'[Source(r)] = notes[Source(r)]
      /\ \A q \in 0..ranks : q # p => notes'[q] = notes[q]
  BY NotesTaken
<1>4. ASSUME NEW r \in Ranks, Source(r) = p PROVE FlowInv(r)'
  <2>1. r # p /\ r \in 0..ranks /\ FlowInv(r) /\ engine'[r] = engine[r]
    BY <1>1, <1>2, <1>4, SourceIs DEF LinksInv
  <2>2. Received(engine[p].out, notes[p]) /\ notes'[p] = <<>>
    BY <1>4, WaitNotes
  <2>3. FlowOK(Closed(engine[p]), engine[p].out, engine[p].sent.last, notes[p], inbox[r], engine[r].in,
               Ended(engine[r]), r \in lost)
    BY <1>4, <2>1 DEF FlowInv
  <2>4. ~OnTheWay(engine[p].out, notes[p], engine[r].in)
    BY <2>2 DEF Received, OnTheWay
  <2>5. FlowOK(Closed(f), "none", f.sent.last, <<>>, inbox'[r], engine[r].in, Ended(engine[r]), r \in lost')
    BY <2>3, <2>4, Zenon DEF FlowOK, OnTheWay
  <2> QED
    BY <1>2, <1>4, <2>1, <2>2, <2>5, ZenonT(30) DEF FlowInv
<1>5. ASSUME NEW r \in Ranks, Source(r) # p PROVE FlowInv(r)'
  <2>1. /\ Source(r) \in 0..ranks /\ r \in 0..ranks /\ r # 0 /\ FlowInv(r)
        /\ engine'[Source(r)] = engine[Source(r)] /\ notes'[Source(r)] = notes[Source(r)]
    BY <1>1, <1>2, <1>3, <1>5, SourceIs DEF LinksInv
  <2>2. SameIn(engine[r], engine'[r])
    BY <1>2, <2>1 DEF SameIn
  <2> QED
    BY <1>2, <2>1, <2>2, FlowKept DEF SameOut
<1>6. ASSUME NEW q \in 0..ranks PROVE NoteInv(q)'
  <2>1. CASE q # p
    BY <1>2, <1>3, <2>1 DEF LinksInv, NoteInv
  <2>2. CASE q = p
    BY <1>2, <1>3, <2>2 DEF NoteInv
  <2> QED
    BY <2>1, <2>2
<1> QED
  BY <1>2, <1>4, <1>5, <1>6 DEF LinksInv

LEMMA FlushLinks == ASSUME TransferInv, LinksInv, Flush PROVE LinksInv'
<1>1. TypeInv /\ SenderInv /\ 0 \in 0..ranks /\ engine[0] \in Engines
  BY RanksAre DEF TransferInv, TypeInv
<1>2. /\ engine[0].pc = "send" /\ WaitAnnounced(0)
      /\ UNCHANGED <<managerVars, next, consuming, buffers, adapterVars>>
  BY <1>1, FlushEffect, Zenon
<1>3. PICK f \in Engines :
        /\ engine' = [engine EXCEPT ![0] = f]
        /\ f.pc = "send" /\ f.cur = 1 - engine[0].cur /\ f.meta = <<>> /\ f.in = engine[0].in
        /\ f.out = IF backend = "nixl" THEN "moving" ELSE "start"
        /\ f.sent \in Buckets /\ f.sent.meta = engine[0].meta /\ f.sent.buffer = SendBuf(0)
        /\ ~f.sent.last
        /\ Announce(0, f.sent)
  BY <1>1, FlushEffect, Zenon
<1>4. engine[0].in = "none" /\ f.sent.last \in BOOLEAN
  BY <1>1, <1>3 DEF SenderInv, SenderOK, Buckets
<1>5. ~Closed(engine[0]) /\ Closed(f) = f.sent.last /\ Ended(f) = Ended(engine[0])
  BY <1>2, <1>3, <1>4 DEF Closed, Ended
<1>6. UNCHANGED <<ranks, backend>>
  BY <1>2 DEF managerVars
<1> QED
  BY <1>1, <1>2, <1>3, <1>5, <1>6, AnnounceLinks

LEMMA SendLastLinks == ASSUME TransferInv, LinksInv, SendLast PROVE LinksInv'
<1>1. TypeInv /\ SenderInv /\ 0 \in 0..ranks /\ engine[0] \in Engines
  BY RanksAre DEF TransferInv, TypeInv
<1>2. /\ engine[0].pc = "send" /\ WaitAnnounced(0)
      /\ UNCHANGED <<managerVars, next, consuming, buffers, adapterVars>>
  BY <1>1, SendLastEffect, Zenon
<1>3. PICK f \in Engines :
        /\ engine' = [engine EXCEPT ![0] = f]
        /\ f.pc = "closing" /\ f.cur = engine[0].cur /\ f.meta = engine[0].meta /\ f.in = engine[0].in
        /\ f.out = IF backend = "nixl" THEN "moving" ELSE "start"
        /\ f.sent \in Buckets /\ f.sent.meta = engine[0].meta /\ f.sent.buffer = SendBuf(0)
        /\ f.sent.last
        /\ Announce(0, f.sent)
  BY <1>1, SendLastEffect, Zenon
<1>4. engine[0].in = "none" /\ f.sent.last \in BOOLEAN
  BY <1>1, <1>3 DEF SenderInv, SenderOK, Buckets
<1>5. ~Closed(engine[0]) /\ Closed(f) = f.sent.last /\ Ended(f) = Ended(engine[0])
  BY <1>2, <1>3, <1>4 DEF Closed, Ended
<1>6. UNCHANGED <<ranks, backend>>
  BY <1>2 DEF managerVars
<1> QED
  BY <1>1, <1>2, <1>3, <1>5, <1>6, AnnounceLinks

\* What the end of an engine changes.
LEMMA DoneRecord ==
    ASSUME NEW e \in Engines
    PROVE  LET f == [e EXCEPT !.pc = "done", !.out = "none"]
           IN f.pc = "done" /\ f.out = "none" /\ f.sent = e.sent /\ f.in = e.in /\ f.got = e.got
BY DEF Engines, EngineRecords

LEMMA SendDoneLinks == ASSUME TransferInv, LinksInv, SendDone PROVE LinksInv'
<1>1. TypeInv /\ SenderInv /\ 0 \in 0..ranks /\ 0 \in Processes /\ engine[0] \in Engines
  BY RanksAre DEF TransferInv, TypeInv
<1>2. PICK f : f = [engine[0] EXCEPT !.pc = "done", !.out = "none"]
  OBVIOUS
<1>3. TypeInv' /\ engine' = [engine EXCEPT ![0] = f]
  BY <1>1, <1>2, SendDoneEffect
<1>4. f \in Engines
  BY <1>1, <1>3 DEF TypeInv
<1>5. f.pc = "done" /\ f.out = "none" /\ f.sent = engine[0].sent /\ f.in = engine[0].in /\ f.got = engine[0].got
  BY <1>1, <1>2, DoneRecord
<1>6. engine[0].in = "none" /\ engine[0].pc = "closing" /\ WaitAnnounced(0)
  BY <1>1 DEF SenderInv, SenderOK, SendDone
<1>7. UNCHANGED <<ranks, backend, inbox, lost>>
  BY DEF SendDone, managerVars
<1>8. Closed(engine[0]) /\ Closed(f)
  BY <1>5, <1>6 DEF Closed
<1> QED
  BY <1>1, <1>3, <1>4, <1>5, <1>6, <1>7, <1>8, WithdrawLinks

LEMMA ExhaustedLinks == ASSUME TransferInv, LinksInv, NEW r \in Ranks, Exhausted(r) PROVE LinksInv'
<1>1. TypeInv /\ r \in 0..ranks /\ r \in Processes /\ engine[r] \in Engines /\ engine \in [Processes -> Engines]
  BY InRanks
<1>2. PICK f : f = [engine[r] EXCEPT !.pc = "done", !.out = "none"]
  OBVIOUS
<1>3. TypeInv' /\ engine' = [engine EXCEPT ![r] = f]
  BY <1>1, <1>2, ExhaustedEffect
<1>4. f \in Engines
  BY <1>1, <1>3 DEF TypeInv
<1>5. f.pc = "done" /\ f.out = "none" /\ f.sent = engine[r].sent /\ f.in = engine[r].in /\ f.got = engine[r].got
  BY <1>1, <1>2, DoneRecord
<1>6. engine[r].pc = "tail" /\ WaitAnnounced(r)
  BY DEF Exhausted
<1>7. UNCHANGED <<ranks, backend, inbox, lost>>
  BY DEF Exhausted, managerVars
<1>8. Closed(engine[r]) /\ Closed(f) /\ SameIn(engine[r], f)
  BY <1>5, <1>6 DEF Closed, SameIn, Ended
<1> QED
  BY <1>1, <1>3, <1>4, <1>5, <1>6, <1>7, <1>8, WithdrawLinks

LEMMA SwapLinks == ASSUME TransferInv, LinksInv, NEW r \in Ranks, Swap(r) PROVE LinksInv'
<1> DEFINE e == engine[r]
<1>1. /\ TypeInv /\ RankInv(r) /\ OutInv(r) /\ r \in 0..ranks /\ r # 0 /\ e \in Engines
      /\ r \in Processes /\ engine \in [Processes -> Engines]
  BY InRanks
<1>2. /\ MaySwap(r) /\ WaitAnnounced(r)
      /\ UNCHANGED <<managerVars, next, consuming, buffers, adapterVars>>
  BY <1>1, SwapEffect, Zenon
<1>3. PICK f \in Engines :
        /\ engine' = [engine EXCEPT ![r] = f]
        /\ f.pc = IF e.got.last THEN "tail" ELSE "loop"
        /\ f.in = IF e.got.last THEN "none" ELSE "start"
        /\ f.cur = 1 - e.cur /\ f.meta = e.got.meta /\ f.pos = 1 /\ f.got = e.got
        /\ Forwards(r) => /\ f.out = "moving" /\ f.sent \in Buckets
                          /\ f.sent.meta = e.got.meta /\ f.sent.last = e.got.last
                          /\ f.sent.buffer = f.cur + 1
                          /\ Announce(r, f.sent)
        /\ ~Forwards(r) => f.out = e.out /\ f.sent = e.sent /\ inbox' = inbox
  BY <1>1, SwapEffect, Zenon
<1>4. e.in = "done" /\ e.pc \in {"first", "loop"}
  BY <1>2 DEF MaySwap
<1>5. e.got.last \in BOOLEAN
  BY <1>1, <1>4, EngineIs DEF Buckets
<1>6. UNCHANGED <<ranks, backend>>
  BY <1>2 DEF managerVars
<1>7. ~Closed(e) /\ Closed(f) = e.got.last /\ Ended(f) = Ended(e) /\ (f.in = "moving") = (e.in = "moving")
  BY <1>3, <1>4, <1>5 DEF Closed, Ended
<1>8. CASE Forwards(r)
  <2>1. /\ f.out = IF backend = "nixl" THEN "moving" ELSE "start"
        /\ f.sent \in Buckets /\ Announce(r, f.sent) /\ Closed(f) = f.sent.last
    BY <1>3, <1>7, <1>8 DEF Forwards
  <2> QED
    BY <1>1, <1>2, <1>3, <1>6, <1>7, <1>8, <2>1, AnnounceLinks
<1>9. CASE ~Forwards(r)
  <2>1. e.out = "none" /\ f.out = "none" /\ inbox' = inbox
    BY <1>1, <1>3, <1>9 DEF OutInv
  <2>2. notes' = notes
    BY <1>2, <2>1 DEF WaitAnnounced, Announces
  <2>3. lost' = lost
    BY <1>9 DEF Swap, Forwards
  <2>4. engine'[r] = f /\ \A q \in 0..ranks : q # r => engine'[q] = engine[q]
    BY <1>1, <1>3, RanksAssumption DEF TypeInv, Processes
  <2>5. ASSUME NEW q \in Ranks PROVE FlowInv(q)'
    <3>1. FlowInv(q) /\ Source(q) \in 0..ranks /\ q \in 0..ranks /\ Source(q) # r
      BY <1>1, <1>9, SourceIs, NoReceiver, InRanks DEF LinksInv
    <3>2. SameIn(engine[q], engine'[q])
      BY <1>7, <2>4, <3>1 DEF SameIn
    <3>3. SameOut(engine[Source(q)], engine'[Source(q)])
      BY <2>4, <3>1 DEF SameOut
    <3> QED
      BY <1>6, <2>1, <2>2, <2>3, <3>1, <3>2, <3>3, FlowKept
  <2>6. ASSUME NEW q \in 0..ranks PROVE NoteInv(q)'
    <3>1. engine'[q].out = engine[q].out /\ engine'[q].sent = engine[q].sent
      BY <1>3, <1>9, <2>4
    <3> QED
      BY <1>6, <2>2, <3>1 DEF LinksInv, NoteInv
  <2>7. Ranks' = Ranks
    BY <1>6 DEF Ranks
  <2> QED
    BY <1>6, <2>5, <2>6, <2>7 DEF LinksInv
<1> QED
  BY <1>8, <1>9

-----------------------------------------------------------------------------
(* Steps that move a bucket *)

\* What is published reaches the ranks that are connected; to the others it is lost.
LEMMA PublishLinks == ASSUME TransferInv, LinksInv, Publish PROVE LinksInv'
<1> DEFINE e == engine[0]
<1>1. TypeInv /\ 0 \in 0..ranks /\ 0 \in Processes /\ e \in Engines /\ engine \in [Processes -> Engines]
  BY RanksAre DEF TransferInv, TypeInv
<1>2. PICK f : f = [e EXCEPT !.out = "moving"]
  OBVIOUS
<1>3. engine' = [engine EXCEPT ![0] = f] /\ e.sent \in Buckets
  BY <1>1, <1>2, PublishEffect
<1>4. f.pc = e.pc /\ f.in = e.in /\ f.got = e.got /\ f.sent = e.sent /\ f.out = "moving"
  BY <1>1, <1>2 DEF Engines, EngineRecords
<1>5. /\ backend = "nccl" /\ e.out = "start" /\ UNCHANGED <<ranks, backend, notes>>
      /\ inbox' = [p \in Processes |-> IF p \in subscribed THEN Append(inbox[p], e.sent) ELSE inbox[p]]
      /\ lost' = lost \cup (Ranks \ subscribed)
  BY DEF Publish, managerVars
<1>6. Closed(f) = Closed(e) /\ Ended(f) = Ended(e)
  BY <1>4 DEF Closed, Ended
<1>7. ASSUME NEW r \in Ranks PROVE FlowInv(r)'
  <2>1. /\ FlowInv(r) /\ Source(r) = 0 /\ Source(r)' = 0 /\ r # 0 /\ r \in Processes /\ inbox[r] \in Seq(Buckets)
        /\ LinkInv(r)
    BY <1>1, <1>5, InRanks DEF LinksInv, Source, TypeInv
  <2>2. engine'[r] = engine[r] /\ engine'[0] = f
    BY <1>1, <1>3, <2>1
  <2>3. FlowOK(Closed(e), "start", e.sent.last, notes[0], inbox[r], engine[r].in, Ended(engine[r]), r \in lost)
    BY <1>5, <2>1 DEF FlowInv
  <2>4. inbox'[r] # <<>> \/ r \in lost'
    <3>1. Append(inbox[r], e.sent) # <<>>
      BY <1>3, <2>1
    <3> QED
      BY <1>5, <2>1, <3>1
  <2>5. r \in lost => r \in lost'
    BY <1>5
  <2>6. FlowOK(Closed(f), "moving", f.sent.last, notes'[0], inbox'[r], engine[r].in, Ended(engine[r]), r \in lost')
    BY <1>4, <1>5, <1>6, <2>3, <2>4, <2>5, Zenon DEF FlowOK, OnTheWay
  <2> QED
    BY <1>4, <2>1, <2>2, <2>6, Zenon DEF FlowInv
<1>8. Ranks' = Ranks
  BY <1>5 DEF Ranks
<1>9. backend' # "nixl"
  BY <1>5
<1> QED
  BY <1>5, <1>7, <1>8, <1>9 DEF LinksInv, NoteInv

\* A rank that takes the metadata of the last bucket has ended.
LEMMA ReceiveLinks == ASSUME TransferInv, LinksInv, NEW r \in Ranks, Receive(r) PROVE LinksInv'
<1> DEFINE e == engine[r]
<1>1. /\ TypeInv /\ RankInv(r) /\ LinkInv(r) /\ r \in 0..ranks /\ r \in Processes /\ e \in Engines
      /\ engine \in [Processes -> Engines]
  BY InRanks
<1>2. PICK f : f = [e EXCEPT !.in = "moving", !.got = Head(inbox[r])]
  OBVIOUS
<1>3. engine' = [engine EXCEPT ![r] = f]
  BY <1>1, <1>2, ReceiveEffect
<1>4. f.pc = e.pc /\ f.out = e.out /\ f.sent = e.sent /\ f.in = "moving" /\ f.got = Head(inbox[r])
  BY <1>1, <1>2 DEF Engines, EngineRecords
<1>5. /\ e.in = "start" /\ inbox[r] # <<>> /\ UNCHANGED <<ranks, backend, notes, lost>>
      /\ inbox' = [inbox EXCEPT ![r] = Tail(inbox[r])]
  BY DEF Receive, managerVars
<1>6. e.pc \in {"first", "loop"}
  BY <1>1, <1>5 DEF RankInv, RankOK, EngineOK
<1>7. PICK s : s = Source(r)
  OBVIOUS
<1>8. s \in 0..ranks /\ s # r /\ Source(r)' = s
  BY <1>1, <1>5, <1>7, SourceIs DEF Source
<1>9. engine'[r] = f /\ \A q \in 0..ranks : q # r => engine'[q] = engine[q]
  BY <1>1, <1>3, RanksAssumption DEF TypeInv, Processes
<1>10. inbox[r] = <<engine[s].sent>> /\ engine[s].out = "moving" /\ notes[s] = <<>>
  BY <1>1, <1>5, <1>7 DEF LinkInv, LinkOK
<1>11. f.got = engine[s].sent
  BY <1>4, <1>10
<1>12. FlowInv(r)'
  <2>1. FlowOK(Closed(engine[s]), "moving", engine[s].sent.last, <<>>, inbox[r], "start", Ended(e), r \in lost)
    BY <1>5, <1>7, <1>10 DEF LinksInv, FlowInv
  <2>2. ~Ended(e) /\ Ended(f) = engine[s].sent.last
    <3>1. engine[s].sent \in Buckets
      BY <1>1, <1>10, RanksAssumption, SourceIs, <1>7, EngineIs DEF TypeInv
    <3>2. engine[s].sent.last \in BOOLEAN
      BY <3>1 DEF Buckets
    <3> QED
      BY <1>4, <1>5, <1>6, <1>11, <3>2 DEF Ended
  <2>3. FlowOK(Closed(engine[s]), "moving", engine[s].sent.last, <<>>, inbox'[r], "moving", Ended(f), r \in lost)
    BY <2>1, <2>2, Zenon DEF FlowOK, OnTheWay
  <2> QED
    BY <1>4, <1>5, <1>7, <1>8, <1>9, <1>10, <2>3, Zenon DEF FlowInv
<1>13. ASSUME NEW q \in Ranks, q # r PROVE FlowInv(q)'
  <2>1. q \in 0..ranks /\ Source(q) \in 0..ranks /\ FlowInv(q) /\ q \in Processes
    BY <1>1, <1>13, SourceIs, InRanks DEF LinksInv
  <2>2. SameIn(engine[q], engine'[q]) /\ inbox'[q] = inbox[q]
    BY <1>1, <1>5, <1>9, <1>13, <2>1 DEF SameIn, TypeInv
  <2>3. SameOut(engine[Source(q)], engine'[Source(q)])
    BY <1>4, <1>9, <2>1 DEF SameOut, Closed
  <2> QED
    BY <1>5, <2>1, <2>2, <2>3, FlowKept
<1>14. ASSUME NEW q \in 0..ranks PROVE NoteInv(q)'
  <2>1. engine'[q].out = engine[q].out /\ engine'[q].sent = engine[q].sent
    BY <1>4, <1>9
  <2> QED
    BY <1>5, <2>1 DEF LinksInv, NoteInv
<1>15. Ranks' = Ranks
  BY <1>5 DEF Ranks
<1> QED
  BY <1>5, <1>12, <1>13, <1>14, <1>15 DEF LinksInv

\* The read of a bucket ends with a notification that names it.
LEMMA ReadDoneLinks == ASSUME TransferInv, LinksInv, NEW r \in Ranks, ReadDone(r) PROVE LinksInv'
<1> DEFINE e == engine[r]
           s == r - 1
<1>1. /\ TypeInv /\ LinkInv(r) /\ r \in 0..ranks /\ r \in Processes /\ e \in Engines
      /\ engine \in [Processes -> Engines] /\ notes \in [Processes -> Seq(Nat)]
  BY InRanks DEF TypeInv
<1>2. PICK f : f = [e EXCEPT !.in = "done"]
  OBVIOUS
<1>3. engine' = [engine EXCEPT ![r] = f] /\ notes' = [notes EXCEPT ![s] = Append(notes[s], e.got.key)]
  BY <1>1, <1>2, ReadDoneEffect
<1>4. f.pc = e.pc /\ f.out = e.out /\ f.sent = e.sent /\ f.in = "done" /\ f.got = e.got
  BY <1>1, <1>2 DEF Engines, EngineRecords
<1>5. backend = "nixl" /\ e.in = "moving" /\ UNCHANGED <<ranks, backend, inbox, lost>>
  BY DEF ReadDone, managerVars
<1>6. Source(r) = s /\ s \in 0..ranks /\ s # r /\ s \in Processes /\ Source(r)' = s
  BY <1>1, <1>5, SourceIs DEF Source
<1>7. engine'[r] = f /\ \A q \in 0..ranks : q # r => engine'[q] = engine[q]
  BY <1>1, <1>3, RanksAssumption DEF TypeInv, Processes
<1>8. notes[s] = <<>> /\ e.got = engine[s].sent
  BY <1>1, <1>5, <1>6 DEF LinkInv, LinkOK
<1>9. /\ notes'[s] # <<>> /\ Head(notes'[s]) = engine[s].sent.key
      /\ \A q \in 0..ranks : q # s => notes'[q] = notes[q]
  <2>1. notes'[s] = Append(<<>>, engine[s].sent.key)
    BY <1>1, <1>3, <1>6, <1>8
  <2>2. notes'[s] = <<engine[s].sent.key>>
    BY <2>1
  <2>3. \A q \in 0..ranks : q # s => notes'[q] = notes[q]
    BY <1>1, <1>3, <1>6, RanksAssumption DEF TypeInv, Processes
  <2> QED
    BY <2>2, <2>3
<1>10. Ended(f) = Ended(e) /\ Closed(f) = Closed(e)
  BY <1>4, <1>5 DEF Ended, Closed
<1>11. FlowInv(r)'
  <2>1. FlowOK(Closed(engine[s]), engine[s].out, engine[s].sent.last, notes[s], inbox[r], "moving", Ended(e),
               r \in lost)
    BY <1>5, <1>6 DEF LinksInv, FlowInv
  <2>2. FlowOK(Closed(engine[s]), engine[s].out, engine[s].sent.last, notes'[s], inbox[r], "done", Ended(e),
               r \in lost)
    BY <1>9, <2>1, Zenon DEF FlowOK, OnTheWay
  <2> QED
    BY <1>4, <1>5, <1>6, <1>7, <1>10, <2>2, Zenon DEF FlowInv
<1>12. ASSUME NEW q \in Ranks, q # r PROVE FlowInv(q)'
  <2>1. q \in 0..ranks /\ Source(q) \in 0..ranks /\ FlowInv(q) /\ Source(q) # s
    BY <1>1, <1>5, <1>12, SourceIs, InRanks DEF LinksInv, Source, Ranks, TypeInv
  <2>2. SameIn(engine[q], engine'[q])
    BY <1>7, <1>12, <2>1 DEF SameIn
  <2>3. SameOut(engine[Source(q)], engine'[Source(q)])
    BY <1>4, <1>7, <1>10, <2>1 DEF SameOut
  <2>4. notes'[Source(q)] = notes[Source(q)] /\ inbox'[q] = inbox[q]
    BY <1>5, <1>9, <2>1
  <2> QED
    BY <1>5, <2>1, <2>2, <2>3, <2>4, FlowKept
<1>13. ASSUME NEW q \in 0..ranks PROVE NoteInv(q)'
  <2>1. engine'[q].out = engine[q].out /\ engine'[q].sent = engine[q].sent /\ NoteInv(q)
    BY <1>4, <1>7 DEF LinksInv
  <2>2. CASE q = s
    BY <1>5, <1>9, <2>1, <2>2 DEF NoteInv
  <2>3. CASE q # s
    BY <1>5, <1>9, <2>1, <2>3 DEF NoteInv
  <2> QED
    BY <2>2, <2>3
<1>14. Ranks' = Ranks
  BY <1>5 DEF Ranks
<1> QED
  BY <1>5, <1>11, <1>12, <1>13, <1>14 DEF LinksInv

\* All ranks have the bucket when the broadcast ends.
LEMMA BroadcastLinks == ASSUME TransferInv, LinksInv, Broadcast PROVE LinksInv'
<1> DEFINE e == engine[0]
<1>1. TypeInv /\ 0 \in 0..ranks /\ e \in Engines
  BY RanksAre DEF TransferInv, TypeInv
<1>2. /\ engine'[0] = [e EXCEPT !.out = "done"]
      /\ \A r \in Ranks : engine'[r] = [engine[r] EXCEPT !.in = "done"]
  BY <1>1, BroadcastEffect
<1>3. /\ backend = "nccl" /\ e.out = "moving" /\ UNCHANGED <<ranks, backend, inbox, notes, lost>>
      /\ \A r \in Ranks : engine[r].in = "moving"
  BY DEF Broadcast, managerVars, linkVars
<1>4. engine'[0].out = "done" /\ engine'[0].sent = e.sent /\ engine'[0].pc = e.pc
  BY <1>1, <1>2 DEF Engines, EngineRecords
<1>5. ASSUME NEW r \in Ranks PROVE FlowInv(r)'
  <2>1. FlowInv(r) /\ engine[r] \in Engines /\ Source(r) = 0 /\ Source(r)' = 0
    BY <1>3, InRanks DEF LinksInv, Source
  <2>2. engine'[r].in = "done" /\ engine'[r].got = engine[r].got /\ engine'[r].pc = engine[r].pc
    <3>1. engine[r] \in EngineRecords
      BY <2>1 DEF Engines
    <3>2. engine'[r] = [engine[r] EXCEPT !.in = "done"]
      BY <1>2
    <3> QED
      BY <3>1, <3>2 DEF EngineRecords
  <2>3. Ended(engine'[r]) = Ended(engine[r]) /\ Closed(engine'[0]) = Closed(e)
    BY <1>3, <1>4, <2>2 DEF Ended, Closed
  <2>4. FlowOK(Closed(e), "moving", e.sent.last, notes[0], inbox[r], "moving", Ended(engine[r]), r \in lost)
    BY <1>3, <2>1 DEF FlowInv
  <2>5. FlowOK(Closed(e), "done", e.sent.last, notes[0], inbox[r], "done", Ended(engine[r]), r \in lost)
    BY <2>4, Zenon DEF FlowOK, OnTheWay
  <2> QED
    BY <1>3, <1>4, <2>1, <2>2, <2>3, <2>5, Zenon DEF FlowInv
<1>6. Ranks' = Ranks /\ backend' # "nixl"
  BY <1>3 DEF Ranks
<1> QED
  BY <1>3, <1>5, <1>6 DEF LinksInv, NoteInv

-----------------------------------------------------------------------------
(* The manager's steps, and what the calls of the workers need *)

LEMMA PrepareLinks == ASSUME TransferInv, LinksInv, Prepare PROVE LinksInv'
<1>1. TypeInv /\ \A p \in Processes : notes[p] = <<>>
  BY QuietLinks DEF TransferInv, Prepare
<1>2. /\ \A p \in Processes : engine'[p] = NewEngine
      /\ UNCHANGED <<ranks, backend, inbox, notes, lost>>
  BY DEF Prepare, linkVars
<1>3. /\ NewEngine.out = "none" /\ NewEngine.in = "none" /\ ~Closed(NewEngine) /\ ~Ended(NewEngine)
  BY DEF NewEngine, Closed, Ended
<1>4. 0..ranks \subseteq Processes /\ Ranks' = Ranks
  BY <1>1, <1>2, RanksAssumption DEF TypeInv, Processes, Ranks
<1>5. ASSUME NEW r \in Ranks PROVE FlowInv(r)'
  <2>1. r \in Processes /\ Source(r) \in Processes /\ Source(r)' = Source(r)
    BY <1>1, <1>2, RanksAre, SourceIs DEF Source
  <2>2. engine'[r] = NewEngine /\ engine'[Source(r)'] = NewEngine
    BY <1>2, <2>1
  <2> QED
    BY <1>3, <2>2 DEF FlowInv, FlowOK, OnTheWay
<1>6. ASSUME NEW p \in 0..ranks PROVE NoteInv(p)'
  BY <1>1, <1>2, <1>3, <1>4 DEF NoteInv
<1> QED
  BY <1>2, <1>4, <1>5, <1>6 DEF LinksInv

LEMMA BuildGroupLinks == ASSUME TransferInv, LinksInv, BuildGroup PROVE LinksInv'
<1>1. TypeInv
  BY DEF TransferInv
<1>2. phase = "prepared" /\ UNCHANGED <<ranks, backend, engine, notes, lost>>
  BY DEF BuildGroup
<1>3. inbox' = inbox
  <2>1. inbox = [p \in Processes |-> <<>>]
    BY <1>1, <1>2, QuietLinks DEF TypeInv
  <2> QED
    BY <2>1 DEF BuildGroup
<1> QED
  BY <1>2, <1>3, IdleLinks

\* The steps after which CalledInv has to be shown begin an adapter, or begin an update.
LEMMA CalledKept ==
    ASSUME CalledInv, UNCHANGED <<ranks, replicaSize>>,
           \A r \in Ranks : adapter[r].pc = "idle" => adapter'[r].pc = "idle",
           \A r \in Ranks : worker[r].pc # "off" => worker'[r].pc # "off"
    PROVE  CalledInv'
<1>1. Ranks' = Ranks /\ \A l : Replica(l)' = Replica(l) /\ (Leader(l)' <=> Leader(l))
  BY DEF Ranks, Replica, Leader
<1>2. \A l : Replica(l) \subseteq Ranks
  BY DEF Replica
<1> QED
  BY <1>1, <1>2 DEF CalledInv

LEMMA BeginCalled == ASSUME TransferInv, CalledInv, NEW r \in Ranks, Begin(r) PROVE CalledInv'
<1>1. /\ TypeInv /\ r \in 1..MaxRanks /\ Ranks \subseteq 1..MaxRanks
      /\ adapter \in [1..MaxRanks -> Adapters] /\ worker \in [1..MaxRanks -> Workers]
  BY InRanks, RanksAre
<1>2. /\ adapter' = [adapter EXCEPT ![r] = [adapter[r] EXCEPT !.pc = "attach"]]
      /\ \A q \in 1..MaxRanks :
           worker'[q] = IF Leader(r) /\ q \in Replica(r) THEN [worker[q] EXCEPT !.pc = "called"] ELSE worker[q]
  BY <1>1, BeginEffect
<1>3. UNCHANGED <<ranks, replicaSize>>
  BY DEF Begin, managerVars
<1>4. Ranks' = Ranks /\ \A l : Replica(l)' = Replica(l) /\ (Leader(l)' <=> Leader(l))
  BY <1>3 DEF Ranks, Replica, Leader
<1>5. \A l : Replica(l) \subseteq Ranks
  BY DEF Replica
<1>6. \A q \in Ranks : worker[q].pc # "off" \/ (Leader(r) /\ q \in Replica(r)) => worker'[q].pc # "off"
  BY <1>1, <1>2 DEF Workers
<1>7. \A l \in Ranks : l # r => adapter'[l] = adapter[l]
  BY <1>1, <1>2
<1> SUFFICES ASSUME NEW l \in Ranks, Leader(l), adapter'[l].pc # "idle", NEW q \in Replica(l)
             PROVE  worker'[q].pc # "off"
  BY <1>4 DEF CalledInv
<1>8. CASE l = r
  BY <1>5, <1>6, <1>8
<1>9. CASE l # r
  BY <1>5, <1>6, <1>7, <1>9 DEF CalledInv
<1> QED
  BY <1>8, <1>9

\* The adapter and the worker of one rank change.
LEMMA OneCalled ==
    ASSUME TransferInv, CalledInv, NEW r \in Ranks, UNCHANGED managerVars,
           NEW b, adapter' = [adapter EXCEPT ![r] = b], adapter[r].pc = "idle" => b.pc = "idle",
           NEW x, worker' = [worker EXCEPT ![r] = x], worker[r].pc # "off" => x.pc # "off"
    PROVE  CalledInv'
<1>1. /\ Ranks \subseteq 1..MaxRanks /\ adapter \in [1..MaxRanks -> Adapters]
      /\ worker \in [1..MaxRanks -> Workers] /\ UNCHANGED <<ranks, replicaSize>>
  BY RanksAre DEF TransferInv, TypeInv, managerVars
<1>2. \A q \in Ranks : /\ adapter'[q] = IF q = r THEN b ELSE adapter[q]
                       /\ worker'[q] = IF q = r THEN x ELSE worker[q]
  BY <1>1
<1> QED
  BY <1>1, <1>2, CalledKept

LEMMA FirstCalled == ASSUME TransferInv, CalledInv, NEW r \in Ranks, First(r) PROVE CalledInv'
<1>1. TypeInv /\ adapter[r] \in Adapters /\ worker[r] \in Workers /\ adapter[r].pc = "attach"
  BY InRanks DEF First, Attach
<1>2. PICK b : b = [adapter[r] EXCEPT !.pc = "fill"]
  OBVIOUS
<1>3. PICK x : x = [worker[r] EXCEPT !.pc = "waiting"]
  OBVIOUS
<1>4. adapter' = [adapter EXCEPT ![r] = b] /\ worker' = [worker EXCEPT ![r] = x]
  BY <1>1, <1>2, <1>3, FirstEffect
<1>5. x.pc = "waiting"
  BY <1>1, <1>3 DEF Workers
<1>6. UNCHANGED managerVars
  BY DEF First
<1> QED
  BY <1>1, <1>4, <1>5, <1>6, OneCalled

LEMMA YieldCalled == ASSUME TransferInv, CalledInv, NEW r \in Ranks, Yield(r) PROVE CalledInv'
<1>1. /\ adapter \in [1..MaxRanks -> Adapters] /\ r \in 1..MaxRanks /\ Ranks \subseteq 1..MaxRanks
  BY InRanks, RanksAre DEF TransferInv
<1>2. /\ worker' = worker /\ adapter[r].pc = "fill" /\ UNCHANGED <<ranks, replicaSize>>
      /\ \A q \in 1..MaxRanks : q # r => adapter'[q] = adapter[q]
  BY <1>1 DEF Yield, TakeTensor, managerVars
<1> QED
  BY <1>1, <1>2, CalledKept

\* The steps of an adapter and its worker.
LEMMA AdapterStepCalled == ASSUME TransferInv, CalledInv, NEW r \in Ranks, AdapterStep(r) PROVE CalledInv'
<1>1. /\ TypeInv /\ adapter[r] \in Adapters /\ worker[r] \in Workers /\ RankFrame /\ UNCHANGED managerVars
      /\ worker = [worker EXCEPT ![r] = worker[r]] /\ adapter = [adapter EXCEPT ![r] = adapter[r]]
  BY InRanks DEF AdapterStep, RankFrame
<1>2. ASSUME NEW last, Request(r, last) PROVE CalledInv'
  <2>1. PICK b : b = [adapter[r] EXCEPT !.pc = IF last THEN "lastReply" ELSE "reply"]
    OBVIOUS
  <2>2. adapter[r].pc = "fill" /\ adapter' = [adapter EXCEPT ![r] = b] /\ worker' = worker
    BY <1>1, <1>2, <2>1, RequestEffect
  <2> QED
    BY <1>1, <2>2, OneCalled
<1>3. CASE CopyRuns(r)
  <2>1. PICK b : /\ adapter' = [adapter EXCEPT ![r] = b] /\ worker' = worker
                 /\ b.pc = adapter[r].pc
    <3>1. PICK c : c = Tail(adapter[r].copies)
      OBVIOUS
    <3>2. PICK new : new = LET h == Head(adapter[r].copies)
                           IN Copied(adapter[r].shared, h.to, buffers[r][h.buffer], h.from)
      OBVIOUS
    <3>3. /\ adapter' = [adapter EXCEPT ![r] = [adapter[r] EXCEPT !.copies = c, !.shared = new]]
          /\ worker' = worker
      BY <1>1, <1>3, <3>1, <3>2, CopyRunsEffect
    <3>4. [adapter[r] EXCEPT !.copies = c, !.shared = new].pc = adapter[r].pc
      BY <1>1 DEF Adapters
    <3> QED
      BY <3>3, <3>4
  <2> QED
    BY <1>1, <2>1, OneCalled
<1>4. CASE CloneAndReply(r)
  <2>1. PICK b : b = [adapter[r] EXCEPT !.pc = IF adapter[r].pc = "lastReply" THEN "future" ELSE "fill",
                                        !.meta = <<>>]
    OBVIOUS
  <2>2. PICK x : x = [worker[r] EXCEPT !.pc = "load", !.last = (adapter[r].pc = "lastReply"),
                                       !.clones = ClonesOf(adapter[r])]
    OBVIOUS
  <2>3. /\ adapter[r].pc \in {"reply", "lastReply"}
        /\ adapter' = [adapter EXCEPT ![r] = b] /\ worker' = [worker EXCEPT ![r] = x]
    BY <1>1, <1>4, <2>1, <2>2, CloneEffect, Zenon
  <2>4. x.pc = "load"
    BY <1>1, <2>2 DEF Workers
  <2> QED
    BY <1>1, <2>3, <2>4, OneCalled
<1>5. CASE LoadWeights(r)
  <2>1. PICK x : x = [worker[r] EXCEPT !.pc = IF worker[r].last THEN "loaded" ELSE "waiting",
                                       !.loaded = worker[r].loaded \o worker[r].clones, !.clones = <<>>]
    OBVIOUS
  <2>2. worker' = [worker EXCEPT ![r] = x] /\ adapter' = adapter
    BY <1>1, <1>5, <2>1, LoadEffect
  <2>3. x.pc \in {"loaded", "waiting"}
    BY <1>1, <2>1 DEF Workers
  <2> QED
    BY <1>1, <2>2, <2>3, OneCalled
<1>6. CASE AdapterDone(r)
  <2>1. PICK b : b = [adapter[r] EXCEPT !.pc = "done"]
    OBVIOUS
  <2>2. adapter[r].pc = "future" /\ adapter' = [adapter EXCEPT ![r] = b] /\ worker' = worker
    BY <1>1, <1>6, <2>1, AdapterDoneEffect
  <2> QED
    BY <1>1, <2>2, OneCalled
<1> QED
  BY <1>2, <1>3, <1>4, <1>5, <1>6 DEF AdapterStep, SendBucket

LEMMA PrepareCalled == ASSUME TransferInv, Prepare PROVE CalledInv'
<1>1. /\ \A r \in 1..MaxRanks : adapter'[r] = NewAdapter /\ ranks' = ranks
      /\ ranks \in Nat /\ Ranks \subseteq 1..MaxRanks
  BY RanksAre, RanksAssumption DEF Prepare, TransferInv, TypeInv
<1>2. Ranks' = Ranks
  BY DEF Ranks, Prepare
<1> QED
  BY <1>1, <1>2 DEF CalledInv, NewAdapter

\* Of a rank's steps.
LEMMA RankProgress ==
    ASSUME TransferInv, ProgressInv, NEW r \in Ranks, RankNext(r)
    PROVE  ProgressInv'
<1>1. LinksInv /\ CalledInv /\ consuming \subseteq OtherTrainers
  BY DEF ProgressInv
<1>2. CASE Begin(r)
  <2>1. UNCHANGED <<ranks, backend, engine, inbox, notes, lost>> /\ consuming' = consuming
    BY <1>2 DEF Begin, managerVars, linkVars
  <2> QED
    BY <1>1, <1>2, <2>1, IdleLinks, BeginCalled DEF ProgressInv
<1>3. CASE First(r)
  BY <1>1, <1>3, FirstLinks, FirstCalled DEF ProgressInv, First
<1>4. CASE Yield(r)
  BY <1>1, <1>4, YieldLinks, YieldCalled DEF ProgressInv, Yield
<1>5. CASE AdapterStep(r)
  <2>1. UNCHANGED <<ranks, backend, engine, inbox, notes, lost>> /\ consuming' = consuming
    BY <1>5 DEF AdapterStep, managerVars, linkVars
  <2> QED
    BY <1>1, <1>5, <2>1, IdleLinks, AdapterStepCalled DEF ProgressInv
<1>6. CASE Swap(r) \/ Exhausted(r) \/ Receive(r) \/ ReadDone(r)
  <2>1. UNCHANGED <<ranks, replicaSize, adapter, worker, consuming>>
    BY <1>6 DEF Swap, Exhausted, Receive, ReadDone, managerVars, adapterVars
  <2>2. CalledInv'
    BY <1>1, <2>1, CalledKept
  <2>3. LinksInv'
    BY <1>1, <1>6, SwapLinks, ExhaustedLinks, ReceiveLinks, ReadDoneLinks
  <2> QED
    BY <1>1, <2>1, <2>2, <2>3 DEF ProgressInv
<1>7. CASE Connected(r)
  <2>1. UNCHANGED <<ranks, replicaSize, adapter, worker, consuming>>
    BY <1>7 DEF Connected, managerVars, adapterVars
  <2>2. UNCHANGED <<ranks, backend, engine, inbox, notes, lost>>
    BY <1>7 DEF Connected, managerVars
  <2> QED
    BY <1>1, <2>1, <2>2, IdleLinks, CalledKept DEF ProgressInv
<1> QED
  BY <1>2, <1>3, <1>4, <1>5, <1>6, <1>7 DEF RankNext

\* Of the manager's, the sender's and the joint step.
LEMMA OtherProgress ==
    ASSUME TransferInv, ProgressInv, ManagerNext \/ SenderNext \/ Broadcast \/ UNCHANGED vars
    PROVE  ProgressInv'
<1>1. LinksInv /\ CalledInv /\ consuming \subseteq OtherTrainers
  BY DEF ProgressInv
<1>2. CASE Prepare
  BY <1>1, <1>2, PrepareLinks, PrepareCalled DEF ProgressInv, Prepare
<1>3. CASE BuildGroup \/ Broadcast \/ SendBegin \/ Fill \/ Flush \/ SendLast \/ SendDone \/ Publish
  <2>1. UNCHANGED <<ranks, replicaSize, adapter, worker, consuming>>
    BY <1>3 DEF BuildGroup, Broadcast, SendBegin, Fill, Flush, SendLast, SendDone, Publish, managerVars, adapterVars
  <2>2. CalledInv'
    BY <1>1, <2>1, CalledKept
  <2>3. LinksInv'
    BY <1>1, <1>3, BuildGroupLinks, BroadcastLinks, SendBeginLinks, FillLinks, FlushLinks, SendLastLinks,
       SendDoneLinks, PublishLinks
  <2> QED
    BY <1>1, <2>1, <2>2, <2>3 DEF ProgressInv
<1>4. CASE Finalize \/ (\E t \in OtherTrainers : Consume(t)) \/ UNCHANGED vars
  <2>1. /\ UNCHANGED <<ranks, replicaSize, adapter, worker>> /\ consuming' \subseteq OtherTrainers
        /\ UNCHANGED <<ranks, backend, engine, inbox, notes, lost>>
    BY <1>1, <1>4 DEF Finalize, Consume, vars, managerVars, adapterVars, linkVars
  <2> QED
    BY <1>1, <2>1, IdleLinks, CalledKept DEF ProgressInv
<1> QED
  BY <1>2, <1>3, <1>4 DEF ManagerNext, SenderNext

\* What an update needs to go on holds in every state.
LEMMA ProgressAlways == TransferSpec => [](TransferInv /\ ProgressInv)
<1>1. TransferInit => TransferInv /\ ProgressInv
  BY InvInit, ProgressInit
<1>2. TransferInv /\ ProgressInv /\ [TransferNext]_vars => (TransferInv /\ ProgressInv)'
  BY InvNext, RankProgress, OtherProgress DEF TransferNext
<1> QED
  BY <1>1, <1>2, PTL DEF TransferSpec

-----------------------------------------------------------------------------
(* No update gets stuck: a step that can be taken *)

\* The last announcement of p, if there is one, was received.
Ready(p) == Announces(p) => Complete(p)

\* What the guards ask, action by action: of the steps of the sender and the trainer's ranks, ...
SenderMoves ==
    \/ engine[0].pc = "idle"                                                         \* SendBegin
    \/ Gathered(next) /\ (Fits(engine[0].meta, next) \/ Ready(0))                    \* Fill, Flush
    \/ engine[0].pc = "send" /\ next > NumParams /\ Ready(0)                         \* SendLast
    \/ engine[0].pc = "closing" /\ Ready(0)                                          \* SendDone
    \/ backend = "nccl" /\ engine[0].out = "start"                                   \* Publish
    \/ \E t \in OtherTrainers : t \notin consuming                                   \* Consume
\* ... of those of a rollout rank, its adapter and its worker, ...
RankMoves(r) ==
    \/ adapter[r].pc = "idle"                                                        \* Begin
    \/ adapter[r].pc = "attach" /\ worker[r].pc = "called"                           \* First
    \/ MaySwap(r) /\ Ready(r)                                                        \* Swap
    \/ MayYield(r) /\ adapter[r].pc = "fill"                                         \* Yield, AdapterStep
                   /\ (Fits(adapter[r].meta, NextTensor(r).param) \/ Synchronized(r))
    \/ engine[r].pc = "tail" /\ engine[r].pos > Len(engine[r].meta) /\ Ready(r)      \* Exhausted
    \/ engine[r].pc = "done" /\ adapter[r].pc = "fill" /\ Synchronized(r)            \* AdapterStep
    \/ adapter[r].copies # <<>>                                                      \* ... CopyRuns
    \/ worker[r].pc = "waiting" /\ adapter[r].pc \in {"reply", "lastReply"}          \* ... CloneAndReply
    \/ worker[r].pc = "load"                                                         \* ... LoadWeights
    \/ adapter[r].pc = "future" /\ FutureDone(r)                                     \* ... AdapterDone
    \/ engine[r].in = "start" /\ inbox[r] # <<>>                                     \* Receive
    \/ backend = "nixl" /\ engine[r].in = "moving"                                   \* ReadDone
\* ... of the broadcast, which all ranks enter, and of Finalize.
AllTakePart == backend = "nccl" /\ engine[0].out = "moving" /\ \A r \in Ranks : engine[r].in = "moving"
Ends == engine[0].pc = "done" /\ consuming = OtherTrainers /\ \A r \in Ranks : adapter[r].pc = "done"

\* Prepare, BuildGroup, or one of the others: in the states of the program, what ENABLED TransferNext comes
\* to, without a subscription that comes late (Connected), which lets nobody else go on.
CanGoOn ==
    \/ phase = "idle" /\ round < Rounds
    \/ phase = "prepared" /\ TopologyFits
    \/ phase = "transfer" /\ (SenderMoves \/ AllTakePart \/ Ends \/ \E r \in Ranks : RankMoves(r))

\* The safety side of EndsUnlessLost.
GoesOn == /\ lost = {} /\ (backend = "nixl" => ranks > 1) /\ ~(phase = "idle" /\ round = Rounds)
          => CanGoOn

LEMMA LeastNumber ==
    ASSUME NEW T, T \subseteq Nat, T # {}
    PROVE  \E n \in T : \A m \in T : n <= m
<1>1. PICK R : R = OpToRel(<, Nat)
  OBVIOUS
<1>2. \E n \in T : \A m \in T : <<m, n>> \notin R
  <2>1. IsWellFoundedOn(R, Nat)
    BY <1>1, NatLessThanWellFounded
  <2> QED
    BY <2>1, WFMin
<1>3. R = {ss \in Nat \X Nat : ss[1] < ss[2]}
  BY <1>1, Zenon DEF OpToRel
<1>4. \A m, n \in Nat : m < n => <<m, n>> \in R
  BY <1>3
<1>5. PICK n \in T : \A m \in T : <<m, n>> \notin R
  BY <1>2
<1>6. \A m \in T : ~(m < n)
  BY <1>4, <1>5, Zenon
<1>7. n \in Nat /\ \A m \in T : m \in Nat
  OBVIOUS
<1>8. \A m \in T : n <= m
  BY <1>6, <1>7
<1> QED
  BY <1>8

\* A number that some have and whose successor has it too, up to a bound: there is none.
LEMMA NoneGoesUp ==
    ASSUME NEW n \in Nat, NEW T, T \subseteq 0..n, \A k \in T : k + 1 \in T
    PROVE  T = {}
<1> SUFFICES ASSUME T # {} PROVE FALSE
  OBVIOUS
<1>1. PICK D : D = {n - k : k \in T}
  OBVIOUS
<1>2. D \subseteq Nat /\ D # {}
  <2>1. \A k \in T : n - k \in Nat
    OBVIOUS
  <2>2. D \subseteq Nat
    BY <1>1, <2>1
  <2>3. PICK k : k \in T
    OBVIOUS
  <2> QED
    BY <1>1, <2>2, <2>3
<1>3. PICK d \in D : \A m \in D : d <= m
  BY <1>2, LeastNumber
<1>4. PICK k \in T : d = n - k
  BY <1>1
<1>5. n - (k + 1) \in D
  BY <1>1
<1>6. d <= n - (k + 1)
  BY <1>3, <1>5
<1> QED
  BY <1>4, <1>6

\* A rank none of whose steps can be taken waits for a bucket, or for one of its own to be received.
LEMMA RankWaits ==
    ASSUME TransferInv, ProgressInv, \A q \in Ranks : ~RankMoves(q), NEW r \in Ranks
    PROVE  /\ adapter[r].pc \in {"fill", "future", "done"} /\ adapter[r].copies = <<>>
           /\ adapter[r].pc = "fill" <=> engine[r].pc # "done"
           /\ engine[r].pc \in {"first", "loop", "tail", "done"}
           /\ engine[r].pc \in {"first", "loop"} <=> engine[r].in # "none"
           /\ engine[r].in \in {"none", "start", "moving", "done"}
           /\ engine[r].in = "start" => inbox[r] = <<>>
           /\ engine[r].in = "done" \/ engine[r].pc = "tail" => ~Ready(r)
           /\ backend = "nixl" => engine[r].in # "moving"
<1>1. TypeInv /\ RankInv(r) /\ engine[r] \in Engines /\ adapter[r] \in Adapters /\ worker[r] \in Workers
  BY InRanks
<1>2. EngineOK(engine[r], adapter[r], worker[r], buffers[r], round)
  BY <1>1 DEF RankInv, RankOK
<1>3. PICK b, c : AdapterOK(adapter[r], worker[r], b, c, round)
  BY <1>1 DEF RankInv, RankOK
<1>4. adapter[r].copies = <<>> /\ Synchronized(r)
  BY DEF RankMoves, Synchronized
<1>5. adapter[r].pc \notin {"idle", "attach"}
  <2>1. adapter[r].pc # "idle"
    BY DEF RankMoves
  <2>2. ASSUME adapter[r].pc = "attach" PROVE FALSE
    <3>1. PICK l \in Ranks : Leader(l) /\ r \in Replica(l)
      BY <1>1, HasLeader
    <3>2. adapter[l].pc # "idle"
      BY DEF RankMoves
    <3>3. worker[r].pc # "off"
      BY <3>1, <3>2 DEF ProgressInv, CalledInv
    <3>4. worker[r].pc = "called"
      BY <1>3, <2>2, <3>3 DEF AdapterOK
    <3> QED
      BY <2>2, <3>4 DEF RankMoves
  <2> QED
    BY <2>1, <2>2
<1>6. adapter[r].pc \notin {"reply", "lastReply"}
  <2> SUFFICES ASSUME adapter[r].pc \in {"reply", "lastReply"} PROVE FALSE
    OBVIOUS
  <2>1. worker[r].pc \in {"off", "called", "waiting", "load", "loaded"}
    BY <1>1 DEF Workers
  <2>2. worker[r].pc \notin {"off", "called", "loaded"}
    BY <1>3 DEF AdapterOK
  <2>3. worker[r].pc \notin {"waiting", "load"}
    BY DEF RankMoves
  <2> QED
    BY <2>1, <2>2, <2>3
<1>7. adapter[r].pc \in {"fill", "future", "done"}
  BY <1>1, <1>5, <1>6 DEF Adapters
<1>8. /\ engine[r].pc \in {"first", "loop", "tail", "done"}
      /\ adapter[r].pc \in {"future", "done"} => engine[r].pc = "done"
      /\ engine[r].pc \in {"first", "loop"} => engine[r].in \in {"start", "moving", "done"}
      /\ engine[r].pc \notin {"first", "loop"} => engine[r].in = "none"
      /\ engine[r].pos <= Len(engine[r].meta) + 1
  BY <1>2, <1>5 DEF EngineOK
<1>9. engine[r].pc = "done" => adapter[r].pc # "fill"
  BY <1>4 DEF RankMoves
<1>10. engine[r].in = "start" => inbox[r] = <<>>
  BY DEF RankMoves
<1>11. backend = "nixl" => engine[r].in # "moving"
  BY DEF RankMoves
<1>12. engine[r].pos \in Nat /\ Len(engine[r].meta) \in Nat
  BY <1>1, RankFields
\* what can be yielded is yielded
<1>13. ASSUME engine[r].pc \in {"loop", "tail"}, engine[r].in # "start"
       PROVE  engine[r].pos > Len(engine[r].meta)
  <2>1. adapter[r].pc = "fill"
    BY <1>7, <1>8, <1>13
  <2>2. ~MayYield(r)
    BY <1>4, <2>1 DEF RankMoves
  <2> QED
    BY <1>12, <1>13, <2>2 DEF MayYield
<1>14. engine[r].in = "done" => ~Ready(r)
  <2> SUFFICES ASSUME engine[r].in = "done" PROVE ~Ready(r)
    OBVIOUS
  <2>1. engine[r].pc \in {"first", "loop"}
    BY <1>8
  <2>2. MaySwap(r)
    BY <1>4, <1>13, <2>1 DEF MaySwap
  <2> QED
    BY <2>2 DEF RankMoves
<1>15. engine[r].pc = "tail" => ~Ready(r)
  <2> SUFFICES ASSUME engine[r].pc = "tail" PROVE ~Ready(r)
    OBVIOUS
  <2>1. engine[r].pos > Len(engine[r].meta)
    BY <1>8, <1>13
  <2> QED
    BY <2>1 DEF RankMoves
<1> QED
  BY <1>4, <1>7, <1>8, <1>9, <1>10, <1>11, <1>14, <1>15

\* A process whose announcement has not been received: a rank it announced to has not begun to
\* receive it, and waits in turn for its own announcement to be received.
LEMMA BlockedNext ==
    ASSUME TransferInv, ProgressInv, lost = {}, ~SenderMoves, ~AllTakePart, \A q \in Ranks : ~RankMoves(q),
           NEW p \in 0..ranks, ~Ready(p)
    PROVE  p + 1 \in 0..ranks /\ ~Ready(p + 1)
<1>1. /\ TypeInv /\ AbsentInv /\ OutInv(p) /\ p \in Processes /\ engine[p] \in Engines /\ p \in Nat
      /\ ranks \in Nat \ {0} /\ backend \in {"nccl", "nixl"}
  <2>1. TypeInv /\ ranks \in 1..MaxRanks
    BY DEF TransferInv, TypeInv
  <2>2. p \in Processes /\ 0..ranks \subseteq Processes
    BY <2>1, RanksAssumption DEF Processes
  <2> QED
    BY <2>1, <2>2, RanksAssumption DEF TransferInv, TypeInv
<1>2. engine[p].out # "none" /\ ~Complete(p)
  BY DEF Ready, Announces
\* a rank to which p announced, and which does not receive yet
<1>3. ASSUME NEW r \in Ranks, Source(r) = p, engine[p].out = "moving", notes[p] = <<>>, engine[r].in # "moving"
      PROVE  ~Ready(r)
  <2>1. FlowOK(Closed(engine[p]), "moving", engine[p].sent.last, <<>>, inbox[r], engine[r].in,
               Ended(engine[r]), r \in lost)
    BY <1>3, Zenon DEF ProgressInv, LinksInv, FlowInv
  <2>2. inbox[r] # <<>>
    <3>1. r \notin lost
      OBVIOUS
    <3> QED
      BY <1>3, <2>1, <3>1, Zenon DEF FlowOK
  <2>3. ~Ended(engine[r])
    BY <1>3, <2>1 DEF FlowOK, OnTheWay
  <2>4. engine[r].pc \notin {"tail", "done"}
    BY <2>3 DEF Ended
  <2> QED
    BY <1>3, <2>2, <2>4, RankWaits
<1>4. CASE backend = "nccl"
  <2>1. \A r \in Ranks : engine[r].out = "none" /\ Source(r) = 0
    BY <1>4, InRanks DEF OutInv, Forwards, Source
  <2>2. p = 0
    BY <1>1, <1>2, <1>4 DEF OutInv, Forwards
  <2>3. engine[0].out \in Moves /\ engine[0].out \notin {"none", "done", "start"}
    BY <1>1, <1>2, <1>4, <2>2 DEF Complete, SenderMoves, Engines, EngineRecords
  <2>4. engine[0].out = "moving" /\ notes[0] = <<>>
    BY <1>1, <1>4, <2>2, <2>3 DEF Moves, AbsentInv
  <2>5. PICK r \in Ranks : engine[r].in # "moving"
    BY <1>4, <2>4 DEF AllTakePart
  <2>6. ~Ready(r)
    BY <1>3, <2>1, <2>2, <2>4, <2>5
  <2> QED
    BY <2>1, <2>6 DEF Ready, Announces
<1>5. CASE backend = "nixl"
  <2>1. engine[p].out = "moving" /\ notes[p] = <<>>
    BY <1>2, <1>5 DEF ProgressInv, LinksInv, NoteInv, Complete
  <2>2. p + 1 \in Ranks /\ Source(p + 1) = p
    BY <1>1, <1>2, <1>5 DEF OutInv, Forwards, HasNext, Ranks, Source
  <2>3. engine[p + 1].in # "moving"
    BY <1>5, <2>2, RankWaits
  <2>4. ~Ready(p + 1)
    BY <1>3, <2>1, <2>2, <2>3
  <2> QED
    BY <2>2, <2>4 DEF Ranks
<1> QED
  BY <1>1, <1>4, <1>5

\* Nobody waits for an announcement to be received when nothing else can be done.
LEMMA NobodyBlocked ==
    ASSUME TransferInv, ProgressInv, lost = {}, ~SenderMoves, ~AllTakePart, \A q \in Ranks : ~RankMoves(q)
    PROVE  \A p \in 0..ranks : Ready(p)
<1>1. PICK T : T = {p \in 0..ranks : ~Ready(p)}
  OBVIOUS
<1>2. ranks \in Nat
  BY RanksAssumption DEF TransferInv, TypeInv
<1>3. T \subseteq 0..ranks /\ \A p \in T : p + 1 \in T
  BY <1>1, BlockedNext
<1>4. T = {}
  BY <1>2, <1>3, NoneGoesUp
<1> QED
  BY <1>1, <1>4

\* Then the sender has returned, ...
LEMMA SenderReturned ==
    ASSUME TransferInv, ~SenderMoves, Ready(0), consuming \subseteq OtherTrainers
    PROVE  engine[0].pc = "done" /\ consuming = OtherTrainers
<1>1. SenderInv /\ TypeInv
  BY DEF TransferInv
<1>2. engine[0].pc \in {"idle", "send", "closing", "done"} /\ next \in 1 .. NumParams + 1 /\ NumParams \in Nat
  BY <1>1, SizesAre DEF SenderInv, SenderOK, TypeInv
<1>3. consuming = OtherTrainers
  BY DEF SenderMoves
<1>4. engine[0].pc # "idle" /\ engine[0].pc # "closing"
  BY DEF SenderMoves
<1>5. ASSUME engine[0].pc = "send" PROVE FALSE
  <2>1. CASE next <= NumParams
    BY <1>3, <1>5, <2>1 DEF SenderMoves, Gathered
  <2>2. CASE next > NumParams
    BY <1>5, <2>2 DEF SenderMoves
  <2> QED
    BY <1>2, <2>1, <2>2
<1> QED
  BY <1>2, <1>3, <1>4, <1>5

\* ... a rank that receives from one that has returned has returned, ...
LEMMA ReturnedNext ==
    ASSUME TransferInv, ProgressInv, \A q \in Ranks : ~RankMoves(q), \A q \in 0..ranks : Ready(q),
           NEW r \in Ranks, engine[Source(r)].pc = "done"
    PROVE  engine[r].pc = "done"
<1>1. TypeInv /\ RankInv(r) /\ r \in 0..ranks /\ LinkInv(r) /\ Source(r) \in 0..ranks
  BY InRanks, SourceIs
<1>2. engine[Source(r)].out = "none"
  <2>1. CASE Source(r) = 0
    BY <2>1 DEF TransferInv, SenderInv, SenderOK
  <2>2. CASE Source(r) # 0
    <3>1. Source(r) \in Ranks
      BY <1>1, <2>2 DEF Ranks, TypeInv
    <3>2. RankInv(Source(r))
      BY <3>1, InRanks
    <3> QED
      BY <3>2 DEF RankInv, RankOK, EngineOK
  <2> QED
    BY <2>1, <2>2
<1>3. Ended(engine[r])
  <2>1. FlowOK(Closed(engine[Source(r)]), "none", engine[Source(r)].sent.last, notes[Source(r)], inbox[r],
               engine[r].in, Ended(engine[r]), r \in lost)
    BY <1>2, Zenon DEF ProgressInv, LinksInv, FlowInv
  <2>2. Closed(engine[Source(r)]) /\ ~OnTheWay("none", notes[Source(r)], engine[r].in)
    BY DEF Closed, OnTheWay
  <2> QED
    BY <2>1, <2>2, Zenon DEF FlowOK
<1>4. engine[r].in # "moving"
  BY <1>1, <1>2 DEF LinkInv, LinkOK
<1>5. engine[r].in # "done" /\ engine[r].pc # "tail"
  BY <1>1, RankWaits
<1> QED
  BY <1>3, <1>4, <1>5 DEF Ended

LEMMA AllReturned ==
    ASSUME TransferInv, ProgressInv, \A q \in Ranks : ~RankMoves(q), \A q \in 0..ranks : Ready(q),
           engine[0].pc = "done"
    PROVE  \A r \in Ranks : engine[r].pc = "done"
<1>1. TypeInv /\ ranks \in Nat \ {0}
  BY RanksAssumption DEF TransferInv, TypeInv
<1>2. PICK T : T = {r \in Ranks : engine[r].pc # "done"}
  OBVIOUS
<1>3. ASSUME T # {} PROVE FALSE
  <2>1. T \subseteq Nat
    BY <1>1, <1>2 DEF Ranks
  <2>2. PICK r \in T : \A q \in T : r <= q
    BY <1>3, <2>1, LeastNumber
  <2>3. r \in Ranks /\ engine[r].pc # "done"
    BY <1>2
  <2>4. Source(r) \in 0..ranks /\ Source(r) < r
    BY <1>1, <2>3 DEF Source, Ranks
  <2>5. engine[Source(r)].pc = "done"
    <3>1. CASE Source(r) = 0
      BY <3>1
    <3>2. CASE Source(r) # 0
      <4>1. Source(r) \in Ranks /\ Source(r) \notin T
        BY <1>1, <2>1, <2>2, <2>3, <2>4, <3>2 DEF Ranks
      <4> QED
        BY <1>2, <4>1
    <3> QED
      BY <3>1, <3>2
  <2> QED
    BY <2>3, <2>5, ReturnedNext
<1> QED
  BY <1>2, <1>3

\* ... and every worker has loaded its last bucket.
LEMMA AllAdaptersDone ==
    ASSUME TransferInv, ProgressInv, \A q \in Ranks : ~RankMoves(q), \A q \in Ranks : engine[q].pc = "done"
    PROVE  \A r \in Ranks : adapter[r].pc = "done"
<1>1. \A q \in Ranks : adapter[q].pc \in {"future", "done"}
  BY RankWaits
<1>2. ASSUME NEW q \in Ranks PROVE worker[q].pc = "loaded"
  <2>1. PICK b, c : AdapterOK(adapter[q], worker[q], b, c, round)
    BY InRanks DEF RankInv, RankOK
  <2>2. worker[q].pc = "loaded" \/ worker[q].pc = "load"
    BY <1>1, <2>1 DEF AdapterOK
  <2> QED
    BY <2>2 DEF RankMoves
<1>3. ASSUME NEW r \in Ranks PROVE adapter[r].pc = "done"
  <2>1. FutureDone(r)
    BY <1>2 DEF FutureDone, Replica
  <2> QED
    BY <1>1, <2>1 DEF RankMoves
<1> QED
  BY <1>3

LEMMA TransferGoesOn ==
    ASSUME TransferInv, ProgressInv, lost = {}
    PROVE  SenderMoves \/ AllTakePart \/ Ends \/ \E r \in Ranks : RankMoves(r)
<1> SUFFICES ASSUME ~SenderMoves, ~AllTakePart, \A r \in Ranks : ~RankMoves(r) PROVE Ends
  OBVIOUS
<1>1. \A p \in 0..ranks : Ready(p)
  BY NobodyBlocked
<1>2. engine[0].pc = "done" /\ consuming = OtherTrainers
  <2>1. 0 \in 0..ranks
    BY RanksAssumption DEF TransferInv, TypeInv
  <2> QED
    BY <1>1, <2>1, SenderReturned DEF ProgressInv
<1>3. \A r \in Ranks : engine[r].pc = "done"
  BY <1>1, <1>2, AllReturned
<1>4. \A r \in Ranks : adapter[r].pc = "done"
  BY <1>3, AllAdaptersDone
<1> QED
  BY <1>2, <1>4 DEF Ends

\* No update gets stuck, with either engine, for any number of ranks and replicas and any weights:
\* unless nccl's socket dropped a message, or nixl refuses the topology of a single rollout rank, the
\* manager, the sender, a rank, its adapter or its worker can go on until the last update has ended.
THEOREM NoUpdateGetsStuck == TransferSpec => []GoesOn
<1>1. TransferInv /\ ProgressInv => GoesOn
  <2> SUFFICES ASSUME TransferInv, ProgressInv, lost = {}, backend = "nixl" => ranks > 1,
                      ~(phase = "idle" /\ round = Rounds)
               PROVE  CanGoOn
    BY DEF GoesOn
  <2>1. TypeInv /\ Rounds \in Nat /\ phase \in {"idle", "prepared", "transfer"}
    BY RoundsAssumption DEF TransferInv, TypeInv
  <2>2. CASE phase = "idle"
    <3>1. round < Rounds
      BY <2>1, <2>2 DEF TypeInv
    <3> QED
      BY <2>2, <3>1 DEF CanGoOn
  <2>3. CASE phase = "prepared"
    <3>1. TopologyFits
      BY <2>1 DEF TopologyFits, NextAgents, TypeInv
    <3> QED
      BY <2>3, <3>1 DEF CanGoOn
  <2>4. CASE phase = "transfer"
    BY <2>4, TransferGoesOn DEF CanGoOn
  <2> QED
    BY <2>1, <2>2, <2>3, <2>4
<1> QED
  BY <1>1, ProgressAlways, PTL

=============================================================================
