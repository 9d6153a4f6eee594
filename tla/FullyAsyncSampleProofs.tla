----------------------- MODULE FullyAsyncSampleProofs -----------------------
(***************************************************************************)
(* Where the samples are.  EachSampleOnce counts the places a sample is in *)
(* with Cardinality; PlacesOf counts them as a sum of nine terms, which a  *)
(* step changes in at most two.  That the sum stays 0 or 1 needs queues    *)
(* without repeats (the head leaves the queue for good) and an empty hand  *)
(* when the processor takes a sample.                                      *)
(*                                                                         *)
(* OutstandingBound follows from what the recount can miss: see RecountInv.*)
(*                                                                         *)
(* BoundedStaleness measures time by the samples the trainer has taken:    *)
(* see Progress and Latest.                                                *)
(*                                                                         *)
(* SynchronousTraining is the case of no staleness: see OneWindowInv.      *)
(*                                                                         *)
(* NothingLost: the processor takes DONE last, and the end marker finds    *)
(* room behind all samples: see FinishInv and MarkerInv.                   *)
(*                                                                         *)
(* ProcessorSurvives follows the first turns of the event loop up to the   *)
(* first asyncio.wait: see FirstWait.                                      *)
(***************************************************************************)
EXTENDS FullyAsyncProofs

\* No sample stands twice in a queue; the end marker may.
NoRepeats(q) == \A i, j \in 1..Len(q) : q[i] = q[j] /\ q[i] # NoSample => i = j

One(p) == IF p THEN 1 ELSE 0
\* the number of places sample s is in
PlacesOf(s) == One(s \in Range(pending_queue)) + One(hand = s) + One(stage[s] \in {"new", "call", "gen", "cut", "put"})
               + One(s \in Range(cancel_queue)) + One(s \in Range(queue)) + One(s \in batch)
               + One(s \in trained) + One(s \in dropped) + One(s \in failed)

QueuesInv == NoRepeats(pending_queue) /\ NoRepeats(cancel_queue) /\ NoRepeats(queue)
CountInv == \A s \in Samples : PlacesOf(s) = IF s <= fed THEN 1 ELSE 0
\* The processor holds a sample only on the way to submitting it.
HandInv == hand # NoSample =>
             /\ reaping = "limit"
             /\ procPc \in {"reap", "reapLocked", "reapWait", "submit", "submitting",
                            "submitWoken", "crashed"}

PlaceInv == QueuesInv /\ CountInv /\ HandInv

placeVars == <<fed, pending_queue, hand, stage, cancel_queue, queue, batch, trained, dropped, failed>>

-----------------------------------------------------------------------------
\* Queues

\* A queue that loses its head holds no more samples than before.
LEMMA TailRange ==
    ASSUME NEW S, NEW q \in Seq(S), q # <<>>
    PROVE  Range(Tail(q)) \subseteq Range(q) /\ Head(q) \in Range(q)
<1>1. Tail(q) \in Seq(S)
    OBVIOUS
<1>2. PICK t \in Seq(S) : t = Tail(q)
    BY <1>1, Zenon
<1>3. /\ Len(q) \in Nat /\ Len(q) > 0 /\ Len(t) = Len(q) - 1 /\ DOMAIN t = 1..Len(t)
      /\ DOMAIN q = 1..Len(q) /\ Head(q) = q[1]
    BY <1>2
<1>4. ASSUME NEW i \in 1..Len(t)
      PROVE  i + 1 \in 1..Len(q) /\ t[i] = q[i + 1]
    BY <1>2, <1>3
<1> QED
    BY <1>2, <1>3, <1>4 DEF Range

\* Appending adds the sample to those in the queue.
LEMMA AppendRange ==
    ASSUME NEW S, NEW q \in Seq(S), NEW x \in S
    PROVE  Range(Append(q, x)) = Range(q) \union {x}
<1>1. Append(q, x) \in Seq(S)
    OBVIOUS
<1>2. PICK a \in Seq(S) : a = Append(q, x)
    BY <1>1, Zenon
<1>3. /\ Len(q) \in Nat /\ Len(a) = Len(q) + 1 /\ DOMAIN a = 1..Len(a) /\ DOMAIN q = 1..Len(q)
      /\ \A i \in 1..Len(q) : a[i] = q[i] /\ i \in 1..Len(a)
      /\ a[Len(q) + 1] = x /\ Len(q) + 1 \in 1..Len(a)
    BY <1>2
<1>4. \A i \in 1..Len(a) : i = Len(q) + 1 \/ i \in 1..Len(q)
    BY <1>3
<1> QED
    BY <1>2, <1>3, <1>4 DEF Range

\* A queue holds no more samples than its length.
LEMMA RangeAtMost ==
    ASSUME NEW S, NEW q \in Seq(S)
    PROVE  IsFiniteSet(Range(q)) /\ Cardinality(Range(q)) <= Len(q) /\ Cardinality(Range(q)) \in Nat
<1>1. Len(q) \in Nat /\ DOMAIN q = 1..Len(q) /\ q \in [1..Len(q) -> S]
    OBVIOUS
<1>2. IsFiniteSet(1..Len(q)) /\ Cardinality(1..Len(q)) = Len(q)
    BY <1>1, FS_Interval
<1>3. q \in Surjection(1..Len(q), Range(q))
    BY <1>1 DEF Surjection, Range
<1>4. IsFiniteSet(Range(q)) /\ Cardinality(Range(q)) <= Cardinality(1..Len(q))
    BY <1>2, <1>3, FS_Surjection
<1> QED
    BY <1>2, <1>4, FS_CardinalityType

\* Two finite sets together have at most as many elements as both.
LEMMA TwoSets ==
    ASSUME NEW S, NEW T, IsFiniteSet(S), IsFiniteSet(T)
    PROVE  /\ IsFiniteSet(S \union T) /\ Cardinality(S \union T) \in Nat
           /\ Cardinality(S \union T) <= Cardinality(S) + Cardinality(T)
<1>1. IsFiniteSet(S \union T) /\ IsFiniteSet(S \cap T)
    BY FS_Union, FS_Subset
<1>2. Cardinality(S \union T) = Cardinality(S) + Cardinality(T) - Cardinality(S \cap T)
    BY FS_Union
<1>3. Cardinality(S) \in Nat /\ Cardinality(T) \in Nat /\ Cardinality(S \union T) \in Nat
      /\ Cardinality(S \cap T) \in Nat
    BY <1>1, FS_CardinalityType
<1> QED
    BY <1>1, <1>2, <1>3

\* Taking the head of a queue without repeats removes that sample and no other.
LEMMA AfterTail ==
    ASSUME NEW S, NEW q \in Seq(S), q # <<>>, NoRepeats(q)
    PROVE  /\ NoRepeats(Tail(q))
           /\ Head(q) \in Range(q)
           /\ \A s : s # NoSample => (s \in Range(Tail(q)) <=> s \in Range(q) /\ s # Head(q))
<1>1. /\ Tail(q) \in Seq(S) /\ Len(q) \in Nat /\ Len(q) > 0 /\ Len(Tail(q)) = Len(q) - 1
      /\ \A i \in 1..Len(Tail(q)) : Tail(q)[i] = q[i + 1]
      /\ Head(q) = q[1]
    OBVIOUS
<1>2. PICK t \in Seq(S) : t = Tail(q)
    BY <1>1
<1>3. Len(t) = Len(q) - 1 /\ DOMAIN t = 1..Len(t) /\ DOMAIN q = 1..Len(q)
    BY <1>1, <1>2
<1>4. ASSUME NEW i \in 1..Len(t)
      PROVE  i + 1 \in 1..Len(q) /\ t[i] = q[i + 1]
    BY <1>1, <1>2, <1>3
<1>5. NoRepeats(t)
  <2> SUFFICES ASSUME NEW i \in 1..Len(t), NEW j \in 1..Len(t), t[i] = t[j], t[i] # NoSample
               PROVE  i = j
      BY DEF NoRepeats
  <2>1. i + 1 \in 1..Len(q) /\ j + 1 \in 1..Len(q) /\ q[i + 1] = q[j + 1] /\ q[i + 1] # NoSample
      BY <1>4
  <2>2. i + 1 = j + 1
      BY <2>1 DEF NoRepeats
  <2> QED
      BY <2>2
<1>6. Head(q) \in Range(q)
    BY <1>1, <1>3 DEF Range
<1>7. ASSUME NEW s, s # NoSample, s \in Range(t)
      PROVE  s \in Range(q) /\ s # Head(q)
  <2>1. PICK i \in 1..Len(t) : s = t[i]
      BY <1>3, <1>7 DEF Range
  <2>2. i + 1 \in 1..Len(q) /\ s = q[i + 1]
      BY <1>4, <2>1
  <2>3. q[1] # q[i + 1]
      BY <1>1, <1>7, <2>2 DEF NoRepeats
  <2> QED
      BY <1>1, <1>3, <2>2, <2>3 DEF Range
<1>8. ASSUME NEW s, s \in Range(q), s # Head(q)
      PROVE  s \in Range(t)
  <2>1. PICK i \in 1..Len(q) : s = q[i]
      BY <1>3, <1>8 DEF Range
  <2>2. i # 1
      BY <1>1, <1>8, <2>1
  <2>3. i - 1 \in 1..Len(t) /\ i - 1 + 1 = i
      BY <1>1, <1>3, <2>2
  <2>4. t[i - 1] = q[i - 1 + 1]
      BY <1>4, <2>3
  <2>5. t[i - 1] = s
      BY <2>1, <2>3, <2>4
  <2> QED
      BY <1>3, <2>3, <2>5 DEF Range
<1> QED
    BY <1>2, <1>5, <1>6, <1>7, <1>8

\* Appending a sample a queue does not hold adds that sample and no other.
LEMMA AfterAppend ==
    ASSUME NEW S, NEW q \in Seq(S), NEW x \in S, NoRepeats(q), x # NoSample => x \notin Range(q)
    PROVE  /\ NoRepeats(Append(q, x))
           /\ \A s : s \in Range(Append(q, x)) <=> s \in Range(q) \/ s = x
<1>1. Append(q, x) \in Seq(S)
    OBVIOUS
<1>2. PICK a \in Seq(S) : a = Append(q, x)
    BY <1>1, Zenon
<1>3. /\ Len(q) \in Nat /\ Len(a) = Len(q) + 1 /\ DOMAIN a = 1..Len(a) /\ DOMAIN q = 1..Len(q)
      /\ \A i \in 1..Len(q) : a[i] = q[i]
      /\ a[Len(q) + 1] = x
    BY <1>2
<1>4. \A i \in 1..Len(a) : i = Len(q) + 1 \/ i \in 1..Len(q)
    BY <1>3
<1>5. \A i \in 1..Len(q) : q[i] \in Range(q) /\ i \in 1..Len(a)
    BY <1>3 DEF Range
<1>6. NoRepeats(a)
  <2> SUFFICES ASSUME NEW i \in 1..Len(a), NEW j \in 1..Len(a), a[i] = a[j], a[i] # NoSample
               PROVE  i = j
      BY DEF NoRepeats
  <2>1. CASE i \in 1..Len(q) /\ j \in 1..Len(q)
      BY <1>3, <2>1 DEF NoRepeats
  <2>2. CASE i = Len(q) + 1 /\ j \in 1..Len(q)
      BY <1>3, <1>5, <2>2
  <2>3. CASE i \in 1..Len(q) /\ j = Len(q) + 1
      BY <1>3, <1>5, <2>3
  <2> QED
      BY <1>4, <2>1, <2>2, <2>3
<1> QED
    BY <1>2, <1>6, AppendRange

-----------------------------------------------------------------------------
\* Steps that move no sample

\* A step that leaves the places alone keeps what is known of them.
LEMMA NothingMoves ==
    ASSUME QueuesInv, CountInv, UNCHANGED placeVars
    PROVE  QueuesInv' /\ CountInv'
<1>1. /\ fed' = fed /\ pending_queue' = pending_queue /\ hand' = hand /\ stage' = stage
      /\ cancel_queue' = cancel_queue /\ queue' = queue /\ batch' = batch
      /\ trained' = trained /\ dropped' = dropped /\ failed' = failed
    BY DEF placeVars
<1>2. QueuesInv'
    BY <1>1 DEF QueuesInv
<1>3. ASSUME NEW s \in Samples
      PROVE  PlacesOf(s)' = IF s <= fed' THEN 1 ELSE 0
    BY <1>1 DEF CountInv, PlacesOf
<1> QED
    BY <1>2, <1>3 DEF CountInv

\* The monitor, the main coroutine and the remote calls, but for what the servers cut, move no sample.
LEMMA LoopsMoveNothing ==
    ASSUME UNCHANGED trainerVars,
           Monitor \/ MonTimer \/ Main \/ Pause \/ ClearReply \/ Update \/ SizeReply
             \/ ValidateReply \/ Resume \/ ServersReply
    PROVE  UNCHANGED placeVars
<1> USE DEF placeVars, sampleVars, taskVars, procVars, queueVars, mqVars, trainerVars
<1>1. CASE Monitor \/ MonTimer
    BY <1>1 DEF Monitor, MonLock, MonTest, MonTimer, MonDecide, MonSkip, MonKick, monFrame
<1>2. CASE Main
    BY <1>2 DEF Main, MainFinish, MainLock, MainStop, mainFrame
<1>3. CASE Pause \/ ClearReply
    BY <1>3 DEF Pause, PauseLock, PauseBegin, PauseGather, PauseGathered, ClearReply, PauseDone,
       pauseFrame
<1>4. CASE Update \/ SizeReply \/ ValidateReply
    BY <1>4 DEF Update, UpdateLock, UpdateCount, SizeReply, UpdateAssign, ValidateReply,
       UpdateDone, updateFrame
<1>5. CASE Resume \/ ServersReply
    BY <1>5 DEF Resume, ResumeLock, ResumeBegin, ServersReply, ResumeDone, resumeFrame
<1> QED
    BY <1>1, <1>2, <1>3, <1>4, <1>5

\* The steps of the processor that move a sample, and the others.
ProcessorMoves == ProcTakePending \/ ProcTakeCancelled \/ ProcSubmit

\* The other steps of the processor move no sample.
LEMMA ProcessorOtherwise ==
    ASSUME UNCHANGED trainerVars, Processor, ~ProcessorMoves
    PROVE  UNCHANGED placeVars
BY DEF placeVars, sampleVars, taskVars, procFrame, procVars, queueVars, mqVars, trainerVars, ProcessorMoves,
   Processor, ProcPause, ProcMark, ProcReapLock, ProcReapWait, ProcReapNothing, ProcReap,
   ProcFinished, ProcReaped, ProcSleep, ProcWoken, ProcRestart, ProcAwaitPending

\* Of the trainer's steps only those below move a sample.
LEMMA TrainerOtherwise ==
    ASSUME Trainer \/ Synchronizer, ~TrainerGet, ~TrainerGetNone, ~TrainerTrain
    PROVE  UNCHANGED placeVars
BY DEF placeVars, sampleVars, taskVars, procVars, queueVars, mqVars, trainerVars, rollouterInside,
   Trainer, TrainerWait, TrainerDrained, TrainerEnd, Synchronizer, SyncPause, SyncWeights, SyncDone,
   WaitSample, UpdateMQVersion, StartSync

-----------------------------------------------------------------------------
\* The processor's hand

\* Whatever runs, the processor holds a sample only between taking and submitting it.
LEMMA HandStep ==
    ASSUME TypeOK, HandInv, [Next]_vars
    PROVE  HandInv'
<1>1. CASE UNCHANGED procVars
    BY <1>1 DEF HandInv, procVars
<1>2. CASE Monitor \/ Resume
  <2>1. UNCHANGED <<hand, reaping>>
      BY <1>2 DEF Monitor, MonLock, MonTest, MonDecide, MonSkip, MonKick, monFrame, Resume,
         ResumeLock, ResumeBegin, ResumeDone, resumeFrame
  <2>2. procPc' = procPc \/ NotifyAll
      BY <1>2 DEF Monitor, MonLock, MonTest, MonDecide, MonSkip, MonKick, Resume,
         ResumeLock, ResumeBegin, ResumeDone
  <2>3. procPc' = procPc \/ (procPc = "submitting" /\ procPc' = "submitWoken")
           \/ (procPc = "sleeping" /\ procPc' = "sleepWoken")
      BY <2>2 DEF NotifyAll
  <2> QED
      BY <2>1, <2>3 DEF HandInv
<1>3. CASE Processor
  <2> USE DEF HandInv, ProcGoto, procFrame
  <2>1. CASE ProcPause \/ ProcMark \/ ProcReapLock \/ ProcReapWait \/ ProcReapNothing \/ ProcReap
      BY <2>1 DEF ProcPause, ProcMark, ProcReapLock, ProcReapWait, ProcReapNothing, ProcReap
  <2>2. CASE ProcFinished \/ ProcReaped \/ ProcSleep \/ ProcWoken \/ ProcRestart \/ ProcAwaitPending
      BY <2>2 DEF ProcFinished, ProcReaped, ProcSleep, ProcWoken, ProcRestart, ProcAwaitPending
  <2>3. CASE ProcessorMoves
      BY <2>3 DEF ProcessorMoves, ProcTakePending, ProcTakeCancelled, ProcSubmit
  <2> QED
      BY <1>3, <2>1, <2>2, <2>3 DEF Processor, ProcessorMoves
<1>4. CASE Feed \/ MonTimer \/ MainSentinel \/ Main
    BY <1>1, <1>4 DEF Feed, FeedSample, FeedDone, FeedItem, MonTimer, monFrame, MainSentinel, Main,
       MainFinish, MainLock, MainStop, mainFrame, procVars
<1>5. CASE TaskBegins \/ \E s \in Samples : Task(s) \/ TaskRaises(s)
    BY <1>1, <1>5 DEF TaskBegins, Task, TaskArrives, TaskGenerated, TaskPut, TaskReturned,
       TaskCancelled, TaskRaises, taskFrame
<1>6. CASE Pause \/ CancelReply \/ ClearReply
    BY <1>1, <1>6 DEF Pause, PauseLock, PauseBegin, PauseGather, PauseGathered, ClearReply,
       CancelReply, PauseDone, pauseFrame
<1>7. CASE Update \/ SizeReply \/ ValidateReply
    BY <1>1, <1>7 DEF Update, UpdateLock, UpdateCount, SizeReply, UpdateAssign, ValidateReply,
       UpdateDone, updateFrame
<1>8. CASE ServersReply
    BY <1>1, <1>8 DEF ServersReply, resumeFrame, procVars
<1>9. CASE Trainer \/ Synchronizer
    BY <1>1, <1>9 DEF Trainer, TrainerWait, TrainerGet, TrainerGetNone, TrainerTrain,
       TrainerDrained, TrainerEnd, Synchronizer, SyncPause, SyncWeights, SyncDone, rollouterInside
<1>10. CASE UNCHANGED vars
    BY <1>1, <1>10 DEF vars, rollouterVars
<1> QED
    BY <1>2, <1>3, <1>4, <1>5, <1>6, <1>7, <1>8, <1>9, <1>10, NextCases DEF Reply

-----------------------------------------------------------------------------
\* Steps that move a sample

\* The types the lemmas below use.
LEMMA PlaceTypes ==
    ASSUME TypeOK
    PROVE  /\ pending_queue \in Seq(Samples \union {NoSample}) /\ cancel_queue \in Seq(Samples)
           /\ cancel_queue \in Seq(Samples \union {NoSample})
           /\ queue \in Seq(Samples \union {NoSample}) /\ fed \in Nat
           /\ hand \in Samples \union {NoSample} /\ NoSample \notin Samples
           /\ stage \in [Samples -> {"none", "new", "call", "gen", "cut", "put", "ret"}]
           /\ \A s \in Samples : s \in Int
<1>1. NoSample \notin Samples /\ \A s \in Samples : s \in Int
    BY DEF Samples, NoSample
<1>2. cancel_queue \in Seq(Samples) => cancel_queue \in Seq(Samples \union {NoSample})
    OBVIOUS
<1> QED
    BY <1>1, <1>2 DEF TypeOK, RollouterTypeOK, SampleTypeOK, QueueTypeOK, ProcTypeOK, TaskTypeOK

\* _feed_samples puts the next sample, which is nowhere yet, in pending_queue.
LEMMA FeedMoves ==
    ASSUME TypeOK, QueuesInv, CountInv, Feed, UNCHANGED trainerVars
    PROVE  QueuesInv' /\ CountInv'
<1> USE PlaceTypes
<1>1. /\ UNCHANGED <<hand, stage, cancel_queue, queue, batch, trained, dropped, failed>>
      /\ fed' = fed + 1
    BY DEF Feed, FeedSample, FeedDone, FeedItem, procVars, taskVars, queueVars, mqVars, trainerVars
<1>2. PICK x \in Samples \union {NoSample} :
         /\ pending_queue' = Append(pending_queue, x)
         /\ x = NoSample => fed >= TotalSamples
         /\ x # NoSample => x = fed + 1
  <2>1. CASE FeedSample
    <3>1. fed + 1 \in Samples
        BY <2>1, RolloutAssumption DEF FeedSample, Samples
    <3> QED
        BY <2>1, <3>1 DEF FeedSample, FeedItem
  <2>2. CASE FeedDone
      BY <2>2, RolloutAssumption DEF FeedDone, FeedItem
  <2> QED
      BY <2>1, <2>2 DEF Feed
<1>3. x # NoSample => x \notin Range(pending_queue)
  <2> SUFFICES ASSUME x # NoSample PROVE x \notin Range(pending_queue)
      OBVIOUS
  <2>1. x \in Samples /\ ~(x <= fed)
      BY <1>2
  <2>2. PlacesOf(x) = 0
      BY <2>1 DEF CountInv
  <2> QED
      BY <2>2 DEF PlacesOf, One
<1>4. /\ NoRepeats(pending_queue')
      /\ \A s : s \in Range(pending_queue') <=> s \in Range(pending_queue) \/ s = x
    BY <1>2, <1>3, AfterAppend DEF QueuesInv
<1>5. ASSUME NEW s \in Samples
      PROVE  PlacesOf(s)' = IF s <= fed' THEN 1 ELSE 0
  <2>1. PlacesOf(s) = IF s <= fed THEN 1 ELSE 0
      BY DEF CountInv
  <2>2. s <= TotalSamples
      BY RolloutAssumption DEF Samples
  <2> QED
      BY <1>1, <1>2, <1>4, <2>1, <2>2, RolloutAssumption DEF PlacesOf, One
<1> QED
    BY <1>1, <1>4, <1>5 DEF QueuesInv, CountInv

\* The processor moves one sample to its hand, which is empty, or from it into a task.
LEMMA ProcessorMovesOnce ==
    ASSUME TypeOK, PlaceInv, ProcessorMoves, UNCHANGED trainerVars
    PROVE  QueuesInv' /\ CountInv'
<1> USE PlaceTypes DEF PlaceInv
<1>1. UNCHANGED <<fed, queue, batch, trained, dropped, failed>>
    BY DEF ProcessorMoves, ProcTakePending, ProcTakeCancelled, ProcSubmit, sampleVars, taskVars,
       queueVars, mqVars, trainerVars
<1>2. CASE ProcTakePending
  <2>1. UNCHANGED <<cancel_queue, stage>> /\ hand = NoSample /\ pending_queue # <<>>
        /\ hand' = Head(pending_queue) /\ pending_queue' = Tail(pending_queue)
      BY <1>2 DEF ProcTakePending, taskVars, HandInv
  <2>2. /\ NoRepeats(pending_queue')
        /\ hand' \in Range(pending_queue)
        /\ \A s : s # NoSample => (s \in Range(pending_queue') <=> s \in Range(pending_queue) /\ s # hand')
      BY <2>1, AfterTail DEF QueuesInv
  <2>3. ASSUME NEW s \in Samples
        PROVE  PlacesOf(s)' = IF s <= fed' THEN 1 ELSE 0
    <3>1. PlacesOf(s) = IF s <= fed THEN 1 ELSE 0
        BY DEF CountInv
    <3> QED
        BY <1>1, <2>1, <2>2, <3>1 DEF PlacesOf, One
  <2> QED
      BY <1>1, <2>1, <2>2, <2>3 DEF QueuesInv, CountInv
<1>3. CASE ProcTakeCancelled
  <2>1. UNCHANGED <<pending_queue, stage>> /\ hand = NoSample /\ cancel_queue # <<>>
        /\ hand' = Head(cancel_queue) /\ cancel_queue' = Tail(cancel_queue)
      BY <1>3 DEF ProcTakeCancelled, taskVars, HandInv
  <2>2. /\ NoRepeats(cancel_queue')
        /\ hand' \in Range(cancel_queue)
        /\ \A s : s # NoSample => (s \in Range(cancel_queue') <=> s \in Range(cancel_queue) /\ s # hand')
      BY <2>1, AfterTail DEF QueuesInv
  <2>3. ASSUME NEW s \in Samples
        PROVE  PlacesOf(s)' = IF s <= fed' THEN 1 ELSE 0
    <3>1. PlacesOf(s) = IF s <= fed THEN 1 ELSE 0
        BY DEF CountInv
    <3> QED
        BY <1>1, <2>1, <2>2, <3>1 DEF PlacesOf, One
  <2> QED
      BY <1>1, <2>1, <2>2, <2>3 DEF QueuesInv, CountInv
<1>4. CASE ProcSubmit
  <2>1. UNCHANGED <<pending_queue, cancel_queue>> /\ hand' = NoSample
      BY <1>4 DEF ProcSubmit, sampleVars
  <2>2. ASSUME NEW s \in Samples
        PROVE  PlacesOf(s)' = IF s <= fed' THEN 1 ELSE 0
    <3>1. PlacesOf(s) = IF s <= fed THEN 1 ELSE 0
        BY DEF CountInv
    <3>2. CASE s = hand
      <4>1. stage'[s] = "new"
          BY <1>4, <3>2 DEF ProcSubmit
      <4> QED
          BY <1>1, <2>1, <3>1, <3>2, <4>1 DEF PlacesOf, One
    <3>3. CASE s # hand
      <4>1. stage'[s] = stage[s]
          BY <1>4, <3>3 DEF ProcSubmit
      <4> QED
          BY <1>1, <2>1, <3>1, <3>3, <4>1 DEF PlacesOf, One
    <3> QED
        BY <3>2, <3>3
  <2> QED
      BY <1>1, <2>1, <2>2 DEF QueuesInv, CountInv
<1> QED
    BY <1>2, <1>3, <1>4 DEF ProcessorMoves

\* put_sample: the sample is queued, and the oldest one may be dropped for it.
LEMMA RemotePutMoves ==
    ASSUME TypeOK, QueuesInv, NEW x \in Samples \union {NoSample}, RemotePut(x),
           x # NoSample => x \notin Range(queue)
    PROVE  /\ NoRepeats(queue')
           /\ QueueFull => Head(queue) \in Range(queue)
           /\ \A s \in Samples :
                 /\ s \in Range(queue') <=> s = x \/ (s \in Range(queue) /\ ~(QueueFull /\ s = Head(queue)))
                 /\ s \in dropped' <=> s \in dropped \/ (QueueFull /\ s = Head(queue))
<1> USE PlaceTypes DEF QueuesInv
<1>1. ASSUME NEW s \in Samples
      PROVE  s \in dropped' <=> s \in dropped \/ (QueueFull /\ s = Head(queue))
    BY DEF RemotePut
<1>2. CASE QueueFull
  <2>1. queue # <<>>
      BY <1>2, MessageQueueAssumption DEF QueueFull
  <2>2. Tail(queue) \in Seq(Samples \union {NoSample})
      BY <2>1
  <2>3. PICK t \in Seq(Samples \union {NoSample}) : t = Tail(queue)
      BY <2>2, Zenon
  <2>4. /\ NoRepeats(t) /\ Head(queue) \in Range(queue)
        /\ \A s : s # NoSample => (s \in Range(t) <=> s \in Range(queue) /\ s # Head(queue))
      BY <2>1, <2>3, AfterTail
  <2>5. queue' = Append(t, x)
      BY <1>2, <2>3 DEF RemotePut, PutSample
  <2>6. NoRepeats(queue') /\ \A s : s \in Range(queue') <=> s \in Range(t) \/ s = x
      BY <2>4, <2>5, AfterAppend
  <2> QED
      BY <1>1, <1>2, <2>4, <2>6
<1>3. CASE ~QueueFull
  <2>1. queue' = Append(queue, x)
      BY <1>3 DEF RemotePut, PutSample
  <2>2. NoRepeats(queue') /\ \A s : s \in Range(queue') <=> s \in Range(queue) \/ s = x
      BY <2>1, AfterAppend
  <2> QED
      BY <1>1, <1>3, <2>2
<1> QED
    BY <1>2, <1>3

\* The end marker may drop a sample and is none itself.
LEMMA SentinelMoves ==
    ASSUME TypeOK, QueuesInv, CountInv, MainSentinel, UNCHANGED trainerVars
    PROVE  QueuesInv' /\ CountInv'
<1> USE PlaceTypes
<1>1. UNCHANGED <<fed, pending_queue, hand, stage, cancel_queue, batch, trained, failed>>
    BY DEF MainSentinel, mainFrame, sampleVars, procVars, taskVars, trainerVars
<1>2. /\ NoRepeats(queue')
      /\ QueueFull => Head(queue) \in Range(queue)
      /\ \A s \in Samples :
            /\ s \in Range(queue') <=> s = NoSample \/ (s \in Range(queue) /\ ~(QueueFull /\ s = Head(queue)))
            /\ s \in dropped' <=> s \in dropped \/ (QueueFull /\ s = Head(queue))
    BY RemotePutMoves DEF MainSentinel
<1>3. ASSUME NEW s \in Samples
      PROVE  PlacesOf(s)' = IF s <= fed' THEN 1 ELSE 0
  <2>1. PlacesOf(s) = IF s <= fed THEN 1 ELSE 0
      BY DEF CountInv
  <2> QED
      BY <1>1, <1>2, <2>1 DEF PlacesOf, One
<1> QED
    BY <1>1, <1>2, <1>3 DEF QueuesInv, CountInv

\* A task hands its sample to the queue or to cancel_queue, or fails.
LEMMA TaskMoves ==
    ASSUME TypeOK, QueuesInv, CountInv, UNCHANGED trainerVars,
           NEW r \in Samples, Task(r) \/ TaskRaises(r)
    PROVE  QueuesInv' /\ CountInv'
<1> USE PlaceTypes
<1>1. UNCHANGED <<fed, pending_queue, hand, batch, trained>>
    BY DEF Task, TaskArrives, TaskGenerated, TaskPut, TaskReturned, TaskCancelled, TaskRaises, taskFrame,
       procVars, trainerVars
<1>2. \A s \in Samples : s # r => stage'[s] = stage[s]
    BY DEF Task, TaskArrives, TaskGenerated, TaskPut, TaskReturned, TaskCancelled, TaskRaises
<1>3. \A s \in Samples : PlacesOf(s) = IF s <= fed THEN 1 ELSE 0
    BY DEF CountInv
<1>4. CASE TaskArrives(r) \/ TaskGenerated(r) \/ TaskReturned(r)
  <2>1. UNCHANGED <<cancel_queue, queue, dropped, failed>>
      BY <1>4 DEF TaskArrives, TaskGenerated, TaskReturned, queueVars, mqVars
  <2>2. stage'[r] \in {"new", "call", "gen", "cut", "put"} <=> stage[r] \in {"new", "call", "gen", "cut", "put"}
      BY <1>4 DEF TaskArrives, TaskGenerated, TaskReturned
  <2>3. ASSUME NEW s \in Samples
        PROVE  PlacesOf(s)' = IF s <= fed' THEN 1 ELSE 0
    <3>1. stage'[s] \in {"new", "call", "gen", "cut", "put"} <=> stage[s] \in {"new", "call", "gen", "cut", "put"}
        BY <1>2, <2>2
    <3> QED
        BY <1>1, <1>3, <2>1, <3>1 DEF PlacesOf, One
  <2> QED
      BY <1>1, <2>1, <2>3 DEF QueuesInv, CountInv
<1>5. CASE TaskPut(r)
  <2>1. UNCHANGED <<cancel_queue, failed>> /\ stage[r] = "put" /\ stage'[r] = "ret"
      BY <1>5 DEF TaskPut
  <2>2. PlacesOf(r) <= 1
      BY <1>3
  <2>3. r \notin Range(queue)
      BY <2>1, <2>2 DEF PlacesOf, One
  <2>4. /\ NoRepeats(queue')
        /\ QueueFull => Head(queue) \in Range(queue)
        /\ \A s \in Samples :
              /\ s \in Range(queue') <=> s = r \/ (s \in Range(queue) /\ ~(QueueFull /\ s = Head(queue)))
              /\ s \in dropped' <=> s \in dropped \/ (QueueFull /\ s = Head(queue))
      BY <1>5, <2>3, RemotePutMoves DEF TaskPut
  <2>5. ASSUME NEW s \in Samples
        PROVE  PlacesOf(s)' = IF s <= fed' THEN 1 ELSE 0
      BY <1>1, <1>2, <1>3, <2>1, <2>3, <2>4 DEF PlacesOf, One
  <2> QED
      BY <1>1, <2>1, <2>4, <2>5 DEF QueuesInv, CountInv
<1>6. CASE TaskCancelled(r)
  <2>1. /\ UNCHANGED <<queue, dropped, failed>> /\ stage[r] = "cut" /\ stage'[r] = "none"
        /\ cancel_queue' = Append(cancel_queue, r)
      BY <1>6 DEF TaskCancelled, queueVars, mqVars
  <2>2. PlacesOf(r) <= 1
      BY <1>3
  <2>3. r \notin Range(cancel_queue)
      BY <2>1, <2>2 DEF PlacesOf, One
  <2>4. /\ NoRepeats(cancel_queue')
        /\ \A s : s \in Range(cancel_queue') <=> s \in Range(cancel_queue) \/ s = r
      BY <2>1, <2>3, AfterAppend DEF QueuesInv
  <2>5. ASSUME NEW s \in Samples
        PROVE  PlacesOf(s)' = IF s <= fed' THEN 1 ELSE 0
      BY <1>1, <1>2, <1>3, <2>1, <2>3, <2>4 DEF PlacesOf, One
  <2> QED
      BY <1>1, <2>1, <2>4, <2>5 DEF QueuesInv, CountInv
<1>7. CASE TaskRaises(r)
  <2>1. /\ UNCHANGED <<cancel_queue, queue, dropped>> /\ stage[r] = "gen" /\ stage'[r] = "none"
        /\ failed' = failed \union {r}
      BY <1>7 DEF TaskRaises, queueVars, mqVars
  <2>2. PlacesOf(r) <= 1
      BY <1>3
  <2>3. r \notin failed
      BY <2>1, <2>2 DEF PlacesOf, One
  <2>4. ASSUME NEW s \in Samples
        PROVE  PlacesOf(s)' = IF s <= fed' THEN 1 ELSE 0
      BY <1>1, <1>2, <1>3, <2>1, <2>3 DEF PlacesOf, One
  <2> QED
      BY <1>1, <2>1, <2>4 DEF QueuesInv, CountInv
<1> QED
    BY <1>4, <1>5, <1>6, <1>7 DEF Task

\* A task's first turn moves no sample: the task is on from "new" to "call".
LEMMA BeginStays ==
    ASSUME TypeOK, TaskBegins
    PROVE  \A s \in Samples : stage'[s] = stage[s] \/ (stage[s] = "new" /\ stage'[s] = "call")
<1> DEFINE h == Head(created)
<1>1. stage[h] = "new" /\ stage' = [stage EXCEPT ![h] = "call"]
    BY DEF TaskBegins
<1> HIDE DEF h
<1> QED
    BY <1>1, PlaceTypes

\* A sample whose task begins stays in it.
LEMMA BeginMoves ==
    ASSUME TypeOK, QueuesInv, CountInv, TaskBegins, UNCHANGED trainerVars
    PROVE  QueuesInv' /\ CountInv'
<1>1. UNCHANGED <<fed, pending_queue, hand, cancel_queue, queue, batch, trained, dropped, failed>>
    BY DEF TaskBegins, sampleVars, procVars, queueVars, mqVars, trainerVars
<1>2. ASSUME NEW s \in Samples
      PROVE  PlacesOf(s)' = IF s <= fed' THEN 1 ELSE 0
  <2>1. PlacesOf(s) = IF s <= fed THEN 1 ELSE 0
      BY DEF CountInv
  <2>2. stage'[s] \in {"new", "call", "gen", "cut", "put"} <=> stage[s] \in {"new", "call", "gen", "cut", "put"}
      BY BeginStays
  <2> QED
      BY <1>1, <2>1, <2>2 DEF PlacesOf, One
<1> QED
    BY <1>1, <1>2 DEF QueuesInv, CountInv

\* A sample the servers cut stays in its task.
LEMMA CancelMoves ==
    ASSUME TypeOK, QueuesInv, CountInv, CancelReply, UNCHANGED trainerVars
    PROVE  QueuesInv' /\ CountInv'
<1> USE PlaceTypes
<1>1. UNCHANGED <<fed, pending_queue, hand, cancel_queue, queue, batch, trained, dropped, failed>>
    BY DEF CancelReply, pauseFrame, sampleVars, procVars, queueVars, mqVars, trainerVars
<1>2. ASSUME NEW s \in Samples
      PROVE  stage'[s] \in {"new", "call", "gen", "cut", "put"} <=> stage[s] \in {"new", "call", "gen", "cut", "put"}
    BY DEF CancelReply
<1>3. ASSUME NEW s \in Samples
      PROVE  PlacesOf(s)' = IF s <= fed' THEN 1 ELSE 0
  <2>1. PlacesOf(s) = IF s <= fed THEN 1 ELSE 0
      BY DEF CountInv
  <2> QED
      BY <1>1, <1>2, <2>1 DEF PlacesOf, One
<1> QED
    BY <1>1, <1>3 DEF QueuesInv, CountInv

\* The trainer moves a sample into the batch, and the batch into what it trained on.
LEMMA TrainerMoves ==
    ASSUME TypeOK, QueuesInv, CountInv, TrainerGet \/ TrainerGetNone \/ TrainerTrain
    PROVE  QueuesInv' /\ CountInv'
<1> USE PlaceTypes
<1>1. UNCHANGED <<fed, pending_queue, hand, stage, cancel_queue, dropped, failed>>
    BY DEF TrainerGet, TrainerGetNone, TrainerTrain, rollouterInside, sampleVars, procVars,
       taskVars, queueVars
<1>2. \A s \in Samples : PlacesOf(s) = IF s <= fed THEN 1 ELSE 0
    BY DEF CountInv
<1>3. CASE TrainerGet \/ TrainerGetNone
  <2>1. queue # <<>> /\ queue' = Tail(queue) /\ trained' = trained
      BY <1>3 DEF TrainerGet, TrainerGetNone, TakeSample
  <2>2. \A s \in Samples : s \in batch' <=> s \in batch \/ s = Head(queue)
      BY <1>3 DEF TrainerGet, TrainerGetNone
  <2>3. /\ NoRepeats(queue') /\ Head(queue) \in Range(queue)
        /\ \A s : s # NoSample => (s \in Range(queue') <=> s \in Range(queue) /\ s # Head(queue))
      BY <2>1, AfterTail DEF QueuesInv
  <2>4. ASSUME NEW s \in Samples
        PROVE  PlacesOf(s)' = IF s <= fed' THEN 1 ELSE 0
      BY <1>1, <1>2, <2>1, <2>2, <2>3 DEF PlacesOf, One
  <2> QED
      BY <1>1, <2>3, <2>4 DEF QueuesInv, CountInv
<1>4. CASE TrainerTrain
  <2>1. queue' = queue /\ batch' = {} /\ trained' = trained \union batch
      BY <1>4 DEF TrainerTrain, queueVars, mqVars
  <2>2. ASSUME NEW s \in Samples
        PROVE  PlacesOf(s)' = IF s <= fed' THEN 1 ELSE 0
      BY <1>1, <1>2, <2>1 DEF PlacesOf, One
  <2> QED
      BY <1>1, <2>1, <2>2 DEF QueuesInv, CountInv
<1> QED
    BY <1>3, <1>4

-----------------------------------------------------------------------------
\* At the start no sample was fed.
LEMMA PlaceInit == Init => PlaceInv
<1> SUFFICES ASSUME Init PROVE PlaceInv
    OBVIOUS
<1>1. /\ fed = 0 /\ pending_queue = <<>> /\ hand = NoSample /\ cancel_queue = <<>> /\ queue = <<>>
      /\ stage = [s \in Samples |-> "none"]
      /\ batch = {} /\ trained = {} /\ dropped = {} /\ failed = {}
    BY DEF Init, RolloutInit, MQInit
<1>2. QueuesInv
    BY <1>1 DEF QueuesInv, NoRepeats
<1>3. ASSUME NEW s \in Samples
      PROVE  PlacesOf(s) = IF s <= fed THEN 1 ELSE 0
  <2>1. Range(<<>>) = {} /\ s > 0 /\ s # NoSample /\ stage[s] = "none"
      BY <1>1 DEF Range, Samples, NoSample
  <2>2. s \in Int
      BY DEF Samples
  <2> QED
      BY <1>1, <2>1, <2>2 DEF PlacesOf, One
<1> QED
    BY <1>1, <1>2, <1>3 DEF PlaceInv, CountInv, HandInv

\* PlaceInv is inductive relative to TypeOK.
LEMMA PlaceStep ==
    ASSUME TypeOK, PlaceInv, [Next]_vars
    PROVE  PlaceInv'
<1> USE DEF PlaceInv
<1>1. HandInv'
    BY HandStep
<1>2. CASE UNCHANGED vars
  <2>1. UNCHANGED placeVars
      BY <1>2 DEF vars, rollouterVars, placeVars, sampleVars, taskVars, procVars, queueVars, mqVars,
         trainerVars
  <2> QED
      BY <1>1, <2>1, NothingMoves
<1>3. CASE Trainer \/ Synchronizer
    BY <1>1, <1>3, TrainerOtherwise, TrainerMoves, NothingMoves
<1>4. CASE /\ \/ TaskBegins \/ Feed \/ Processor \/ Monitor \/ Main \/ Pause \/ Update \/ Resume
              \/ Reply \/ \E s \in Samples : Task(s) \/ TaskRaises(s)
           /\ UNCHANGED <<trainerVars, engineVars>>
  <2>1. UNCHANGED trainerVars
      BY <1>4
  <2>2. CASE TaskBegins \/ Feed
      BY <1>1, <2>1, <2>2, BeginMoves, FeedMoves
  <2>3. CASE Processor
      BY <1>1, <2>1, <2>3, ProcessorMovesOnce, ProcessorOtherwise, NothingMoves
  <2>4. CASE MainSentinel
      BY <1>1, <2>1, <2>4, SentinelMoves
  <2>5. CASE CancelReply
      BY <1>1, <2>1, <2>5, CancelMoves
  <2>6. CASE \E s \in Samples : Task(s) \/ TaskRaises(s)
      BY <1>1, <2>1, <2>6, TaskMoves
  <2>7. CASE Monitor \/ MonTimer \/ Main \/ Pause \/ ClearReply \/ Update \/ SizeReply
               \/ ValidateReply \/ Resume \/ ServersReply
      BY <1>1, <2>1, <2>7, LoopsMoveNothing, NothingMoves
  <2> QED
      BY <1>4, <2>2, <2>3, <2>4, <2>5, <2>6, <2>7 DEF Reply
<1> QED
    BY <1>2, <1>3, <1>4, NextCases

\* Counting the places a sample is in is counting the terms of PlacesOf.
LEMMA CountedOnce ==
    ASSUME TypeOK, CountInv
    PROVE  EachSampleOnce
<1> SUFFICES ASSUME NEW s \in Samples
             PROVE  Cardinality({i \in DOMAIN Places : s \in Places[i]}) = IF s <= fed THEN 1 ELSE 0
    BY DEF EachSampleOnce
<1> DEFINE In == {i \in DOMAIN Places : s \in Places[i]}
<1>1. PlacesOf(s) = IF s <= fed THEN 1 ELSE 0
    BY DEF CountInv
<1>2. DOMAIN Places = 1..9
    BY DEF Places
<1>3. /\ 1 \in In <=> s \in Range(pending_queue)
      /\ 2 \in In <=> hand = s
      /\ 3 \in In <=> stage[s] \in {"new", "call", "gen", "cut", "put"}
      /\ 4 \in In <=> s \in Range(cancel_queue)
      /\ 5 \in In <=> s \in Range(queue)
      /\ 6 \in In <=> s \in batch
      /\ 7 \in In <=> s \in trained
      /\ 8 \in In <=> s \in dropped
      /\ 9 \in In <=> s \in failed
    BY <1>2 DEF Places, Underway
<1>4. In \subseteq 1..9
    BY <1>2
<1> HIDE DEF In
<1>5. CASE s <= fed
  <2>1. \E i \in 1..9 : i \in In
      BY <1>1, <1>3, <1>5 DEF PlacesOf, One
  <2>2. PICK i \in 1..9 : i \in In
      BY <2>1
  <2>3. ASSUME NEW j \in 1..9, j \in In
        PROVE  j = i
      BY <1>1, <1>3, <1>5, <2>2, <2>3 DEF PlacesOf, One
  <2>4. In = {i}
      BY <1>4, <2>2, <2>3
  <2> QED
      BY <1>5, <2>4, FS_Singleton DEF In
<1>6. CASE ~(s <= fed)
  <2>1. In = {}
      BY <1>1, <1>3, <1>4, <1>6 DEF PlacesOf, One
  <2> QED
      BY <1>6, <2>1, FS_EmptySet DEF In
<1> QED
    BY <1>5, <1>6

\* A sample that was fed is in exactly one place, for every configuration.
THEOREM EachSampleInOnePlace == Spec => []EachSampleOnce
<1>1. TypeOK /\ PlaceInv /\ [Next]_vars => PlaceInv'
    BY PlaceStep
<1>2. TypeOK /\ PlaceInv => EachSampleOnce
    BY CountedOnce DEF PlaceInv
<1> QED
    BY <1>1, <1>2, PlaceInit, TypeCorrect, PTL DEF Spec

-----------------------------------------------------------------------------
\* How many samples are outstanding

Resumable == Underway \union Range(cancel_queue)
Counted == (Resumable \union Range(queue)) \ {NoSample}

(***************************************************************************)
(* The recount holds the lock from its first term to the last, so nothing  *)
(* is submitted meanwhile and what it counts can only become less; the     *)
(* sample in the processor's hand is all it can miss.                      *)
(***************************************************************************)
RecountInv ==
    /\ updatePc \in {"sizing", "sized"} => Holds("update")
    /\ updatePc = "sizing" => Cardinality(Resumable) <= count
    /\ updatePc = "sized" => Cardinality(Counted) <= count

\* What is outstanding exceeds what was counted, and the limit, by that sample at most.
LimitInv ==
    /\ Cardinality(Outstanding) <= staleness_samples + 1
    /\ Cardinality(Outstanding) <= MaxRequired + 1
    /\ procPc = "get" => Cardinality(Outstanding) <= MaxRequired

\* What changes the counters, the lock and the processor's turn to take a sample.
LEMMA CounterSteps ==
    ASSUME [Next]_vars
    PROVE  /\ UNCHANGED staleness_samples \/ ProcTakePending \/ UpdateAssign
           /\ updatePc' \in {"sizing", "sized"} =>
                 UNCHANGED <<updatePc, count>> \/ UpdateCount \/ SizeReply
           /\ procPc' = "get" => procPc = "get" \/ ProcAwaitPending
<1>1. CASE Processor
  <2>1. UNCHANGED <<updatePc, count>>
      BY <1>1 DEF Processor, ProcPause, ProcMark, ProcReapLock, ProcReapWait, ProcReapNothing, ProcReap,
         ProcFinished, ProcReaped, ProcSleep, ProcWoken, ProcRestart, ProcAwaitPending, procFrame,
         ProcTakePending, ProcTakeCancelled, ProcSubmit, callVars
  <2>2. UNCHANGED staleness_samples \/ ProcTakePending
      BY <1>1 DEF Processor, ProcPause, ProcMark, ProcReapLock, ProcReapWait, ProcReapNothing, ProcReap,
         ProcFinished, ProcReaped, ProcSleep, ProcWoken, ProcRestart, ProcAwaitPending, procFrame,
         ProcTakeCancelled, ProcSubmit, versionVars
  <2>3. procPc' = "get" => ProcAwaitPending
      BY <1>1 DEF Processor, ProcPause, ProcMark, ProcReapLock, ProcReapWait, ProcReapNothing, ProcReap,
         ProcFinished, ProcReaped, ProcSleep, ProcWoken, ProcRestart, ProcGoto,
         ProcTakePending, ProcTakeCancelled, ProcSubmit
  <2> QED
      BY <2>1, <2>2, <2>3
<1>2. CASE Monitor \/ MonTimer
    BY <1>2 DEF Monitor, MonLock, MonTest, MonTimer, MonDecide, MonSkip, MonKick, monFrame,
       NotifyAll, callVars, versionVars
<1>3. CASE Feed \/ Main \/ MainSentinel
    BY <1>3 DEF Feed, FeedSample, FeedDone, FeedItem, Main, MainFinish, MainLock, MainStop,
       MainSentinel, mainFrame, procVars, callVars, versionVars
<1>4. CASE Pause \/ CancelReply \/ ClearReply
    BY <1>4 DEF Pause, PauseLock, PauseBegin, PauseGather, PauseGathered, ClearReply, CancelReply,
       PauseDone, pauseFrame, procVars, updateVars, versionVars
<1>5. CASE Update \/ SizeReply \/ ValidateReply
    BY <1>5 DEF Update, UpdateLock, UpdateCount, SizeReply, UpdateAssign, ValidateReply,
       UpdateDone, updateFrame, procVars, versionVars
<1>6. CASE Resume \/ ServersReply
    BY <1>6 DEF Resume, ResumeLock, ResumeBegin, ServersReply, ResumeDone, resumeFrame, NotifyAll,
       updateVars, versionVars
<1>7. CASE TaskBegins \/ \E s \in Samples : Task(s) \/ TaskRaises(s)
    BY <1>7 DEF TaskBegins, Task, TaskArrives, TaskGenerated, TaskPut, TaskReturned, TaskCancelled,
       TaskRaises, taskFrame, procVars, callVars, versionVars
<1>8. CASE Trainer \/ Synchronizer
    BY <1>8 DEF Trainer, TrainerWait, TrainerGet, TrainerGetNone, TrainerTrain, TrainerDrained,
       TrainerEnd, Synchronizer, SyncPause, SyncWeights, SyncDone, rollouterInside, procVars,
       callVars, versionVars
<1>9. CASE UNCHANGED vars
    BY <1>9 DEF vars, rollouterVars, procVars, callVars, versionVars
<1> QED
    BY <1>1, <1>2, <1>3, <1>4, <1>5, <1>6, <1>7, <1>8, <1>9, NextCases DEF Reply

-----------------------------------------------------------------------------
\* What is outstanding becomes less, but for a sample taken and a sample submitted

OutstandingShrinks == Outstanding' \subseteq Outstanding
CountedShrinks == Resumable' \subseteq Resumable /\ Counted' \subseteq Counted

\* A step that leaves these places alone shrinks both sets.
LEMMA SamePlaces ==
    ASSUME UNCHANGED <<hand, stage, cancel_queue, queue>>
    PROVE  OutstandingShrinks /\ CountedShrinks
BY DEF OutstandingShrinks, CountedShrinks, Outstanding, Counted, Resumable, Underway

\* put_sample adds no more than the sample that is put.
LEMMA RemotePutRange ==
    ASSUME TypeOK, NEW x \in Samples \union {NoSample}, RemotePut(x)
    PROVE  Range(queue') \subseteq Range(queue) \union {x}
<1> DEFINE S == Samples \union {NoSample}
<1>1. queue \in Seq(S) /\ x \in S
    BY PlaceTypes
<1> HIDE DEF S
<1>2. CASE QueueFull
  <2>1. queue # <<>>
      BY <1>2, MessageQueueAssumption DEF QueueFull
  <2>2. Tail(queue) \in Seq(S)
      BY <1>1, <2>1
  <2>3. PICK t \in Seq(S) : t = Tail(queue)
      BY <2>2, Zenon
  <2>4. queue' = Append(t, x)
      BY <1>2, <2>3 DEF RemotePut, PutSample
  <2>5. Range(t) \subseteq Range(queue)
      BY <1>1, <2>1, <2>3, TailRange
  <2>6. Range(Append(t, x)) = Range(t) \union {x}
      BY <1>1, AppendRange
  <2> QED
      BY ONLY <2>4, <2>5, <2>6
<1>3. CASE ~QueueFull
  <2>1. queue' = Append(queue, x)
      BY <1>3 DEF RemotePut, PutSample
  <2>2. Range(Append(queue, x)) = Range(queue) \union {x}
      BY <1>1, AppendRange
  <2> QED
      BY ONLY <2>1, <2>2
<1> QED
    BY <1>2, <1>3

\* Only taking a sample adds to what is outstanding, only submitting one to what the recount counts.
LEMMA ShrinkingSteps ==
    ASSUME TypeOK, [Next]_vars
    PROVE  /\ ProcTakePending \/ OutstandingShrinks
           /\ ProcSubmit \/ CountedShrinks
<1> USE PlaceTypes
<1> DEFINE Goal == /\ ProcTakePending \/ OutstandingShrinks
                   /\ ProcSubmit \/ CountedShrinks
<1>1. UNCHANGED placeVars => Goal
    BY SamePlaces DEF placeVars
<1>2. CASE UNCHANGED vars
    BY <1>1, <1>2 DEF vars, rollouterVars, placeVars, sampleVars, taskVars, procVars, queueVars, mqVars,
       trainerVars
<1>3. CASE Trainer \/ Synchronizer
  <2>1. CASE TrainerGet \/ TrainerGetNone
    <3>1. UNCHANGED <<hand, stage, cancel_queue>> /\ queue # <<>> /\ queue' = Tail(queue)
        BY <2>1 DEF TrainerGet, TrainerGetNone, TakeSample, rollouterInside, sampleVars, procVars,
           taskVars
    <3>2. Range(queue') \subseteq Range(queue)
        BY <3>1, TailRange
    <3> QED
        BY <3>1, <3>2 DEF OutstandingShrinks, CountedShrinks, Outstanding, Counted, Resumable, Underway
  <2>2. CASE TrainerTrain
      BY <2>2, SamePlaces DEF TrainerTrain, rollouterInside, sampleVars, procVars, taskVars,
         queueVars, mqVars
  <2> QED
      BY <1>1, <1>3, <2>1, <2>2, TrainerOtherwise
<1>4. ASSUME UNCHANGED trainerVars,
             Monitor \/ MonTimer \/ Main \/ Pause \/ ClearReply \/ Update \/ SizeReply
               \/ ValidateReply \/ Resume \/ ServersReply
      PROVE  Goal
    BY <1>1, <1>4, LoopsMoveNothing
<1>5. CASE TaskBegins \/ Feed
  <2>1. CASE TaskBegins
    <3>1. UNCHANGED <<hand, cancel_queue, queue>>
        BY <2>1 DEF TaskBegins, sampleVars, procVars, queueVars, mqVars
    <3>2. Underway' \subseteq Underway
        BY <2>1, BeginStays DEF Underway
    <3> QED
        BY <3>1, <3>2 DEF OutstandingShrinks, CountedShrinks, Outstanding, Counted, Resumable
  <2>2. CASE Feed
      BY <2>2, SamePlaces DEF Feed, FeedSample, FeedDone, FeedItem, procVars, taskVars, queueVars, mqVars
  <2> QED
      BY <1>5, <2>1, <2>2
<1>6. ASSUME UNCHANGED trainerVars, Processor
      PROVE  Goal
  <2>1. CASE ProcTakePending
    <3>1. UNCHANGED <<stage, cancel_queue, queue>>
        BY <2>1 DEF ProcTakePending, taskVars, queueVars, mqVars
    <3> QED
        BY <2>1, <3>1 DEF CountedShrinks, Counted, Resumable, Underway
  <2>2. CASE ProcTakeCancelled
    <3>1. UNCHANGED <<stage, queue>> /\ cancel_queue # <<>> /\ hand' = Head(cancel_queue)
          /\ cancel_queue' = Tail(cancel_queue)
        BY <2>2 DEF ProcTakeCancelled, taskVars, queueVars, mqVars
    <3>2. Range(cancel_queue') \subseteq Range(cancel_queue) /\ hand' \in Range(cancel_queue)
        BY <3>1, TailRange
    <3> QED
        BY <3>1, <3>2 DEF OutstandingShrinks, CountedShrinks, Outstanding, Counted, Resumable, Underway
  <2>3. CASE ProcSubmit
    <3>1. UNCHANGED <<cancel_queue, queue>> /\ hand' = NoSample
          /\ \A s \in Samples : s # hand => stage'[s] = stage[s]
        BY <2>3 DEF ProcSubmit, sampleVars, queueVars, mqVars
    <3>2. Underway' \subseteq Underway \union {hand}
        BY <3>1 DEF Underway
    <3>3. OutstandingShrinks
        BY <3>1, <3>2 DEF OutstandingShrinks, Outstanding
    <3> QED
        BY <2>3, <3>3
  <2> QED
      BY <1>1, <1>6, <2>1, <2>2, <2>3, ProcessorOtherwise DEF ProcessorMoves
<1>7. CASE MainSentinel
  <2>1. UNCHANGED <<hand, stage, cancel_queue>>
      BY <1>7 DEF MainSentinel, mainFrame, sampleVars, procVars, taskVars
  <2>2. Range(queue') \subseteq Range(queue) \union {NoSample}
      BY <1>7, RemotePutRange DEF MainSentinel
  <2> QED
      BY <2>1, <2>2 DEF OutstandingShrinks, CountedShrinks, Outstanding, Counted, Resumable, Underway
<1>8. CASE CancelReply
  <2>1. UNCHANGED <<hand, cancel_queue, queue>>
      BY <1>8 DEF CancelReply, pauseFrame, sampleVars, procVars, queueVars, mqVars
  <2>2. Underway' \subseteq Underway
    <3> SUFFICES ASSUME NEW s \in Samples, stage'[s] \in {"new", "call", "gen", "cut", "put"}
                 PROVE  stage[s] \in {"new", "call", "gen", "cut", "put"}
        BY DEF Underway
    <3> QED
        BY <1>8 DEF CancelReply
  <2> QED
      BY <2>1, <2>2 DEF OutstandingShrinks, CountedShrinks, Outstanding, Counted, Resumable
<1>9. CASE \E r \in Samples : Task(r) \/ TaskRaises(r)
  <2>1. PICK r \in Samples : Task(r) \/ TaskRaises(r)
      BY <1>9
  <2>2. hand' = hand /\ \A s \in Samples : s # r => stage'[s] = stage[s]
      BY <2>1 DEF Task, TaskArrives, TaskGenerated, TaskPut, TaskReturned, TaskCancelled, TaskRaises, taskFrame,
         procVars
  <2>3. CASE TaskArrives(r) \/ TaskGenerated(r) \/ TaskReturned(r) \/ TaskRaises(r)
    <3>1. /\ UNCHANGED <<cancel_queue, queue>>
          /\ stage'[r] \in {"new", "call", "gen", "cut", "put"} => stage[r] \in {"new", "call", "gen", "cut", "put"}
        BY <2>3 DEF TaskArrives, TaskGenerated, TaskReturned, TaskRaises, queueVars, mqVars
    <3>2. Underway' \subseteq Underway
        BY <2>2, <3>1 DEF Underway
    <3> QED
        BY <2>2, <3>1, <3>2 DEF OutstandingShrinks, CountedShrinks, Outstanding, Counted, Resumable
  <2>4. CASE TaskPut(r)
    <3>1. cancel_queue' = cancel_queue /\ stage[r] = "put" /\ stage'[r] = "ret"
        BY <2>4 DEF TaskPut
    <3>2. Range(queue') \subseteq Range(queue) \union {r}
        BY <2>4, RemotePutRange DEF TaskPut
    <3>3. Underway' \subseteq Underway /\ r \in Underway
        BY <2>2, <3>1 DEF Underway
    <3> QED
        BY <2>2, <3>1, <3>2, <3>3 DEF OutstandingShrinks, CountedShrinks, Outstanding, Counted, Resumable
  <2>5. CASE TaskCancelled(r)
    <3>1. queue' = queue /\ stage[r] = "cut" /\ stage'[r] = "none"
          /\ cancel_queue' = Append(cancel_queue, r)
        BY <2>5 DEF TaskCancelled, queueVars, mqVars
    <3>2. Range(cancel_queue') \subseteq Range(cancel_queue) \union {r}
        BY <3>1, AppendRange
    <3>3. Underway' \subseteq Underway /\ r \in Underway
        BY <2>2, <3>1 DEF Underway
    <3> QED
        BY <2>2, <3>1, <3>2, <3>3 DEF OutstandingShrinks, CountedShrinks, Outstanding, Counted, Resumable
  <2> QED
      BY <2>1, <2>3, <2>4, <2>5 DEF Task
<1> QED
    BY <1>2, <1>3, <1>4, <1>5, <1>6, <1>7, <1>8, <1>9, NextCases DEF Reply

-----------------------------------------------------------------------------
\* The recount counts at least the samples it stands for, and all but the one in hand.
LEMMA FinitePlaces ==
    ASSUME TypeOK
    PROVE  /\ IsFiniteSet(Underway) /\ Cardinality(Underway) <= ActiveCount
           /\ IsFiniteSet(Resumable) /\ IsFiniteSet(Counted) /\ IsFiniteSet(Outstanding)
           /\ Cardinality(Outstanding) \in Nat /\ Cardinality(Counted) \in Nat
           /\ Cardinality(Resumable) \in Nat /\ Cardinality(Underway) \in Nat
           /\ Cardinality(Resumable) <= Cardinality(Underway) + Len(cancel_queue)
           /\ Cardinality(Counted) <= Cardinality(Resumable) + Len(queue)
           /\ Cardinality(Outstanding) <= Cardinality(Counted) + 1
<1> USE PlaceTypes
<1>1. IsFiniteSet(Samples)
    BY FS_Interval, RolloutAssumption DEF Samples
<1>2. IsFiniteSet(LiveTasks) /\ IsFiniteSet(Underway) /\ Underway \subseteq LiveTasks
    BY <1>1, FS_Subset DEF LiveTasks, Underway
<1>3. Cardinality(Underway) <= Cardinality(LiveTasks) /\ Cardinality(Underway) \in Nat
      /\ Cardinality(LiveTasks) \in Nat
    BY <1>2, FS_Subset, FS_CardinalityType
<1>4. Cardinality(Underway) <= ActiveCount
  <2>1. finished \in Nat /\ raised \in Nat
      BY DEF TypeOK, RollouterTypeOK, TaskTypeOK
  <2> QED
      BY <1>3, <2>1 DEF ActiveCount
<1>5. /\ IsFiniteSet(Range(cancel_queue)) /\ Cardinality(Range(cancel_queue)) <= Len(cancel_queue)
      /\ IsFiniteSet(Range(queue)) /\ Cardinality(Range(queue)) <= Len(queue)
      /\ Cardinality(Range(cancel_queue)) \in Nat /\ Cardinality(Range(queue)) \in Nat
      /\ Len(cancel_queue) \in Nat /\ Len(queue) \in Nat
    BY RangeAtMost
<1>6. IsFiniteSet(Resumable) /\ Cardinality(Resumable) \in Nat
      /\ Cardinality(Resumable) <= Cardinality(Underway) + Cardinality(Range(cancel_queue))
    BY <1>2, <1>3, <1>5, TwoSets DEF Resumable
<1>7. IsFiniteSet(Counted) /\ Cardinality(Counted) \in Nat
      /\ Cardinality(Counted) <= Cardinality(Resumable) + Cardinality(Range(queue))
  <2>1. PICK U : U = Resumable \union Range(queue)
      OBVIOUS
  <2>2. IsFiniteSet(U) /\ Cardinality(U) \in Nat
        /\ Cardinality(U) <= Cardinality(Resumable) + Cardinality(Range(queue))
      BY <1>5, <1>6, <2>1, TwoSets
  <2>3. Counted \subseteq U
      BY <2>1 DEF Counted
  <2>4. IsFiniteSet(Counted) /\ Cardinality(Counted) <= Cardinality(U) /\ Cardinality(Counted) \in Nat
      BY <2>2, <2>3, FS_Subset, FS_CardinalityType
  <2> QED
      BY <1>5, <1>6, <2>2, <2>4
<1>8. IsFiniteSet(Outstanding) /\ Cardinality(Outstanding) \in Nat
      /\ Cardinality(Outstanding) <= Cardinality(Counted) + 1
  <2>1. PICK U : U = Counted \union {hand}
      OBVIOUS
  <2>2. IsFiniteSet(U) /\ Cardinality(U) \in Nat /\ Cardinality(U) <= Cardinality(Counted) + 1
    <3>1. /\ IsFiniteSet(U)
          /\ Cardinality(U) = IF hand \in Counted THEN Cardinality(Counted) ELSE Cardinality(Counted) + 1
        BY <1>7, <2>1, FS_AddElement
    <3> QED
        BY <1>7, <3>1
  <2>3. Outstanding \subseteq U
      BY <2>1 DEF Outstanding, Counted, Resumable
  <2>4. IsFiniteSet(Outstanding) /\ Cardinality(Outstanding) <= Cardinality(U)
        /\ Cardinality(Outstanding) \in Nat
      BY <2>2, <2>3, FS_Subset, FS_CardinalityType
  <2> QED
      BY <1>7, <2>2, <2>4
<1> QED
    BY <1>2, <1>3, <1>4, <1>5, <1>6, <1>7, <1>8, SMTT(30)

\* RecountInv and LimitInv are inductive together, relative to TypeOK.
LEMMA LimitStep ==
    ASSUME TypeOK, RecountInv, LimitInv, [Next]_vars
    PROVE  RecountInv' /\ LimitInv'
<1>1. /\ staleness_samples \in Nat /\ count \in Nat /\ MaxRequired \in Nat
      /\ Len(cancel_queue) \in Nat /\ Len(queue) \in Nat /\ ActiveCount \in Nat
  <2>1. MaxRequired \in Nat
      BY RolloutAssumption, MessageQueueAssumption
  <2> QED
      BY <2>1, PlaceTypes, LiveTasksCount DEF TypeOK, RollouterTypeOK, VersionTypeOK, CallTypeOK
<1>2. updatePc' \in {"sizing", "sized"} => Holds("update")'
  <2>1. updatePc' \in {"sizing", "sized"} => Holds("update") /\ updatePc # "validated"
      BY CounterSteps DEF RecountInv, UpdateCount, SizeReply
  <2> QED
      BY <2>1, LockKept
<1>3. updatePc \in {"sizing", "sized"} => CountedShrinks
  <2>1. Holds("update") => ~ProcSubmit
      BY DEF Holds, ProcSubmit
  <2> QED
      BY <2>1, ShrinkingSteps DEF RecountInv
<1>4. CountedShrinks => /\ Cardinality(Resumable') <= Cardinality(Resumable)
                        /\ Cardinality(Counted') <= Cardinality(Counted)
                        /\ Cardinality(Resumable') \in Nat /\ Cardinality(Counted') \in Nat
    BY FinitePlaces, FS_Subset, FS_CardinalityType DEF CountedShrinks
<1>5. (updatePc' = "sizing" => Cardinality(Resumable') <= count')
        /\ (updatePc' = "sized" => Cardinality(Counted') <= count')
  <2>1. CASE UNCHANGED <<updatePc, count>>
      BY <1>1, <1>3, <1>4, <2>1, FinitePlaces DEF RecountInv
  <2>2. CASE UpdateCount
    <3>1. updatePc' = "sizing" /\ count' = ActiveCount + Len(cancel_queue)
          /\ UNCHANGED <<hand, stage, cancel_queue, queue>>
        BY <2>2 DEF UpdateCount, updateFrame, sampleVars, taskVars, procVars, queueVars, mqVars
    <3> QED
        BY <1>1, <1>4, <3>1, FinitePlaces, SamePlaces
  <2>3. CASE SizeReply
    <3>1. updatePc = "sizing" /\ updatePc' = "sized" /\ count' = count + Len(queue)
        BY <2>3 DEF SizeReply
    <3>2. Cardinality(Resumable) <= count
        BY <3>1 DEF RecountInv
    <3> QED
        BY <1>1, <1>3, <1>4, <3>1, <3>2, FinitePlaces
  <2> QED
      BY <2>1, <2>2, <2>3, CounterSteps
<1>6. ASSUME ~ProcTakePending
      PROVE  LimitInv'
  <2>1. /\ Cardinality(Outstanding') <= Cardinality(Outstanding)
        /\ Cardinality(Outstanding') \in Nat
      BY <1>6, ShrinkingSteps, FinitePlaces, FS_Subset, FS_CardinalityType DEF OutstandingShrinks
  <2>2. Cardinality(Outstanding') <= staleness_samples' + 1
    <3>1. CASE UNCHANGED staleness_samples
        BY <1>1, <2>1, <3>1, FinitePlaces DEF LimitInv
    <3>2. CASE UpdateAssign
      <4>1. updatePc = "sized" /\ staleness_samples' = count
          BY <3>2 DEF UpdateAssign
      <4>2. Cardinality(Counted) <= count
          BY <4>1 DEF RecountInv
      <4> QED
          BY <1>1, <2>1, <4>1, <4>2, FinitePlaces
    <3> QED
        BY <1>6, <3>1, <3>2, CounterSteps
  <2>3. procPc' = "get" => Cardinality(Outstanding) <= MaxRequired
    <3>1. ProcAwaitPending => staleness_samples < MaxRequired
        BY <1>1 DEF ProcAwaitPending, ShouldPause
    <3> QED
        BY <1>1, <3>1, CounterSteps, FinitePlaces DEF LimitInv
  <2>4. Cardinality(Outstanding) <= MaxRequired + 1
      BY DEF LimitInv
  <2>5. MaxRequired' = MaxRequired
      BY DEF MaxRequired, WindowSamples
  <2> QED
      BY <1>1, <2>1, <2>2, <2>3, <2>4, FinitePlaces DEF LimitInv
<1>7. ASSUME ProcTakePending
      PROVE  LimitInv'
  <2>1. /\ procPc = "get" /\ procPc' = "reap" /\ staleness_samples' = staleness_samples + 1
        /\ UNCHANGED <<stage, cancel_queue, queue>>
      BY <1>7 DEF ProcTakePending, ProcGoto, taskVars, queueVars, mqVars
  <2>2. Outstanding' \subseteq Outstanding \union {hand'}
      BY <2>1 DEF Outstanding, Underway
  <2>3. /\ IsFiniteSet(Outstanding \union {hand'})
        /\ Cardinality(Outstanding \union {hand'}) =
             IF hand' \in Outstanding THEN Cardinality(Outstanding) ELSE Cardinality(Outstanding) + 1
      BY FinitePlaces, FS_AddElement
  <2>4. /\ Cardinality(Outstanding') <= Cardinality(Outstanding \union {hand'})
        /\ Cardinality(Outstanding') \in Nat
      BY <2>2, <2>3, FS_Subset, FS_CardinalityType
  <2>5. Cardinality(Outstanding') <= Cardinality(Outstanding) + 1
      BY <2>3, <2>4, FinitePlaces
  <2>6. Cardinality(Outstanding) <= MaxRequired /\ Cardinality(Outstanding) <= staleness_samples + 1
      BY <2>1 DEF LimitInv
  <2> QED
      BY <1>1, <2>1, <2>4, <2>5, <2>6, FinitePlaces, SMTT(30) DEF LimitInv
<1> QED
    BY <1>2, <1>5, <1>6, <1>7 DEF RecountInv

\* At the start nothing is outstanding.
LEMMA LimitInit == Init => RecountInv /\ LimitInv
<1> SUFFICES ASSUME Init PROVE RecountInv /\ LimitInv
    OBVIOUS
<1>1. /\ hand = NoSample /\ cancel_queue = <<>> /\ queue = <<>>
      /\ stage = [s \in Samples |-> "none"]
      /\ updatePc = "done" /\ procPc = "top" /\ staleness_samples = 0
    BY DEF Init, RolloutInit, MQInit
<1>2. Range(<<>>) = {} /\ Underway = {}
    BY <1>1 DEF Range, Underway
<1>3. Cardinality(Outstanding) = 0
  <2>1. Outstanding = {}
      BY <1>1, <1>2 DEF Outstanding
  <2> QED
      BY <2>1, FS_EmptySet
<1>4. MaxRequired \in Nat
    BY RolloutAssumption, MessageQueueAssumption
<1> QED
    BY <1>1, <1>3, <1>4 DEF RecountInv, LimitInv

\* No more than one sample beyond max_required_samples is outstanding, for every configuration.
THEOREM OneSampleBeyondLimit == Spec => []OutstandingBound
<1>1. TypeOK /\ RecountInv /\ LimitInv /\ [Next]_vars => RecountInv' /\ LimitInv'
    BY LimitStep
<1>2. LimitInv => OutstandingBound
    BY DEF LimitInv, OutstandingBound
<1> QED
    BY <1>1, <1>2, LimitInit, TypeCorrect, PTL DEF Spec

-----------------------------------------------------------------------------
(* How old the samples of a batch are *)

\* the trainer is in its loop, collecting or training, or synchronizes from within it
InLoop == ~finishing /\ trainPc # "drained"
Collecting == trainPc \in {"get", "train"}

\* the samples taken in this and the earlier windows, if all windows were full
Progress == trainer_version * WindowSamples + (local_trigger_step - 1) * RequiredSamples
            + Cardinality(batch)

BatchInv ==
    /\ trainPc = "get" => Cardinality(batch) < RequiredSamples
    /\ trainPc = "train" => Cardinality(batch) = RequiredSamples
    /\ InLoop /\ ~Collecting => batch = {} /\ local_trigger_step = 1
    /\ Collecting => ~finishing
    /\ trainPc \in {"waitEnd", "ended"} => finishing

\* the Progress at which a sample must have been taken
Latest(s) == (started_version[s] + 2) * WindowSamples + MaxRequired

StaleInv ==
    /\ Len(queue) <= MaxRequired
    /\ InLoop =>
         /\ \A i \in 1..Len(queue) : queue[i] # NoSample => Progress + i <= Latest(queue[i])
         /\ \A s \in batch : trainer_version * WindowSamples + 1 <= Latest(s)

AgeInv == BatchInv /\ StaleInv

\* the constants and the variables the arithmetic is about are numbers
LEMMA Numbers ==
    ASSUME TypeOK
    PROVE  /\ RequiredSamples \in Nat /\ RequiredSamples > 0 /\ TriggerStep \in Nat /\ TriggerStep > 0
           /\ WindowSamples \in Nat /\ WindowSamples > 0
           /\ MaxRequired \in Nat /\ MaxRequired > 0 /\ MaxQueueSize = MaxRequired
           /\ trainer_version \in Nat /\ engine_version \in Nat /\ local_trigger_step \in 1..TriggerStep
           /\ IsFiniteSet(batch) /\ Cardinality(batch) \in Nat /\ Len(queue) \in Nat
           /\ (local_trigger_step - 1) * RequiredSamples \in Nat
           /\ trainer_version * WindowSamples \in Nat /\ Progress \in Nat
           /\ started_version \in [Samples -> Nat]
<1>1. RequiredSamples \in Nat /\ RequiredSamples > 0 /\ TriggerStep \in Nat /\ TriggerStep > 0
      /\ MaxRequired \in Nat /\ MaxRequired > 0 /\ MaxQueueSize = MaxRequired
    BY RolloutAssumption, MessageQueueAssumption
<1>2. \A j, k \in Nat : j * k \in Nat /\ (j > 0 /\ k > 0 => j * k > 0)
    OBVIOUS
<1>3. WindowSamples \in Nat /\ WindowSamples > 0
    BY <1>1, <1>2 DEF WindowSamples
<1>4. /\ trainer_version \in Nat /\ engine_version \in Nat /\ local_trigger_step \in 1..TriggerStep
      /\ batch \subseteq Samples /\ started_version \in [Samples -> Nat]
    BY DEF TypeOK, RollouterTypeOK, TrainerTypeOK, EngineTypeOK, TaskTypeOK
<1>5. IsFiniteSet(batch) /\ Cardinality(batch) \in Nat
  <2>1. IsFiniteSet(Samples)
      BY FS_Interval, RolloutAssumption DEF Samples
  <2> QED
      BY <1>4, <2>1, FS_Subset, FS_CardinalityType
<1>6. local_trigger_step - 1 \in Nat
    BY <1>1, <1>4
<1>7. (local_trigger_step - 1) * RequiredSamples \in Nat /\ trainer_version * WindowSamples \in Nat
    BY <1>1, <1>2, <1>3, <1>4, <1>6, Zenon
<1>8. Progress \in Nat
    BY <1>5, <1>7 DEF Progress
<1>9. Len(queue) \in Nat
    BY PlaceTypes
<1> QED
    BY <1>1, <1>3, <1>4, <1>5, <1>7, <1>8, <1>9

\* the number of windows in so many samples
LEMMA Windows ==
    ASSUME NEW w \in Nat, w > 0, NEW m \in Nat, NEW j \in Nat, NEW k \in Nat,
           j * w <= k * w + m
    PROVE  j - k <= m \div w
<1>1. PICK q \in Nat : q = m \div w
    OBVIOUS
<1>2. m < (q + 1) * w
    BY <1>1
<1> SUFFICES ASSUME ~(j - k <= q) PROVE FALSE
    BY <1>1
<1>3. PICK d \in Nat : j = k + q + 1 + d
  <2>1. j - k - q - 1 \in Nat /\ j = k + q + 1 + (j - k - q - 1)
      BY <1>1
  <2> QED
      BY <2>1
<1>4. j * w = k * w + (q + 1) * w + d * w
    BY <1>3
<1>5. d * w \in Nat /\ k * w \in Nat /\ (q + 1) * w \in Nat
    OBVIOUS
<1> QED
    BY <1>2, <1>4, <1>5

\* What the invariant says of a batch about to be trained on.
LEMMA AgeBound ==
    ASSUME TypeOK, AgeInv
    PROVE  BoundedStaleness
<1> SUFFICES ASSUME trainPc = "train", NEW s \in batch
             PROVE  trainer_version - started_version[s] <= 2 + (MaxRequired - 1) \div WindowSamples
    BY DEF BoundedStaleness
<1>1. InLoop
    BY DEF AgeInv, BatchInv, InLoop, Collecting
<1>2. trainer_version * WindowSamples + 1 <= (started_version[s] + 2) * WindowSamples + MaxRequired
    BY <1>1 DEF AgeInv, StaleInv, Latest
<1>3. s \in Samples
    BY DEF TypeOK, TrainerTypeOK
<1>4. PICK v \in Nat : v = started_version[s]
    BY <1>3, Numbers
<1>5. PICK w \in Nat : w = WindowSamples /\ w > 0
    BY Numbers
<1>6. PICK m \in Nat : m = MaxRequired - 1 /\ m + 1 = MaxRequired
  <2>1. \A k \in Nat : k > 0 => k - 1 \in Nat /\ k - 1 + 1 = k
      OBVIOUS
  <2> QED
      BY <2>1, Numbers, Zenon
<1>7. PICK t \in Nat : t = trainer_version
    BY Numbers
<1>8. t * w \in Nat /\ (v + 2) * w \in Nat
    BY <1>4, <1>5, <1>7
<1>9. t * w <= (v + 2) * w + m
  <2>1. t * w + 1 <= (v + 2) * w + (m + 1)
      BY <1>2, <1>4, <1>5, <1>6, <1>7
  <2> QED
      BY <1>8, <2>1
<1>10. t - (v + 2) <= m \div w
    BY <1>5, <1>9, Windows
<1>11. m \div w \in Int
    BY <1>5
<1> QED
    BY <1>4, <1>5, <1>6, <1>7, <1>10, <1>11

\* A sample put now has the wait of a full queue before it.
LEMMA ProgressBound ==
    ASSUME TypeOK, SyncInv, BatchInv, InLoop
    PROVE  Progress <= (engine_version + 1) * WindowSamples
<1> USE Numbers
<1>1. /\ trainPc \in {"get", "train", "waitLast", "pausing", "syncing"}
      /\ trainer_version = IF Collecting THEN engine_version ELSE engine_version + 1
    BY DEF TypeOK, TrainerTypeOK, SyncInv, VersionInv, BatchInv, InLoop, Collecting
<1>2. CASE ~Collecting
  <2>1. batch = {} /\ local_trigger_step = 1 /\ trainer_version = engine_version + 1
      BY <1>1, <1>2 DEF BatchInv
  <2>2. Cardinality(batch) = 0 /\ (local_trigger_step - 1) * RequiredSamples = 0
      BY <2>1, FS_EmptySet
  <2>3. (engine_version + 1) * WindowSamples \in Nat
      BY <2>1
  <2> QED
      BY <2>1, <2>2, <2>3 DEF Progress
<1>3. CASE Collecting
  <2>1. Cardinality(batch) <= RequiredSamples /\ trainer_version = engine_version
      BY <1>1, <1>3, SMTT(30) DEF BatchInv, Collecting
  <2>2. (local_trigger_step - 1) * RequiredSamples + RequiredSamples <= WindowSamples
    <3>1. \A r, t \in Nat : \A k \in 1..t : (k - 1) * r + r <= r * t
      <4> SUFFICES ASSUME NEW r \in Nat, NEW t \in Nat, NEW k \in 1..t PROVE (k - 1) * r + r <= r * t
          OBVIOUS
      <4>1. PICK d \in Nat : t = k + d
        <5>1. t - k \in Nat /\ t = k + (t - k)
            OBVIOUS
        <5> QED
            BY <5>1
      <4>2. r * t = r * k + r * d /\ r * d \in Nat /\ r * k \in Nat /\ (k - 1) * r + r = r * k
          BY <4>1
      <4> QED
          BY <4>2
    <3> QED
        BY <3>1 DEF WindowSamples
  <2>3. (engine_version + 1) * WindowSamples = engine_version * WindowSamples + WindowSamples
    <3>1. \A j, k \in Nat : (j + 1) * k = j * k + k
        OBVIOUS
    <3> QED
        BY <3>1
  <2>4. engine_version * WindowSamples \in Nat
      BY <2>1
  <2>5. \A h, i, j, k, n \in Nat : i <= k /\ j + k <= n => h + j + i <= h + n
      OBVIOUS
  <2>6. engine_version * WindowSamples + (local_trigger_step - 1) * RequiredSamples + Cardinality(batch)
        <= engine_version * WindowSamples + WindowSamples
      BY <2>1, <2>2, <2>4, <2>5, Zenon
  <2> QED
      BY <2>1, <2>3, <2>6, Zenon DEF Progress
<1> QED
    BY <1>2, <1>3

\* The trainer's batch is what its place in the loop says.
LEMMA BatchStep ==
    ASSUME TypeOK, BatchInv, [Next]_vars
    PROVE  BatchInv'
<1> USE DEF BatchInv, InLoop, Collecting
<1>1. CASE UNCHANGED trainerVars
    BY <1>1 DEF trainerVars
<1>2. CASE TrainerGet
  <2>1. PICK x : x = Head(queue)
      OBVIOUS
  <2>2. trainPc = "get" /\ batch' = batch \union {x} /\ UNCHANGED finishing
        /\ trainPc' = IF Cardinality(batch') = RequiredSamples THEN "train" ELSE "get"
      BY <1>2, <2>1 DEF TrainerGet
  <2>3. Cardinality(batch') = IF x \in batch THEN Cardinality(batch) ELSE Cardinality(batch) + 1
      BY <2>2, Numbers, FS_AddElement
  <2>4. Cardinality(batch') \in Nat /\ Cardinality(batch') <= RequiredSamples
      BY <2>2, <2>3, Numbers
  <2> QED
      BY <2>2, <2>4, Numbers
<1>3. CASE TrainerTrain
  <2>1. batch' = {} /\ Cardinality(batch') = 0
      BY <1>3, FS_EmptySet DEF TrainerTrain
  <2> QED
      BY <1>3, <2>1, Numbers DEF TrainerTrain, StartSync
<1>4. CASE SyncDone
  <2>1. ~finishing => Cardinality(batch) = 0
      BY <1>4, FS_EmptySet DEF SyncDone
  <2> QED
      BY <1>4, <2>1, Numbers DEF SyncDone
<1>5. CASE TrainerWait \/ TrainerGetNone \/ TrainerDrained \/ TrainerEnd
    BY <1>5 DEF TrainerWait, TrainerGetNone, TrainerDrained, TrainerEnd, StartSync, trainerVars
<1>6. CASE SyncPause \/ SyncWeights
    BY <1>6 DEF SyncPause, SyncWeights
<1> QED
    BY <1>1, <1>2, <1>3, <1>4, <1>5, <1>6, NextCases DEF Trainer, Synchronizer, vars

\* the constants of the bounds are the same after a step
LEMMA SameBounds == WindowSamples' = WindowSamples /\ MaxRequired' = MaxRequired
                    /\ RequiredSamples' = RequiredSamples
BY DEF MaxRequired, WindowSamples

\* A step that leaves the queue, the batch and the stamps of their samples alone.
LEMMA StaleKept ==
    ASSUME TypeOK, StaleInv, UNCHANGED <<queue, batch, trainer_version, local_trigger_step>>,
           InLoop' => InLoop,
           \A s \in Samples : s \in Range(queue) \/ s \in batch =>
              started_version'[s] = started_version[s]
    PROVE  StaleInv'
<1>1. Progress' = Progress
    BY DEF Progress, WindowSamples
<1>2. ASSUME NEW s \in Samples, s \in Range(queue) \/ s \in batch
      PROVE  Latest(s)' = Latest(s)
    BY <1>2, SameBounds DEF Latest
<1>3. batch \subseteq Samples /\ queue \in Seq(Samples \union {NoSample})
    BY PlaceTypes DEF TypeOK, TrainerTypeOK
<1>4. ASSUME NEW i \in 1..Len(queue), queue[i] # NoSample
      PROVE  queue[i] \in Samples /\ queue[i] \in Range(queue)
    BY <1>3, <1>4 DEF Range
<1>5. ASSUME InLoop', NEW i \in 1..Len(queue), queue[i] # NoSample
      PROVE  Progress' + i <= Latest(queue[i])'
  <2>1. Progress + i <= Latest(queue[i])
      BY <1>5 DEF StaleInv
  <2>2. PICK s \in Samples : s = queue[i] /\ s = queue'[i]
      BY <1>4, <1>5
  <2>3. Latest(s)' = Latest(s)
      BY <1>2, <1>4, <1>5, <2>2
  <2> QED
      BY <1>1, <2>1, <2>2, <2>3 DEF Latest
<1>6. ASSUME InLoop', NEW s \in batch
      PROVE  trainer_version' * WindowSamples' + 1 <= Latest(s)'
    BY <1>2, <1>3, <1>6, SameBounds DEF StaleInv
<1> QED
    BY <1>5, <1>6, SameBounds DEF StaleInv

\* A bound on Progress is a number.
LEMMA LatestType ==
    ASSUME TypeOK, NEW s \in Samples
    PROVE  Latest(s) \in Nat
<1>1. \A j, k \in Nat : j * k \in Nat /\ j + k \in Nat
    OBVIOUS
<1>2. started_version \in [Samples -> Nat] /\ WindowSamples \in Nat /\ MaxRequired \in Nat
    BY Numbers, Zenon
<1>3. started_version[s] \in Nat
    BY <1>2, Zenon
<1>4. started_version[s] + 2 \in Nat
    BY ONLY <1>3
<1> QED
    BY <1>1, <1>2, <1>4, Zenon DEF Latest

\* put_sample: the sample put is the last of at most MaxRequired.
LEMMA StalePut ==
    ASSUME TypeOK, StaleInv, NEW x \in Samples \union {NoSample}, RemotePut(x),
           UNCHANGED <<started_version, trainerVars>>,
           x # NoSample /\ InLoop => Progress + MaxRequired <= Latest(x)
    PROVE  StaleInv'
<1>0. MaxRequired \in Nat /\ MaxQueueSize = MaxRequired /\ MaxRequired > 0 /\ Progress \in Nat
      /\ Len(queue) \in Nat
    BY Numbers
<1>1. Progress' = Progress /\ \A s : Latest(s)' = Latest(s)
    BY SameBounds DEF Progress, Latest, trainerVars
<1>2. queue \in Seq(Samples \union {NoSample})
    BY PlaceTypes
<1>3. PICK kept : kept = IF QueueFull THEN Tail(queue) ELSE queue
    OBVIOUS
<1>4. /\ kept \in Seq(Samples \union {NoSample}) /\ Len(kept) \in Nat /\ Len(kept) < MaxRequired
      /\ \A i \in 1..Len(kept) : \E j \in 1..Len(queue) : i <= j /\ kept[i] = queue[j]
  <2>1. CASE QueueFull
    <3>1. queue # <<>> /\ kept = Tail(queue) /\ Len(queue) <= MaxRequired
        BY <1>0, <1>2, <1>3, <2>1 DEF QueueFull, StaleInv
    <3>2. /\ kept \in Seq(Samples \union {NoSample}) /\ Len(kept) = Len(queue) - 1
          /\ \A i \in 1..Len(kept) : i + 1 \in 1..Len(queue) /\ kept[i] = queue[i + 1]
        BY <1>2, <3>1
    <3>3. \A i \in 1..Len(kept) : i <= i + 1
        OBVIOUS
    <3> QED
        BY <1>0, <3>1, <3>2, <3>3
  <2>2. CASE ~QueueFull
      BY <1>0, <1>2, <1>3, <2>2 DEF QueueFull
  <2> QED
      BY <2>1, <2>2
<1>5. /\ queue' = Append(kept, x) /\ Len(queue') = Len(kept) + 1
      /\ \A i \in 1..Len(queue') : \/ i = Len(kept) + 1 /\ queue'[i] = x
                                   \/ i \in 1..Len(kept) /\ queue'[i] = kept[i]
  <2>1. queue' = Append(kept, x)
      BY <1>3 DEF RemotePut, PutSample
  <2>2. PICK q : q = Append(kept, x)
      OBVIOUS
  <2>3. Len(q) = Len(kept) + 1 /\ q[Len(kept) + 1] = x /\ \A i \in 1..Len(kept) : q[i] = kept[i]
      BY <1>4, <2>2
  <2>4. \A i \in 1..Len(q) : i = Len(kept) + 1 \/ i \in 1..Len(kept)
    <3>1. \A n \in Nat : \A i \in 1..n + 1 : i = n + 1 \/ i \in 1..n
        OBVIOUS
    <3> QED
        BY <1>4, <2>3, <3>1, Zenon
  <2> QED
      BY <2>1, <2>2, <2>3, <2>4
<1>6. InLoop' <=> InLoop
    BY DEF InLoop, trainerVars
<1>7. ASSUME InLoop, NEW i \in 1..Len(queue'), queue'[i] # NoSample
      PROVE  Progress + i <= Latest(queue'[i])
  <2>1. PICK y : y = queue'[i]
      OBVIOUS
  <2>2. y \in Samples => Latest(y) \in Nat
      BY LatestType
  <2>3. CASE i = Len(kept) + 1 /\ y = x
    <3>1. i <= MaxRequired /\ i \in Nat
        BY <1>0, <1>4, <2>3
    <3>2. y \in Samples /\ x # NoSample
        BY <1>7, <2>1, <2>3
    <3>3. Progress + MaxRequired <= Latest(y) /\ Latest(y) \in Nat
        BY <1>7, <2>2, <2>3, <3>2
    <3>4. Progress + i <= Latest(y)
        BY <1>0, <3>1, <3>3
    <3> QED
        BY <2>1, <3>4
  <2>4. CASE i \in 1..Len(kept) /\ y = kept[i]
    <3>1. PICK j \in 1..Len(queue) : i <= j /\ y = queue[j]
        BY <1>4, <2>4
    <3>2. Progress + j <= Latest(y) /\ y \in Samples /\ i \in Nat /\ j \in Nat
        BY <1>0, <1>2, <1>7, <2>1, <2>4, <3>1 DEF StaleInv
    <3>3. Progress + i <= Latest(y)
        BY <1>0, <2>2, <3>1, <3>2
    <3> QED
        BY <2>1, <3>3
  <2> QED
      BY <1>5, <2>1, <2>3, <2>4
<1>8. Len(queue') <= MaxRequired
    BY <1>0, <1>4, <1>5
<1>9. UNCHANGED <<batch, trainer_version>>
    BY DEF trainerVars
<1> QED
    BY <1>1, <1>6, <1>7, <1>8, <1>9, SameBounds DEF StaleInv

\* The trainer takes the head: it gets one further, and every other sample one nearer.
LEMMA StaleGet ==
    ASSUME TypeOK, StaleInv, BatchInv, TrainerGet
    PROVE  StaleInv'
<1>0. /\ queue \in Seq(Samples \union {NoSample}) /\ queue # <<>> /\ queue' = Tail(queue)
      /\ UNCHANGED <<started_version, trainer_version, local_trigger_step>>
      /\ InLoop /\ batch \subseteq Samples
    BY PlaceTypes DEF TrainerGet, TakeSample, rollouterInside, taskVars, InLoop, BatchInv, Collecting,
       TypeOK, TrainerTypeOK
<1>1. PICK x \in Samples : x = Head(queue) /\ x = queue[1] /\ batch' = batch \union {x}
  <2>1. Head(queue) = queue[1] /\ queue[1] \in Samples
      BY <1>0 DEF TrainerGet
  <2> QED
      BY <2>1 DEF TrainerGet
<1>2. Cardinality(batch') \in Nat /\ Cardinality(batch') <= Cardinality(batch) + 1
  <2>1. Cardinality(batch') = IF x \in batch THEN Cardinality(batch) ELSE Cardinality(batch) + 1
      BY <1>1, Numbers, FS_AddElement
  <2> QED
      BY <2>1, Numbers, SMTT(30)
<1>3. PICK p \in Nat : p = Progress
    BY Numbers
<1>4. PICK base \in Nat : base = trainer_version * WindowSamples
    BY Numbers
<1>5. PICK part \in Nat : part = (local_trigger_step - 1) * RequiredSamples
    BY Numbers
<1>6. p = base + part + Cardinality(batch) /\ base <= p
  <2>1. p = base + part + Cardinality(batch)
      BY <1>3, <1>4, <1>5 DEF Progress
  <2> QED
      BY <2>1, Numbers, SMTT(30)
<1>7. PICK pn \in Nat : pn = Progress' /\ pn <= p + 1
  <2>1. Progress' = base + part + Cardinality(batch')
      BY <1>0, <1>4, <1>5, SameBounds DEF Progress
  <2>2. Cardinality(batch) \in Nat
      BY Numbers
  <2>3. base + part + Cardinality(batch') \in Nat /\ base + part + Cardinality(batch') <= p + 1
      BY <1>2, <1>6, <2>2
  <2> QED
      BY <2>1, <2>3
<1>8. \A s : Latest(s)' = Latest(s)
    BY <1>0, SameBounds DEF Latest
<1>9. /\ Len(queue) \in Nat /\ Len(queue') = Len(queue) - 1
      /\ \A i \in 1..Len(queue') : i + 1 \in 1..Len(queue) /\ queue'[i] = queue[i + 1] /\ i \in Nat
    BY <1>0
<1>10. ASSUME NEW i \in 1..Len(queue'), queue'[i] # NoSample
       PROVE  Progress' + i <= Latest(queue'[i])
  <2>1. PICK y \in Samples : y = queue'[i]
      BY <1>0, <1>9, <1>10
  <2>2. p + (i + 1) <= Latest(y) /\ Latest(y) \in Nat
      BY <1>0, <1>3, <1>9, <1>10, <2>1, LatestType DEF StaleInv
  <2>3. pn + i <= Latest(y)
      BY <1>7, <1>9, <2>2
  <2> QED
      BY <1>7, <2>1, <2>3
<1>11. ASSUME NEW s \in batch'
       PROVE  base + 1 <= Latest(s)
  <2>1. CASE s \in batch
      BY <1>0, <1>4, <2>1 DEF StaleInv
  <2>2. CASE s = x
    <3>1. 1 \in 1..Len(queue) /\ x # NoSample
        BY <1>0, PlaceTypes
    <3>2. p + 1 <= Latest(x) /\ Latest(x) \in Nat
        BY <1>0, <1>1, <1>3, <3>1, LatestType DEF StaleInv
    <3> QED
        BY <1>6, <2>2, <3>2
  <2> QED
      BY <1>1, <1>11, <2>1, <2>2
<1>12. Len(queue') <= MaxRequired
  <2>1. MaxRequired \in Nat
      BY Numbers
  <2> QED
      BY <1>9, <2>1 DEF StaleInv
<1> QED
    BY <1>0, <1>4, <1>8, <1>10, <1>11, <1>12, SameBounds DEF StaleInv

\* A trained batch makes room for one in the same window or the first of the next.
LEMMA StaleTrain ==
    ASSUME TypeOK, StaleInv, BatchInv, TrainerTrain
    PROVE  StaleInv'
<1>1. /\ UNCHANGED <<queue, started_version>> /\ batch' = {} /\ InLoop
      /\ Cardinality(batch) = RequiredSamples /\ Cardinality(batch') = 0
    BY FS_EmptySet DEF TrainerTrain, rollouterInside, taskVars, queueVars, mqVars, InLoop, BatchInv,
       Collecting
<1>2. Progress' = Progress
  <2>0. PICK r, l, v, w : r = RequiredSamples /\ l = local_trigger_step /\ v = trainer_version
                          /\ w = WindowSamples
      OBVIOUS
  <2>1. r \in Nat /\ TriggerStep \in Nat /\ l \in 1..TriggerStep /\ v \in Nat /\ w \in Nat
      BY <2>0, Numbers
  <2>2. Progress = v * w + (l - 1) * r + r
      BY <1>1, <2>0 DEF Progress
  <2>3. (l - 1) * r + r = l * r /\ (l - 1) * r \in Int /\ l * r \in Int /\ v * w \in Int
      BY <2>1
  <2>4. Progress = v * w + l * r
      BY <2>1, <2>2, <2>3
  <2>5. Progress' = trainer_version' * w + (local_trigger_step' - 1) * r + 0
      BY <1>1, <2>0, SameBounds DEF Progress
  <2>6. CASE local_trigger_step' = l + 1 /\ trainer_version' = v
    <3>1. v * w + l * r + 0 = v * w + l * r
        BY <2>3
    <3>2. trainer_version' = v /\ local_trigger_step' - 1 = l
        BY <2>1, <2>6
    <3>3. Progress' = v * w + l * r + 0
        BY <2>5, <3>2, Zenon
    <3> QED
        BY <2>4, <3>1, <3>3, Zenon
  <2>7. CASE l = TriggerStep /\ local_trigger_step' = 1 /\ trainer_version' = v + 1
    <3>1. w = l * r
      <4>1. \A j, k \in Nat : j * k = k * j
          OBVIOUS
      <4> QED
          BY <2>0, <2>1, <2>7, <4>1 DEF WindowSamples
    <3>2. (v + 1) * w + (1 - 1) * r + 0 = v * w + w
        BY <2>1
    <3>3. Progress' = (v + 1) * w + (1 - 1) * r + 0
        BY <2>5, <2>7, Zenon
    <3> QED
        BY <2>4, <3>1, <3>2, <3>3, Zenon
  <2>8. l >= TriggerStep => l = TriggerStep
      BY <2>1
  <2> QED
      BY <2>0, <2>6, <2>7, <2>8 DEF TrainerTrain, StartSync
<1>3. \A s : Latest(s)' = Latest(s)
    BY <1>1, SameBounds DEF Latest
<1> QED
    BY <1>1, <1>2, <1>3, SameBounds DEF StaleInv

\* The other steps of the trainer and of the synchronizer.
LEMMA StaleTrainer ==
    ASSUME TypeOK, StaleInv, BatchInv, Trainer \/ Synchronizer
    PROVE  StaleInv'
<1>1. CASE TrainerGetNone
  <2>1. queue \in Seq(Samples \union {NoSample}) /\ queue # <<>> /\ queue' = Tail(queue) /\ ~InLoop'
      BY <1>1, PlaceTypes DEF TrainerGetNone, TakeSample, InLoop
  <2>2. Len(queue') = Len(queue) - 1 /\ Len(queue) \in Nat
      BY <2>1
  <2> QED
      BY <2>1, <2>2, SameBounds, Numbers, SMTT(30) DEF StaleInv
<1>2. CASE TrainerDrained
    BY <1>2, SameBounds DEF TrainerDrained, queueVars, mqVars, InLoop, StaleInv
<1>3. CASE TrainerWait \/ TrainerEnd \/ SyncPause \/ SyncWeights \/ SyncDone
  <2>1. UNCHANGED <<queue, batch, trainer_version, local_trigger_step, started_version>>
      BY <1>3 DEF TrainerWait, WaitSample, TrainerEnd, SyncPause, SyncWeights, UpdateMQVersion,
         SyncDone, rollouterInside, taskVars, queueVars, mqVars, trainerVars
  <2>2. InLoop' => InLoop
      BY <1>3 DEF TrainerWait, TrainerEnd, SyncPause, SyncWeights, SyncDone, trainerVars, InLoop
  <2> QED
      BY <2>1, <2>2, StaleKept
<1> QED
    BY <1>1, <1>2, <1>3, StaleGet, StaleTrain DEF Trainer, Synchronizer

\* A step of the Rollouter puts what is generated, and stamps only what is neither queued nor taken.
LEMMA StaleRollouter ==
    ASSUME TypeOK, PlaceInv, SyncInv, AgeInv, UNCHANGED <<trainerVars, engineVars>>,
           \/ TaskBegins \/ Feed \/ Processor \/ Monitor \/ Main \/ Pause \/ Update \/ Resume
           \/ Reply \/ \E s \in Samples : Task(s) \/ TaskRaises(s)
    PROVE  StaleInv'
<1> USE DEF AgeInv
<1>1. UNCHANGED <<batch, trainer_version, local_trigger_step>> /\ (InLoop' => InLoop)
    BY DEF trainerVars, InLoop
<1>2. CASE UNCHANGED <<queue, started_version>>
    BY <1>1, <1>2, StaleKept
<1>3. CASE TaskBegins
  <2>1. PICK h : /\ stage[h] = "new"
                 /\ started_version' = [started_version EXCEPT ![h] = current_param_version]
      BY <1>3 DEF TaskBegins
  <2>2. queue' = queue /\ \A s \in Samples : s # h => started_version'[s] = started_version[s]
      BY <1>3, <2>1 DEF TaskBegins, queueVars, mqVars, SyncInv, Functional
  <2>3. ASSUME NEW s \in Samples, s \in Range(queue) \/ s \in batch
        PROVE  s # h
    <3>1. PlacesOf(s) <= 1
        BY DEF PlaceInv, CountInv
    <3> QED
        BY <2>1, <2>3, <3>1 DEF PlacesOf, One
  <2> QED
      BY <1>1, <2>2, <2>3, StaleKept
<1>4. CASE \E s \in Samples : TaskPut(s)
  <2>1. PICK s \in Samples : TaskPut(s)
      BY <1>4
  <2>2. UNCHANGED started_version /\ RemotePut(s)
      BY <2>1 DEF TaskPut, taskFrame
  <2>3. engine_version \in {started_version[s], started_version[s] + 1}
      BY <2>1 DEF TaskPut, SyncInv, StampInv, Begun
  <2>4. InLoop => Progress + MaxRequired <= Latest(s)
    <3>1. PICK e \in Nat, v \in Nat, w \in Nat :
              e = engine_version /\ v = started_version[s] /\ w = WindowSamples
        BY Numbers
    <3>2. (e + 1) * w <= (v + 2) * w /\ (e + 1) * w \in Nat /\ (v + 2) * w \in Nat
      <4>1. \A k \in Nat : (v + 1) * k \in Nat /\ (v + 2) * k = (v + 1) * k + k
          OBVIOUS
      <4>2. e + 1 = v + 1 \/ e + 1 = v + 2
          BY <2>3, <3>1
      <4> QED
          BY <4>1, <4>2
    <3>3. Latest(s) = (v + 2) * w + MaxRequired /\ (InLoop => Progress <= (e + 1) * w)
        BY <3>1, ProgressBound DEF Latest
    <3>4. Progress \in Nat /\ MaxRequired \in Nat
        BY Numbers
    <3> QED
        BY <3>2, <3>3, <3>4
  <2> QED
      BY <2>2, <2>4, StalePut
<1>5. CASE MainSentinel
    BY <1>5, StalePut DEF MainSentinel, mainFrame, taskVars
<1>6. CASE Processor
    BY <1>2, <1>6 DEF Processor, ProcPause, ProcMark, ProcReapLock, ProcReapWait, ProcReapNothing,
       ProcReap, ProcFinished, ProcReaped, ProcSleep, ProcWoken, ProcRestart, ProcTakeCancelled,
       ProcAwaitPending, ProcTakePending, ProcSubmit, procFrame, taskVars, queueVars, mqVars
<1>7. CASE Feed
    BY <1>2, <1>7 DEF Feed, FeedSample, FeedDone, FeedItem, taskVars, queueVars, mqVars
<1>8. CASE Monitor \/ MonTimer \/ Main
    BY <1>2, <1>8 DEF Monitor, MonLock, MonTest, MonTimer, MonDecide, MonSkip, MonKick, monFrame,
       Main, MainFinish, MainLock, MainStop, mainFrame, taskVars, queueVars, mqVars
<1>9. CASE \E s \in Samples : (Task(s) /\ ~TaskPut(s)) \/ TaskRaises(s)
    BY <1>2, <1>9 DEF Task, TaskArrives, TaskGenerated, TaskReturned, TaskCancelled, TaskRaises, taskFrame,
       queueVars, mqVars
<1>10. CASE Pause \/ CancelReply \/ ClearReply
    BY <1>2, <1>10 DEF Pause, PauseLock, PauseBegin, PauseGather, PauseGathered, CancelReply,
       ClearReply, PauseDone, pauseFrame, queueVars, mqVars
<1>11. CASE Update \/ SizeReply \/ ValidateReply
    BY <1>2, <1>11 DEF Update, UpdateLock, UpdateCount, SizeReply, UpdateAssign, ValidateReply,
       UpdateDone, updateFrame, taskVars, queueVars, mqVars
<1>12. CASE Resume \/ ServersReply
    BY <1>2, <1>12 DEF Resume, ResumeLock, ResumeBegin, ServersReply, ResumeDone, resumeFrame,
       queueVars, mqVars
<1> QED
    BY <1>3, <1>4, <1>5, <1>6, <1>7, <1>8, <1>9, <1>10, <1>11, <1>12 DEF Reply

\* AgeInv is inductive relative to TypeOK, PlaceInv and SyncInv.
LEMMA AgeStep ==
    ASSUME TypeOK, PlaceInv, SyncInv, AgeInv, [Next]_vars
    PROVE  AgeInv'
<1> USE DEF AgeInv
<1>1. BatchInv'
    BY BatchStep
<1>2. CASE UNCHANGED vars
  <2>1. UNCHANGED <<queue, batch, trainer_version, local_trigger_step, started_version>>
        /\ (InLoop' => InLoop)
      BY <1>2 DEF vars, rollouterVars, taskVars, queueVars, mqVars, trainerVars, InLoop
  <2> QED
      BY <1>1, <2>1, StaleKept
<1> QED
    BY <1>1, <1>2, StaleTrainer, StaleRollouter, NextCases

\* At the start no sample is queued.
LEMMA AgeInit == Init => AgeInv
<1> SUFFICES ASSUME Init PROVE AgeInv
    OBVIOUS
<1>1. /\ queue = <<>> /\ batch = {} /\ trainPc = "get" /\ finishing = FALSE /\ pausePc = "idle"
      /\ stage = [s \in Samples |-> "none"]
    BY DEF Init, RolloutInit, MQInit
<1>2. Cardinality(batch) = 0 /\ RequiredSamples > 0 /\ MaxRequired > 0 /\ MaxRequired \in Nat
    BY <1>1, FS_EmptySet, RolloutAssumption, MessageQueueAssumption
<1> QED
    BY <1>1, <1>2 DEF AgeInv, BatchInv, StaleInv, Collecting

\* No batch holds a sample older than BoundedStaleness says, for every configuration, with
\* and without partial_rollout, and whatever is submitted, interrupted or dropped meanwhile.
THEOREM StalenessIsBounded == Spec => []BoundedStaleness
<1>1. TypeOK /\ PlaceInv /\ SyncInv /\ AgeInv /\ [Next]_vars => AgeInv'
    BY AgeStep
<1>2. TypeOK /\ AgeInv => BoundedStaleness
    BY AgeBound
<1>3. Spec => []PlaceInv
  <2>1. TypeOK /\ PlaceInv /\ [Next]_vars => PlaceInv'
      BY PlaceStep
  <2> QED
      BY <2>1, PlaceInit, TypeCorrect, PTL DEF Spec
<1> QED
    BY <1>1, <1>2, <1>3, AgeInit, TypeCorrect, SyncInvariant, PTL DEF Spec

-----------------------------------------------------------------------------
(* Synchronous training: staleness_threshold = 0 *)

\* the end marker is put when the processor has ended, and nothing starts it again
EndInv ==
    /\ NoSample \in Range(queue) => mainPc \notin {"wait", "putting"}
    /\ mainPc # "wait" => procPc \in {"ended", "crashed"}

\* the trainer has all samples of a window; the Rollouter has not been given the next one
Due == trainPc \in {"waitLast", "pausing", "syncing"}
Uncounted == updatePc \in {"called", "locked", "sizing", "sized"}

\* what the recount counts but for the tasks whose first turn is to come, and the batch
Waiting == {s \in Samples : stage[s] = "new"}
Stamped == (Counted \ Waiting) \union batch

\* the samples of the current window, wherever they are
InWindow == Cardinality(Outstanding) + Cardinality(batch)
            + (local_trigger_step - 1) * RequiredSamples

(***************************************************************************)
(* Only one window of samples is taken from pending_queue between two      *)
(* recounts, so a synchronization, for which the trainer needs them all,   *)
(* finds nothing outstanding: neither in the processor's hand nor with an  *)
(* older stamp.                                                            *)
(***************************************************************************)
OneWindowInv ==
    /\ procPc = "get" => staleness_samples < WindowSamples
    /\ InLoop =>
         /\ Due => ~Uncounted
         /\ Due \/ Uncounted => /\ Outstanding = {} /\ batch = {} /\ local_trigger_step = 1
                                /\ staleness_samples >= WindowSamples
         /\ InWindow <= WindowSamples /\ InWindow <= staleness_samples
         /\ \A s \in Stamped : started_version[s] = trainer_version
    /\ ~InLoop => procPc \in {"ended", "crashed"} /\ Cardinality(Outstanding) <= WindowSamples

\* What has ended stays ended, and only then the end marker is put.
LEMMA EndStep ==
    ASSUME TypeOK, EndInv, [Next]_vars
    PROVE  /\ EndInv'
           /\ procPc \in {"ended", "crashed"} => procPc' = procPc
           /\ mainPc \notin {"wait", "putting"} => mainPc' \notin {"wait", "putting"}
<1>1. /\ procPc \in {"ended", "crashed"} => procPc' = procPc
      /\ mainPc' = mainPc \/ Main \/ MainSentinel
  <2>1. CASE Processor
      BY <2>1 DEF Processor, ProcPause, ProcMark, ProcReapLock, ProcReapWait, ProcReapNothing, ProcReap,
         ProcFinished, ProcReaped, ProcSleep, ProcWoken, ProcRestart, ProcTakeCancelled,
         ProcAwaitPending, ProcTakePending, ProcSubmit, procFrame, loopVars
  <2>2. CASE Monitor \/ Resume
      BY <2>2 DEF Monitor, MonLock, MonTest, MonDecide, MonSkip, MonKick, monFrame, NotifyAll, Resume,
         ResumeLock, ResumeBegin, ResumeDone, resumeFrame, loopVars
  <2>3. CASE Feed \/ MonTimer \/ MainSentinel \/ Main \/ ServersReply
      BY <2>3 DEF Feed, FeedSample, FeedDone, FeedItem, MonTimer, monFrame, MainSentinel, Main,
         MainFinish, MainLock, MainStop, mainFrame, procVars, loopVars, ServersReply, resumeFrame
  <2>4. CASE TaskBegins \/ \E s \in Samples : Task(s) \/ TaskRaises(s)
      BY <2>4 DEF TaskBegins, Task, TaskArrives, TaskGenerated, TaskPut, TaskReturned, TaskCancelled,
         TaskRaises, taskFrame, procVars, loopVars
  <2>5. CASE Pause \/ CancelReply \/ ClearReply
      BY <2>5 DEF Pause, PauseLock, PauseBegin, PauseGather, PauseGathered, ClearReply, CancelReply,
         PauseDone, pauseFrame, procVars, loopVars
  <2>6. CASE Update \/ SizeReply \/ ValidateReply
      BY <2>6 DEF Update, UpdateLock, UpdateCount, SizeReply, UpdateAssign, ValidateReply,
         UpdateDone, updateFrame, procVars, loopVars
  <2>7. CASE Trainer \/ Synchronizer
      BY <2>7 DEF Trainer, TrainerWait, TrainerGet, TrainerGetNone, TrainerTrain, TrainerDrained,
         TrainerEnd, Synchronizer, SyncPause, SyncWeights, SyncDone, rollouterInside, procVars, loopVars
  <2>8. CASE UNCHANGED vars
      BY <2>8 DEF vars, rollouterVars, procVars, loopVars
  <2> QED
      BY <2>1, <2>2, <2>3, <2>4, <2>5, <2>6, <2>7, <2>8, NextCases DEF Reply
<1>2. mainPc # "wait" => mainPc' # "wait" /\ (mainPc # "putting" => mainPc' # "putting")
    BY <1>1 DEF Main, MainFinish, MainLock, MainStop, MainSentinel
<1>3. mainPc' # "wait" => procPc \in {"ended", "crashed"}
    BY <1>1 DEF EndInv, Main, MainFinish, MainLock, MainStop, MainSentinel
<1>4. NoSample \in Range(queue') => NoSample \in Range(queue) \/ MainSentinel
  <2> USE PlaceTypes
  <2>1. CASE queue' = queue \/ MainSentinel
      BY <2>1
  <2>2. CASE \E s \in Samples : TaskPut(s)
      BY <2>2, RemotePutRange DEF TaskPut
  <2>3. CASE TrainerGet \/ TrainerGetNone
      BY <2>3, TailRange DEF TrainerGet, TrainerGetNone, TakeSample
  <2>4. CASE ~(TrainerGet \/ TrainerGetNone) /\ (Trainer \/ Synchronizer)
      BY <2>1, <2>4, TrainerOtherwise DEF placeVars, TrainerTrain, queueVars, mqVars
  <2>5. CASE Feed \/ Processor
      BY <2>1, <2>5 DEF Feed, FeedSample, FeedDone, FeedItem, Processor, ProcPause, ProcMark,
         ProcReapLock, ProcReapWait, ProcReapNothing, ProcReap, ProcFinished, ProcReaped, ProcSleep,
         ProcWoken, ProcRestart, ProcTakeCancelled, ProcAwaitPending, ProcTakePending, ProcSubmit,
         procFrame, queueVars, mqVars
  <2>6. CASE TaskBegins \/ \E s \in Samples : (Task(s) /\ ~TaskPut(s)) \/ TaskRaises(s)
      BY <2>1, <2>6 DEF TaskBegins, Task, TaskArrives, TaskGenerated, TaskReturned, TaskCancelled, TaskRaises, queueVars, mqVars
  <2>7. CASE Monitor \/ MonTimer \/ Main \/ Pause \/ CancelReply \/ ClearReply
      BY <2>1, <2>7 DEF Monitor, MonLock, MonTest, MonTimer, MonDecide, MonSkip, MonKick, monFrame,
         Main, MainFinish, MainLock, MainStop, mainFrame, Pause, PauseLock, PauseBegin, PauseGather,
         PauseGathered, CancelReply, ClearReply, PauseDone, pauseFrame, queueVars, mqVars
  <2>8. CASE Update \/ SizeReply \/ ValidateReply \/ Resume \/ ServersReply
      BY <2>1, <2>8 DEF Update, UpdateLock, UpdateCount, SizeReply, UpdateAssign, ValidateReply,
         UpdateDone, updateFrame, Resume, ResumeLock, ResumeBegin, ServersReply, ResumeDone, resumeFrame,
         queueVars, mqVars
  <2>9. CASE UNCHANGED vars
      BY <2>1, <2>9 DEF vars, rollouterVars, queueVars, mqVars
  <2> QED
      BY <2>1, <2>2, <2>3, <2>4, <2>5, <2>6, <2>7, <2>8, <2>9, NextCases DEF Reply
<1>5. MainSentinel => mainPc' = "stop"
    BY DEF MainSentinel
<1> QED
    BY <1>1, <1>2, <1>3, <1>4, <1>5 DEF EndInv

\* Without staleness the limit is a window.
LEMMA OneWindowLimit ==
    ASSUME StaleNum = 0
    PROVE  MaxRequired = WindowSamples
<1>1. \A w \in Nat, d \in Nat \ {0} : (w * d) \div d = w
    OBVIOUS
<1>2. WindowSamples \in Nat
  <2>1. RequiredSamples \in Nat /\ TriggerStep \in Nat /\ \A j, k \in Nat : j * k \in Nat
      BY RolloutAssumption
  <2> QED
      BY <2>1, Zenon DEF WindowSamples
<1>3. StaleDen \in Nat \ {0} /\ StaleNum + StaleDen = StaleDen
    BY RolloutAssumption
<1> QED
    BY <1>1, <1>2, <1>3, Zenon DEF MaxRequired

\* Which steps touch the samples, the queues and the processor.
LEMMA EndCases ==
    ASSUME TypeOK, [Next]_vars
    PROVE  /\ UNCHANGED <<fed, pending_queue>> \/ Feed \/ ProcTakePending
           /\ UNCHANGED reaping \/ ProcMark \/ ProcTakeCancelled \/ ProcTakePending
           /\ UNCHANGED procPc \/ Processor \/ NotifyAll
           /\ \/ UNCHANGED <<queue, dropped>> \/ MainSentinel \/ TrainerGet \/ TrainerGetNone
              \/ \E s \in Samples : TaskPut(s)
           /\ \/ UNCHANGED stage \/ ProcSubmit \/ TaskBegins \/ CancelReply
              \/ \E s \in Samples : Task(s) \/ TaskRaises(s)
<1>1. CASE UNCHANGED vars
    BY <1>1 DEF vars, rollouterVars, sampleVars, taskVars, procVars, queueVars, mqVars
<1>2. CASE Trainer \/ Synchronizer
    BY <1>2 DEF Trainer, TrainerWait, TrainerTrain, TrainerDrained, TrainerEnd, Synchronizer, SyncPause,
       SyncWeights, SyncDone, TrainerGet, TrainerGetNone, rollouterInside, sampleVars, taskVars, procVars,
       queueVars, mqVars, WaitSample, UpdateMQVersion
<1>3. CASE Feed
    BY <1>3 DEF Feed, FeedSample, FeedDone, FeedItem, taskVars, procVars, queueVars, mqVars
<1>4. CASE Processor
    BY <1>4 DEF Processor, ProcPause, ProcMark, ProcReapLock, ProcReapWait, ProcReapNothing, ProcReap,
       ProcFinished, ProcReaped, ProcSleep, ProcWoken, ProcRestart, ProcTakeCancelled, ProcAwaitPending,
       ProcTakePending, ProcSubmit, procFrame, sampleVars, taskVars, queueVars, mqVars
<1>5. CASE Monitor \/ MonTimer
    BY <1>5 DEF Monitor, MonLock, MonTest, MonTimer, MonDecide, MonSkip, MonKick, monFrame, sampleVars,
       taskVars, queueVars, mqVars
<1>6. CASE Main \/ MainSentinel
    BY <1>6 DEF Main, MainFinish, MainSentinel, MainLock, MainStop, mainFrame, sampleVars, taskVars,
       procVars, queueVars, mqVars
<1>7. CASE Pause \/ ClearReply \/ CancelReply
    BY <1>7 DEF Pause, PauseLock, PauseBegin, PauseGather, PauseGathered, PauseDone, ClearReply, CancelReply,
       pauseFrame, sampleVars, procVars, queueVars, mqVars
<1>8. CASE Update \/ SizeReply \/ ValidateReply
    BY <1>8 DEF Update, UpdateLock, UpdateCount, UpdateAssign, UpdateDone, SizeReply, ValidateReply,
       updateFrame, sampleVars, taskVars, procVars, queueVars, mqVars
<1>9. CASE Resume \/ ServersReply
    BY <1>9 DEF Resume, ResumeLock, ResumeBegin, ResumeDone, ServersReply, resumeFrame, sampleVars,
       queueVars, mqVars
<1>10. CASE TaskBegins \/ \E s \in Samples : Task(s) \/ TaskRaises(s)
    BY <1>10 DEF TaskBegins, Task, TaskArrives, TaskGenerated, TaskPut, TaskReturned, TaskCancelled,
       TaskRaises, taskFrame, sampleVars, procVars, queueVars, mqVars
<1> QED
    BY <1>1, <1>2, <1>3, <1>4, <1>5, <1>6, <1>7, <1>8, <1>9, <1>10, NextCases DEF Reply

\* A new task stays one until its first turn.
LEMMA WaitingStays ==
    ASSUME TypeOK, [Next]_vars, ~TaskBegins
    PROVE  Waiting \subseteq Waiting'
<1> SUFFICES ASSUME NEW s \in Samples, stage[s] = "new"
             PROVE  stage'[s] = "new"
    BY DEF Waiting
<1>1. CASE UNCHANGED stage
    BY <1>1
<1>2. CASE ProcSubmit
    BY <1>2, PlaceTypes DEF ProcSubmit
<1>3. CASE CancelReply
    BY <1>3 DEF CancelReply
<1>4. CASE \E r \in Samples : Task(r) \/ TaskRaises(r)
    BY <1>4, PlaceTypes DEF Task, TaskArrives, TaskGenerated, TaskPut, TaskReturned, TaskCancelled,
       TaskRaises
<1> QED
    BY <1>1, <1>2, <1>3, <1>4, EndCases

\* What a step of the Rollouter stamps, and when it recounts.
LEMMA RecountSteps ==
    ASSUME \/ TaskBegins \/ Feed \/ Processor \/ Monitor \/ Main \/ Pause \/ Update \/ Resume
           \/ Reply \/ \E s \in Samples : Task(s) \/ TaskRaises(s)
    PROVE  /\ UNCHANGED started_version \/ TaskBegins
           /\ Uncounted' => Uncounted
           /\ Uncounted /\ ~Uncounted' => UpdateAssign
<1>1. CASE Update \/ SizeReply \/ ValidateReply
    BY <1>1 DEF Update, UpdateLock, UpdateCount, SizeReply, UpdateAssign, ValidateReply, UpdateDone,
       updateFrame, taskVars, Uncounted
<1>2. CASE Feed \/ Processor
    BY <1>2 DEF Feed, FeedSample, FeedDone, FeedItem, Processor, ProcPause, ProcMark, ProcReapLock,
       ProcReapWait, ProcReapNothing, ProcReap, ProcFinished, ProcReaped, ProcSleep, ProcWoken,
       ProcRestart, ProcTakeCancelled, ProcAwaitPending, ProcTakePending, ProcSubmit, procFrame,
       callVars, taskVars, Uncounted
<1>3. CASE Monitor \/ Main \/ MonTimer \/ MainSentinel
    BY <1>3 DEF Monitor, MonLock, MonTest, MonTimer, MonDecide, MonSkip, MonKick, monFrame,
       Main, MainFinish, MainSentinel, MainLock, MainStop, mainFrame, callVars, taskVars, Uncounted
<1>4. CASE Pause \/ CancelReply \/ ClearReply
    BY <1>4 DEF Pause, PauseLock, PauseBegin, PauseGather, PauseGathered, CancelReply, ClearReply,
       PauseDone, pauseFrame, updateVars, Uncounted
<1>5. CASE Resume \/ ServersReply
    BY <1>5 DEF Resume, ResumeLock, ResumeBegin, ServersReply, ResumeDone, resumeFrame, updateVars,
       Uncounted
<1>6. CASE TaskBegins \/ \E s \in Samples : Task(s) \/ TaskRaises(s)
    BY <1>6 DEF TaskBegins, Task, TaskArrives, TaskGenerated, TaskPut, TaskReturned, TaskCancelled,
       TaskRaises, taskFrame, callVars, Uncounted
<1> QED
    BY <1>1, <1>2, <1>3, <1>4, <1>5, <1>6 DEF Reply

\* A step of the Rollouter takes at most what is left of the window.
LEMMA WindowRollouter ==
    ASSUME StaleNum = 0, TypeOK, SyncInv, EndInv, OneWindowInv, [Next]_vars,
           UNCHANGED <<trainerVars, engineVars>>,
           \/ TaskBegins \/ Feed \/ Processor \/ Monitor \/ Main \/ Pause \/ Update \/ Resume
           \/ Reply \/ \E s \in Samples : Task(s) \/ TaskRaises(s)
    PROVE  OneWindowInv'
<1> USE DEF OneWindowInv
<1>1. /\ UNCHANGED <<trainPc, batch, local_trigger_step, trainer_version, finishing, engine_version>>
      /\ (InLoop' <=> InLoop) /\ (Due' <=> Due) /\ WindowSamples' = WindowSamples
      /\ RequiredSamples' = RequiredSamples
    BY SameBounds DEF trainerVars, engineVars, InLoop, Due
<1>2. /\ WindowSamples \in Nat /\ WindowSamples > 0 /\ MaxRequired = WindowSamples
      /\ staleness_samples \in Nat /\ staleness_samples' \in Nat /\ count \in Nat
  <2>1. TypeOK'
      BY TypeStep
  <2> QED
      BY <2>1, Numbers, OneWindowLimit DEF TypeOK, RollouterTypeOK, VersionTypeOK, CallTypeOK
<1>3. PICK o \in Nat : o = Cardinality(Outstanding)
    BY FinitePlaces
<1>4. PICK rest \in Nat : InWindow = o + rest
                          /\ rest = Cardinality(batch) + (local_trigger_step - 1) * RequiredSamples
  <2>1. Cardinality(batch) \in Nat /\ (local_trigger_step - 1) * RequiredSamples \in Nat
      BY Numbers
  <2>2. \A h, j, k \in Nat : h + j + k = h + (j + k) /\ j + k \in Nat
      OBVIOUS
  <2> QED
      BY <1>3, <2>1, <2>2, ZenonT(30) DEF InWindow
<1>5. PICK on \in Nat : /\ on = Cardinality(Outstanding') /\ on <= o + 1
                        /\ ~ProcTakePending => on <= o
                        /\ ~ProcTakePending => Outstanding' \subseteq Outstanding
                        /\ InWindow' = on + rest
  <2>1. CASE ~ProcTakePending
    <3>1. Outstanding' \subseteq Outstanding
        BY <2>1, ShrinkingSteps DEF OutstandingShrinks
    <3>2. Cardinality(Outstanding') <= o /\ Cardinality(Outstanding') \in Nat
        BY <1>3, <3>1, FinitePlaces, FS_Subset, FS_CardinalityType
    <3>3. InWindow' = Cardinality(Outstanding') + rest
      <4>1. InWindow' = Cardinality(Outstanding') + Cardinality(batch)
                        + (local_trigger_step - 1) * RequiredSamples
          BY <1>1 DEF InWindow
      <4>2. Cardinality(batch) \in Nat /\ (local_trigger_step - 1) * RequiredSamples \in Nat
          BY Numbers
      <4>3. \A h, j, k \in Nat : h + j + k = h + (j + k)
          OBVIOUS
      <4> QED
          BY <1>4, <3>2, <4>1, <4>2, <4>3, ZenonT(30)
    <3> QED
        BY <2>1, <3>1, <3>2, <3>3
  <2>2. CASE ProcTakePending
    <3>1. UNCHANGED <<stage, cancel_queue, queue>>
        BY <2>2 DEF ProcTakePending, taskVars, queueVars, mqVars
    <3>2. Outstanding' \subseteq Outstanding \union {hand'}
        BY <3>1 DEF Outstanding, Underway
    <3>3. /\ IsFiniteSet(Outstanding \union {hand'})
          /\ Cardinality(Outstanding \union {hand'}) =
               IF hand' \in Outstanding THEN Cardinality(Outstanding) ELSE Cardinality(Outstanding) + 1
        BY FinitePlaces, FS_AddElement
    <3>4. /\ Cardinality(Outstanding') <= Cardinality(Outstanding \union {hand'})
          /\ Cardinality(Outstanding') \in Nat
        BY <3>2, <3>3, FS_Subset, FS_CardinalityType
    <3>5. Cardinality(Outstanding') <= o + 1
        BY <1>3, <3>3, <3>4
    <3>6. InWindow' = Cardinality(Outstanding') + rest
      <4>1. InWindow' = Cardinality(Outstanding') + Cardinality(batch)
                        + (local_trigger_step - 1) * RequiredSamples
          BY <1>1 DEF InWindow
      <4>2. Cardinality(batch) \in Nat /\ (local_trigger_step - 1) * RequiredSamples \in Nat
          BY Numbers
      <4>3. \A h, j, k \in Nat : h + j + k = h + (j + k)
          OBVIOUS
      <4> QED
          BY <1>4, <3>4, <4>1, <4>2, <4>3, ZenonT(30)
    <3> QED
        BY <2>2, <3>4, <3>5, <3>6
  <2> QED
      BY <2>1, <2>2
<1>6. procPc' = "get" => staleness_samples' < WindowSamples
  <2> SUFFICES ASSUME procPc' = "get" PROVE staleness_samples' < WindowSamples
      OBVIOUS
  <2>1. procPc = "get" \/ ProcAwaitPending
      BY CounterSteps
  <2>2. staleness_samples < WindowSamples
    <3>1. ProcAwaitPending => staleness_samples < MaxRequired
        BY <1>2 DEF ProcAwaitPending, ShouldPause
    <3> QED
        BY <1>2, <2>1, <3>1
  <2>3. ~ProcTakePending
      BY DEF ProcTakePending, ProcGoto
  <2>4. ~UpdateAssign
    <3>1. UpdateAssign => Uncounted /\ procPc' = procPc
        BY DEF UpdateAssign, Uncounted, updateFrame, procVars
    <3>2. procPc \notin {"ended", "crashed"}
        BY <2>1 DEF ProcAwaitPending
    <3>3. Uncounted => staleness_samples >= WindowSamples
        BY <3>2
    <3> QED
        BY <1>2, <2>2, <3>1, <3>3
  <2> QED
      BY <1>2, <2>2, <2>3, <2>4, CounterSteps
<1>7. ASSUME ~InLoop
      PROVE  procPc' \in {"ended", "crashed"} /\ Cardinality(Outstanding') <= WindowSamples
  <2>1. procPc \in {"ended", "crashed"} /\ o <= WindowSamples
      BY <1>3, <1>7
  <2>2. ~ProcTakePending
      BY <2>1 DEF ProcTakePending
  <2> QED
      BY <1>2, <1>5, <2>1, <2>2, EndStep
<1>8. ASSUME InLoop
      PROVE  InWindow' <= WindowSamples /\ InWindow' <= staleness_samples'
  <2>1. o + rest <= WindowSamples /\ o + rest <= staleness_samples
      BY <1>4, <1>8
  <2>2. CASE ProcTakePending
    <3>1. procPc = "get" /\ staleness_samples' = staleness_samples + 1
        BY <2>2 DEF ProcTakePending
    <3> QED
        BY <1>2, <1>5, <2>1, <3>1
  <2>3. CASE UNCHANGED staleness_samples /\ ~ProcTakePending
      BY <1>2, <1>5, <2>1, <2>3
  <2>4. CASE UpdateAssign /\ ~ProcTakePending
    <3>1. Uncounted /\ staleness_samples' = count
        BY <2>4 DEF UpdateAssign, Uncounted
    <3>2. Outstanding = {} /\ batch = {} /\ local_trigger_step = 1
        BY <1>8, <3>1
    <3>3. rest = 0
      <4>1. Cardinality(batch) = 0 /\ (local_trigger_step - 1) * RequiredSamples = 0
          BY <3>2, Numbers, FS_EmptySet
      <4> QED
          BY <1>4, <4>1
    <3>4. on = 0
      <4>1. o = 0
          BY <1>3, <3>2, FS_EmptySet
      <4> QED
          BY <1>5, <2>4, <4>1
    <3> QED
        BY <1>2, <1>5, <3>1, <3>3, <3>4
  <2> QED
      BY <2>2, <2>3, <2>4, CounterSteps
<1>9. ASSUME InLoop, Due' \/ Uncounted'
      PROVE  /\ Outstanding' = {} /\ batch' = {} /\ local_trigger_step' = 1
             /\ staleness_samples' >= WindowSamples
  <2>1. Due \/ Uncounted
      BY <1>1, <1>9, RecountSteps
  <2>2. Outstanding = {} /\ batch = {} /\ local_trigger_step = 1 /\ staleness_samples >= WindowSamples
      BY <1>9, <2>1
  <2>3. procPc # "get"
      BY <1>2, <2>2
  <2>4. ~ProcTakePending
      BY <2>3 DEF ProcTakePending
  <2>5. ~UpdateAssign
    <3>1. UpdateAssign => Uncounted /\ ~Uncounted'
        BY DEF UpdateAssign, Uncounted
    <3> QED
        BY <1>1, <1>9, <3>1
  <2> QED
      BY <1>1, <1>5, <2>2, <2>4, <2>5, CounterSteps
<1>10. ASSUME InLoop, NEW s \in Stamped'
       PROVE  started_version'[s] = trainer_version'
  <2>1. CASE ~ProcSubmit /\ ~TaskBegins
    <3>1. Counted' \subseteq Counted /\ Waiting \subseteq Waiting'
        BY <2>1, ShrinkingSteps, WaitingStays DEF CountedShrinks
    <3>2. s \in Stamped
        BY <1>1, <3>1 DEF Stamped
    <3> QED
        BY <1>1, <1>10, <2>1, <3>2, RecountSteps
  <2>2. CASE ProcSubmit
    <3>1. stage' = [stage EXCEPT ![hand] = "new"] /\ UNCHANGED <<cancel_queue, queue, started_version>>
        BY <2>2 DEF ProcSubmit, sampleVars, queueVars, mqVars
    <3>2. \A r \in Samples : stage'[r] = IF r = hand THEN "new" ELSE stage[r]
        BY <3>1, PlaceTypes
    <3>3. Underway' \ Waiting' \subseteq Underway \ Waiting /\ Waiting \subseteq Waiting'
        BY <3>2 DEF Underway, Waiting
    <3>4. s \in Stamped
        BY <1>1, <3>1, <3>3 DEF Stamped, Counted, Resumable
    <3> QED
        BY <1>1, <1>10, <3>1, <3>4
  <2>3. CASE TaskBegins
    <3> DEFINE h == Head(created)
    <3>1. /\ stage[h] = "new"
          /\ started_version' = [started_version EXCEPT ![h] = current_param_version]
        BY <2>3 DEF TaskBegins
    <3> HIDE DEF h
    <3>2. Counted' \subseteq Counted
        BY <2>3, ShrinkingSteps DEF CountedShrinks, TaskBegins, ProcSubmit, procVars, ProcGoto
    <3>3. s \in Samples
      <4>1. batch \subseteq Samples /\ Underway \subseteq Samples
          BY DEF TypeOK, TrainerTypeOK, Underway
      <4>2. Range(cancel_queue) \subseteq Samples /\ Range(queue) \subseteq Samples \union {NoSample}
          BY PlaceTypes DEF Range
      <4> QED
          BY <1>1, <3>2, <4>1, <4>2 DEF Stamped, Counted, Resumable
    <3>4. CASE s # h
      <4>1. stage'[s] = "new" <=> stage[s] = "new"
          BY <2>3, <3>1, <3>3, <3>4, BeginStays DEF TaskBegins, h
      <4>2. s \in Stamped
          BY <1>1, <3>2, <3>3, <4>1 DEF Stamped, Waiting
      <4> QED
          BY <1>1, <1>10, <3>1, <3>3, <3>4, <4>2, Numbers
    <3>5. CASE s = h
      <4>1. s \in Outstanding
          BY <3>1, <3>3, <3>5, PlaceTypes DEF Outstanding, Underway
      <4>2. ~Due /\ ~Uncounted
          BY <1>10, <4>1
      <4>3. current_param_version = trainer_version
          BY <4>2 DEF SyncInv, VersionInv, Due, Uncounted
      <4> QED
          BY <1>1, <3>1, <3>3, <3>5, <4>3, Numbers
    <3> QED
        BY <3>4, <3>5
  <2> QED
      BY <2>1, <2>2, <2>3
<1> QED
    BY <1>1, <1>6, <1>7, <1>8, <1>9, <1>10, RecountSteps

\* A step that leaves the samples, their stamps and the counter alone.
LEMMA WindowKept ==
    ASSUME OneWindowInv,
           UNCHANGED <<hand, stage, cancel_queue, queue, batch, local_trigger_step, trainer_version,
                       started_version, staleness_samples, procPc>>,
           InLoop' <=> InLoop, Due' \/ Uncounted' => Due \/ Uncounted, InLoop /\ Due' => ~Uncounted'
    PROVE  OneWindowInv'
<1>1. UNCHANGED <<Outstanding, Stamped, InWindow>> /\ WindowSamples' = WindowSamples
    BY SameBounds DEF InWindow, Outstanding, Stamped, Waiting, Counted, Resumable, Underway
<1> QED
    BY <1>1 DEF OneWindowInv

\* The trainer moves the head of the queue into the batch.
LEMMA WindowGet ==
    ASSUME TypeOK, PlaceInv, BatchInv, OneWindowInv, TrainerGet
    PROVE  OneWindowInv'
<1>1. /\ trainPc = "get" /\ queue # <<>> /\ queue' = Tail(queue) /\ batch' = batch \union {Head(queue)}
      /\ Head(queue) # NoSample /\ trainPc' \in {"get", "train"}
      /\ UNCHANGED <<hand, stage, cancel_queue, local_trigger_step, trainer_version, finishing,
                     started_version, staleness_samples, procPc, updatePc>>
    BY DEF TrainerGet, TakeSample, rollouterInside, sampleVars, taskVars, procVars, versionVars, callVars,
       loopVars, flagVars
<1>2. InLoop /\ InLoop' /\ ~Due'
    BY <1>1 DEF InLoop, Due, BatchInv, Collecting
<1>3. PICK x : x = Head(queue)
    OBVIOUS
<1>4. /\ x \in Samples /\ x \in Range(queue)
      /\ \A s : s # NoSample => (s \in Range(queue') <=> s \in Range(queue) /\ s # x)
  <2>1. NoRepeats(queue)
      BY DEF PlaceInv, QueuesInv
  <2>2. /\ Head(queue) \in Range(queue)
        /\ \A s : s # NoSample => (s \in Range(Tail(queue)) <=> s \in Range(queue) /\ s # Head(queue))
      BY <1>1, <2>1, PlaceTypes, AfterTail
  <2>3. Head(queue) \in Samples
      BY <1>1, PlaceTypes
  <2> QED
      BY <1>1, <1>3, <2>2, <2>3
<1>5. x # hand /\ stage[x] \notin {"new", "call", "gen", "cut", "put"} /\ x \notin Range(cancel_queue)
  <2>1. PlacesOf(x) <= 1
      BY <1>4, PlaceTypes DEF PlaceInv, CountInv
  <2>2. \A p \in BOOLEAN : One(p) \in {0, 1} /\ (p <=> One(p) = 1)
      BY DEF One
  <2> QED
      BY <1>4, <2>1, <2>2 DEF PlacesOf, One
<1>6. Outstanding' \subseteq Outstanding \ {x} /\ x \in Outstanding /\ x \in Counted
      /\ Counted' \subseteq Counted
  <2>1. NoSample \notin Samples
      BY PlaceTypes
  <2>2. Underway' = Underway /\ x \notin Underway
      BY <1>1, <1>5 DEF Underway
  <2>3. /\ Outstanding' = ({hand} \union Underway \union Range(cancel_queue) \union Range(queue')) \ {NoSample}
        /\ Counted' = (Underway \union Range(cancel_queue) \union Range(queue')) \ {NoSample}
      BY <1>1, <2>2 DEF Outstanding, Counted, Resumable
  <2> QED
      BY <1>4, <1>5, <2>1, <2>2, <2>3 DEF Outstanding, Counted, Resumable
<1>7. ~Uncounted /\ ~Uncounted'
    BY <1>1, <1>2, <1>6 DEF OneWindowInv, Uncounted
<1>8. InWindow' <= InWindow /\ InWindow' \in Nat /\ InWindow \in Nat
  <2>1. PICK o \in Nat : o = Cardinality(Outstanding)
      BY FinitePlaces
  <2>2. PICK b \in Nat : b = Cardinality(batch)
      BY Numbers
  <2>3. PICK r \in Nat : r = (local_trigger_step - 1) * RequiredSamples
      BY Numbers
  <2>4. Cardinality(Outstanding') \in Nat /\ Cardinality(Outstanding') + 1 <= o
    <3>1. IsFiniteSet(Outstanding)
        BY FinitePlaces
    <3>2. /\ IsFiniteSet(Outstanding \ {x})
          /\ Cardinality(Outstanding \ {x}) = Cardinality(Outstanding) - 1
        BY <1>6, <3>1, FS_RemoveElement
    <3>3. /\ Cardinality(Outstanding') <= Cardinality(Outstanding \ {x})
          /\ Cardinality(Outstanding') \in Nat
        BY <1>6, <3>2, FS_Subset, FS_CardinalityType
    <3> QED
        BY <2>1, <3>2, <3>3
  <2>5. Cardinality(batch') \in Nat /\ Cardinality(batch') <= b + 1
    <3>1. IsFiniteSet(batch)
        BY Numbers
    <3>2. /\ IsFiniteSet(batch \union {x})
          /\ Cardinality(batch \union {x}) = IF x \in batch THEN Cardinality(batch) ELSE Cardinality(batch) + 1
        BY <3>1, FS_AddElement
    <3> QED
        BY <1>1, <1>3, <2>2, <3>2
  <2>6. InWindow = o + b + r
      BY <2>1, <2>2, <2>3, Zenon DEF InWindow
  <2>7. InWindow' = Cardinality(Outstanding') + Cardinality(batch') + r
      BY <1>1, <2>3, SameBounds DEF InWindow
  <2> QED
      BY <2>4, <2>5, <2>6, <2>7
<1>9. InWindow' <= WindowSamples /\ InWindow' <= staleness_samples
  <2>1. WindowSamples \in Nat /\ staleness_samples \in Nat
      BY Numbers DEF TypeOK, RollouterTypeOK, VersionTypeOK
  <2>2. InWindow <= WindowSamples /\ InWindow <= staleness_samples
      BY <1>2 DEF OneWindowInv
  <2> QED
      BY <1>8, <2>1, <2>2
<1>10. \A s \in Stamped' : started_version'[s] = trainer_version'
  <2>1. Stamped' \subseteq Stamped
      BY <1>1, <1>3, <1>5, <1>6 DEF Stamped, Waiting
  <2> QED
      BY <1>1, <1>2, <2>1 DEF OneWindowInv
<1>11. procPc' = "get" => staleness_samples' < WindowSamples'
    BY <1>1, SameBounds DEF OneWindowInv
<1> QED
    BY <1>1, <1>2, <1>7, <1>9, <1>10, <1>11, SameBounds DEF OneWindowInv

\* The last batch of a window leaves nothing outstanding.
LEMMA WindowTrain ==
    ASSUME TypeOK, BatchInv, OneWindowInv, TrainerTrain
    PROVE  OneWindowInv'
<1>1. /\ trainPc = "train" /\ batch' = {}
      /\ UNCHANGED <<hand, stage, cancel_queue, queue, finishing, started_version, staleness_samples,
                     procPc, updatePc>>
    BY DEF TrainerTrain, rollouterInside, sampleVars, taskVars, procVars, versionVars, callVars, loopVars,
       flagVars, queueVars, mqVars
<1>2. InLoop /\ Cardinality(batch) = RequiredSamples
    BY <1>1 DEF InLoop, BatchInv, Collecting
<1>3. RequiredSamples \in Nat /\ RequiredSamples > 0 /\ WindowSamples \in Nat /\ staleness_samples \in Nat
    BY Numbers DEF TypeOK, RollouterTypeOK, VersionTypeOK
<1>4. ~Uncounted /\ ~Uncounted'
  <2>1. batch # {}
      BY <1>2, <1>3, FS_EmptySet
  <2> QED
      BY <1>1, <1>2, <2>1 DEF OneWindowInv, Uncounted
<1>5. Outstanding' = Outstanding /\ Counted' = Counted
    BY <1>1 DEF Outstanding, Counted, Resumable, Underway
<1>6. PICK o \in Nat : o = Cardinality(Outstanding)
    BY FinitePlaces
<1>7. Cardinality(batch') = 0
    BY <1>1, FS_EmptySet
<1>8. procPc' = "get" => staleness_samples' < WindowSamples'
    BY <1>1, SameBounds DEF OneWindowInv
<1>9. InLoop'
    BY <1>1, <1>2 DEF InLoop, TrainerTrain, StartSync
<1>10. InWindow <= WindowSamples /\ InWindow <= staleness_samples
    BY <1>2 DEF OneWindowInv
<1>11. \A t \in Nat, r \in Nat : t > 0 => o + r + (t - 1) * r = o + t * r /\ o + 0 + (t + 1 - 1) * r = o + t * r
  <2>1. \A t \in Nat, r \in Nat : t > 0 => (t - 1) * r = t * r - r /\ t * r \in Nat
      OBVIOUS
  <2>2. \A t \in Nat : t + 1 - 1 = t
      OBVIOUS
  <2> QED
      BY <2>1, <2>2
<1>12. local_trigger_step \in Nat /\ local_trigger_step > 0 /\ local_trigger_step <= TriggerStep
       /\ TriggerStep \in Nat
    BY Numbers
<1>13. InWindow = o + local_trigger_step * RequiredSamples
    BY <1>2, <1>3, <1>6, <1>11, <1>12, Zenon DEF InWindow
<1>14. CASE /\ local_trigger_step' = local_trigger_step + 1
            /\ trainPc' = "get" /\ trainer_version' = trainer_version
  <2>1. InWindow' = InWindow
    <3>1. InWindow' = o + 0 + (local_trigger_step + 1 - 1) * RequiredSamples
      <4>1. InWindow' = Cardinality(Outstanding') + Cardinality(batch')
                        + (local_trigger_step' - 1) * RequiredSamples
          BY DEF InWindow
      <4> QED
        <5>1. Cardinality(Outstanding') = o
            BY <1>5, <1>6
        <5>2. local_trigger_step' - 1 = local_trigger_step + 1 - 1
            BY <1>12, <1>14
        <5> QED
            BY <1>7, <4>1, <5>1, <5>2, Zenon
    <3> QED
        BY <1>3, <1>11, <1>12, <1>13, <3>1, Zenon
  <2>2. \A s \in Stamped' : started_version'[s] = trainer_version'
    <3>1. Stamped' \subseteq Stamped
        BY <1>1, <1>5 DEF Stamped, Waiting
    <3> QED
        BY <1>1, <1>2, <1>14, <3>1 DEF OneWindowInv
  <2> QED
      BY <1>1, <1>4, <1>8, <1>9, <1>10, <1>14, <2>1, <2>2, SameBounds DEF OneWindowInv, Due
<1>15. CASE local_trigger_step >= TriggerStep /\ StartSync
  <2>1. local_trigger_step = TriggerStep
      BY <1>12, <1>15
  <2>2. InWindow = o + WindowSamples
    <3>1. \A j, k \in Nat : j * k = k * j
        OBVIOUS
    <3> QED
        BY <1>3, <1>12, <1>13, <2>1, <3>1, Zenon DEF WindowSamples
  <2>3. o = 0 /\ staleness_samples >= WindowSamples
      BY <1>3, <1>10, <2>2
  <2>4. Outstanding = {}
      BY <1>6, <2>3, FinitePlaces, FS_EmptySet
  <2>5. Counted \subseteq Outstanding
      BY DEF Counted, Resumable, Outstanding
  <2>6. local_trigger_step' = 1 /\ trainPc' = "waitLast"
      BY <1>15 DEF StartSync
  <2>7. InWindow' = 0
    <3>1. InWindow' = o + 0 + (1 - 1) * RequiredSamples
        BY <1>5, <1>6, <1>7, <2>6, Zenon DEF InWindow
    <3>2. (1 - 1) * RequiredSamples = 0
        BY <1>3
    <3> QED
        BY <2>3, <3>1, <3>2
  <2> QED
      BY <1>1, <1>3, <1>4, <1>5, <1>8, <1>9, <2>3, <2>4, <2>5, <2>6, <2>7, SameBounds
         DEF OneWindowInv, Stamped, Due
<1> QED
    BY <1>14, <1>15 DEF TrainerTrain

\* The trainer takes what is outstanding; a synchronization starts when it has the whole window.
LEMMA WindowTrainer ==
    ASSUME TypeOK, PlaceInv, BatchInv, EndInv, OneWindowInv, [Next]_vars, Trainer \/ Synchronizer
    PROVE  OneWindowInv'
<1>1. CASE TrainerGet
    BY <1>1, WindowGet
<1>2. CASE TrainerTrain
    BY <1>2, WindowTrain
<1>3. CASE TrainerGetNone
  <2>1. /\ trainPc = "get" /\ trainPc' = "drained" /\ Head(queue) = NoSample /\ queue # <<>>
        /\ UNCHANGED <<hand, stage, cancel_queue, procPc>> /\ queue' = Tail(queue)
      BY <1>3 DEF TrainerGetNone, TakeSample, rollouterInside, sampleVars, taskVars, procVars, loopVars
  <2>2. InLoop /\ ~InLoop'
      BY <2>1 DEF InLoop, BatchInv, Collecting
  <2>3. procPc \in {"ended", "crashed"}
    <3>1. NoSample \in Range(queue)
        BY <2>1, PlaceTypes, TailRange
    <3> QED
        BY <3>1 DEF EndInv
  <2>4. Cardinality(Outstanding') <= WindowSamples
    <3>1. Outstanding' \subseteq Outstanding
        BY <2>1, PlaceTypes, TailRange DEF Outstanding, Underway
    <3>2. Cardinality(Outstanding') <= Cardinality(Outstanding) /\ Cardinality(Outstanding') \in Nat
        BY <3>1, FinitePlaces, FS_Subset, FS_CardinalityType
    <3>3. Cardinality(Outstanding) <= InWindow /\ InWindow \in Nat
      <4>1. \A h, j, k \in Nat : h <= h + j + k /\ h + j + k \in Nat
          OBVIOUS
      <4> QED
          BY <4>1, FinitePlaces, Numbers, Zenon DEF InWindow
    <3> QED
      <4>1. WindowSamples \in Nat /\ InWindow <= WindowSamples
          BY <2>2, Numbers DEF OneWindowInv
      <4>2. Cardinality(Outstanding) \in Nat
          BY FinitePlaces
      <4> QED
          BY <3>2, <3>3, <4>1, <4>2
  <2> QED
      BY <2>1, <2>2, <2>3, <2>4, SameBounds DEF OneWindowInv
<1>4. CASE TrainerDrained \/ TrainerEnd \/ TrainerWait \/ Synchronizer
  <2>1. /\ UNCHANGED <<hand, stage, cancel_queue, queue, batch, started_version, staleness_samples, procPc>>
        /\ ~SyncDone => updatePc' = updatePc
    <3>1. CASE TrainerDrained \/ TrainerEnd
        BY <3>1 DEF TrainerDrained, TrainerEnd, rollouterInside, callVars, sampleVars, taskVars, procVars,
           versionVars, queueVars, mqVars
    <3>2. CASE TrainerWait
        BY <3>2 DEF TrainerWait, WaitSample, rollouterInside, callVars, sampleVars, taskVars, procVars,
           versionVars, trainerVars
    <3>3. CASE Synchronizer
        BY <3>3 DEF Synchronizer, SyncPause, SyncWeights, SyncDone, UpdateMQVersion, rollouterInside,
           sampleVars, taskVars, procVars, versionVars, queueVars, mqVars
    <3> QED
        BY <1>4, <3>1, <3>2, <3>3
  <2>2. CASE TrainerDrained \/ TrainerEnd
    <3>1. ~InLoop /\ ~InLoop'
        BY <2>2 DEF InLoop, BatchInv, TrainerDrained, TrainerEnd
    <3>2. Outstanding' = Outstanding
        BY <2>1 DEF Outstanding, Underway
    <3> QED
        BY <2>1, <3>1, <3>2, SameBounds DEF OneWindowInv
  <2>3. CASE TrainerWait \/ SyncPause \/ SyncWeights
    <3>1. /\ UNCHANGED <<local_trigger_step, trainer_version, updatePc>>
          /\ (InLoop' <=> InLoop) /\ (Due' <=> Due) /\ (Uncounted' <=> Uncounted)
        BY <2>3 DEF TrainerWait, SyncPause, SyncWeights, trainerVars, callVars, InLoop, Due, Uncounted
    <3>2. InLoop /\ Due' => ~Uncounted'
        BY <3>1 DEF OneWindowInv
    <3> QED
        BY <2>1, <3>1, <3>2, WindowKept
  <2>4. CASE SyncDone
    <3>1. /\ UNCHANGED <<local_trigger_step, trainer_version>> /\ Due /\ ~Due'
          /\ (InLoop' <=> InLoop)
        BY <2>4 DEF SyncDone, InLoop, Due
    <3> QED
        BY <2>1, <3>1, WindowKept
  <2> QED
      BY <1>4, <2>2, <2>3, <2>4 DEF Synchronizer
<1> QED
    BY <1>1, <1>2, <1>3, <1>4 DEF Trainer

\* OneWindowInv is inductive relative to the invariants before it.
LEMMA WindowStep ==
    ASSUME StaleNum = 0, TypeOK, PlaceInv, BatchInv, SyncInv, EndInv, OneWindowInv, [Next]_vars
    PROVE  OneWindowInv'
<1>1. CASE UNCHANGED vars
    BY <1>1, WindowKept DEF vars, rollouterVars, sampleVars, taskVars, queueVars, mqVars, trainerVars,
       procVars, versionVars, callVars, loopVars, flagVars, InLoop, Due, Uncounted, OneWindowInv
<1>2. CASE Trainer \/ Synchronizer
    BY <1>2, WindowTrainer
<1> QED
    BY <1>1, <1>2, WindowRollouter, NextCases

\* At the start nothing is outstanding.
LEMMA WindowInit == Init => BatchInv /\ EndInv /\ OneWindowInv
<1> SUFFICES ASSUME Init PROVE BatchInv /\ EndInv /\ OneWindowInv
    OBVIOUS
<1>1. TypeOK
    BY InitType
<1>2. /\ trainPc = "get" /\ batch = {} /\ local_trigger_step = 1 /\ trainer_version = 0 /\ ~finishing
      /\ engine_version = 0 /\ queue = <<>> /\ cancel_queue = <<>> /\ hand = NoSample
      /\ stage = [s \in Samples |-> "none"] /\ updatePc = "done" /\ current_param_version = 0
      /\ mainPc = "wait" /\ procPc # "get" /\ staleness_samples = 0
    BY DEF Init, RolloutInit, MQInit
<1>3. Range(queue) = {} /\ Range(cancel_queue) = {}
    BY <1>2 DEF Range
<1>4. Outstanding = {} /\ Counted = {}
    BY <1>2, <1>3 DEF Outstanding, Counted, Resumable, Underway
<1>5. InWindow = 0
  <2>1. Cardinality(Outstanding) = 0 /\ Cardinality(batch) = 0
      BY <1>2, <1>4, FS_EmptySet
  <2>2. (local_trigger_step - 1) * RequiredSamples = 0
      BY <1>1, <1>2, Numbers
  <2> QED
      BY <2>1, <2>2 DEF InWindow
<1>6. BatchInv
    BY <1>1, AgeInit DEF AgeInv
<1>7. EndInv
    BY <1>2, <1>3 DEF EndInv
<1>8. OneWindowInv
    BY <1>1, <1>2, <1>4, <1>5, Numbers DEF OneWindowInv, Stamped, InLoop, Due, Uncounted
<1> QED
    BY <1>6, <1>7, <1>8

\* With staleness_threshold = 0 training is synchronous, with partial_rollout and without.
THEOREM SynchronousIsOnPolicy ==
    ASSUME StaleNum = 0
    PROVE  Spec => []SynchronousTraining
<1> DEFINE Inv == TypeOK /\ PlaceInv /\ BatchInv /\ SyncInv /\ EndInv /\ OneWindowInv
<1>1. Init => Inv
    BY InitType, PlaceInit, WindowInit, SyncInvInit
<1>2. Inv /\ [Next]_vars => Inv'
    BY TypeStep, PlaceStep, BatchStep, SyncInvStep, EndStep, WindowStep
<1>3. Inv => SynchronousTraining
  <2> SUFFICES ASSUME Inv PROVE SynchronousTraining
      OBVIOUS
  <2>1. ASSUME trainPc = "train", NEW s \in batch
        PROVE  started_version[s] = trainer_version
    <3>1. InLoop
        BY <2>1 DEF InLoop, BatchInv, Collecting
    <3> QED
        BY <2>1, <3>1 DEF OneWindowInv, Stamped
  <2>2. Cardinality(Outstanding) <= MaxRequired
    <3>1. Cardinality(Outstanding) <= InWindow
      <4>1. \A h, j, k \in Nat : h <= h + j + k
          OBVIOUS
      <4> QED
          BY <4>1, FinitePlaces, Numbers, Zenon DEF InWindow
    <3>2. InWindow \in Nat
      <4>1. \A h, j, k \in Nat : h + j + k \in Nat
          OBVIOUS
      <4> QED
          BY <4>1, FinitePlaces, Numbers, Zenon DEF InWindow
    <3> QED
      <4>1. WindowSamples \in Nat /\ MaxRequired = WindowSamples
          BY Numbers, OneWindowLimit
      <4>2. Cardinality(Outstanding) \in Nat
          BY FinitePlaces
      <4> QED
          BY <3>1, <3>2, <4>1, <4>2 DEF OneWindowInv
  <2> QED
      BY <2>1, <2>2 DEF SynchronousTraining
<1> QED
    BY <1>1, <1>2, <1>3, PTL DEF Spec

-----------------------------------------------------------------------------
(* The end of the run: nothing is lost without staleness and interruptions *)

\* without partial_rollout nothing is interrupted
WholeInv ==
    /\ cancel_queue = <<>>
    /\ ~serversPaused /\ pausePc # "cancelling" /\ resumePc # "starting"
    /\ \A s \in Samples : stage[s] # "cut"

\* DONE is the last item that is fed
FedInv ==
    /\ fed <= TotalSamples + 1
    /\ \A i \in 1..Len(pending_queue) :
          pending_queue[i] = NoSample => i = Len(pending_queue) /\ fed = TotalSamples + 1

(***************************************************************************)
(* The processor that has taken DONE takes nothing more, and DONE itself   *)
(* was counted: one place of the window stays free, for the end marker.    *)
(***************************************************************************)
FinishInv ==
    /\ procPc = "ended" => reaping = "finish" /\ LiveTasks = {}
    /\ reaping = "finish" =>
          /\ procPc \in {"reap", "reapLocked", "reapWait", "ended", "crashed"}
          /\ pending_queue = <<>> /\ fed = TotalSamples + 1
          /\ Cardinality(Outstanding) < WindowSamples

\* the end marker is the last in the queue, and so nothing is behind it when the trainer takes it
MarkerInv ==
    procPc # "crashed" =>
        /\ dropped = {}
        /\ \A i \in 1..Len(queue) : queue[i] = NoSample => i = Len(queue)
        /\ ~InLoop => queue = <<>> /\ mainPc \notin {"wait", "putting"}

\* Nothing interrupts a sample.
LEMMA WholeStep ==
    ASSUME ~PartialRollout, TypeOK, WholeInv, [Next]_vars
    PROVE  WholeInv'
<1> USE DEF WholeInv
<1>1. CASE UNCHANGED vars
    BY <1>1 DEF vars, rollouterVars, sampleVars, taskVars, callVars
<1>2. CASE Trainer \/ Synchronizer
    BY <1>2 DEF Trainer, TrainerWait, TrainerGet, TrainerGetNone, TrainerTrain, TrainerDrained, TrainerEnd,
       Synchronizer, SyncPause, SyncWeights, SyncDone, rollouterInside, sampleVars, taskVars, callVars
<1>3. CASE TaskBegins \/ Feed
    BY <1>3, BeginStays DEF TaskBegins, Feed, FeedSample, FeedDone, FeedItem, sampleVars, taskVars, callVars
<1>4. CASE Processor /\ ~ProcSubmit /\ ~ProcTakeCancelled
    BY <1>4 DEF Processor, ProcPause, ProcMark, ProcReapLock, ProcReapWait, ProcReapNothing, ProcReap,
       ProcFinished, ProcReaped, ProcSleep, ProcWoken, ProcRestart, ProcAwaitPending,
       ProcTakePending, procFrame, sampleVars, taskVars, callVars
<1>5. CASE ProcTakeCancelled
    BY <1>5 DEF ProcTakeCancelled
<1>6. CASE ProcSubmit
  <2>1. /\ stage' = [stage EXCEPT ![hand] = "new"]
        /\ UNCHANGED <<cancel_queue, serversPaused, pausePc, resumePc>>
      BY <1>6 DEF ProcSubmit, sampleVars, callVars
  <2>2. \A s \in Samples : stage'[s] # "cut"
      BY <2>1, PlaceTypes
  <2> QED
      BY <2>1, <2>2
<1>7. CASE Monitor \/ MonTimer \/ Main \/ MainSentinel
    BY <1>7 DEF Monitor, MonLock, MonTest, MonTimer, MonDecide, MonSkip, MonKick, monFrame, Main, MainFinish,
       MainSentinel, MainLock, MainStop, mainFrame, sampleVars, taskVars, callVars
<1>8. CASE Pause \/ ClearReply \/ CancelReply
    BY <1>8 DEF Pause, PauseLock, PauseBegin, PauseGather, PauseGathered, PauseDone, ClearReply, CancelReply,
       pauseFrame, sampleVars
<1>9. CASE Update \/ SizeReply \/ ValidateReply
    BY <1>9 DEF Update, UpdateLock, UpdateCount, UpdateAssign, UpdateDone, SizeReply, ValidateReply,
       updateFrame, sampleVars, taskVars
<1>10. CASE Resume \/ ServersReply
    BY <1>10 DEF Resume, ResumeLock, ResumeBegin, ResumeDone, ServersReply, resumeFrame, sampleVars
<1>11. ASSUME NEW s \in Samples, Task(s) \/ TaskRaises(s)
       PROVE  WholeInv'
  <2>1. /\ stage' = [stage EXCEPT ![s] = stage'[s]] /\ stage'[s] # "cut"
        /\ UNCHANGED <<cancel_queue, serversPaused, pausePc, resumePc>>
      BY <1>11, PlaceTypes DEF Task, TaskArrives, TaskGenerated, TaskPut, TaskReturned, TaskCancelled, TaskRaises, taskFrame,
         callVars
  <2>2. \A r \in Samples : stage'[r] # "cut"
      BY <2>1, PlaceTypes
  <2> QED
      BY <2>1, <2>2
<1> QED
    BY <1>1, <1>2, <1>3, <1>4, <1>5, <1>6, <1>7, <1>8, <1>9, <1>10, <1>11, NextCases DEF Reply

\* DONE is fed once, and after all samples.
LEMMA FedStep ==
    ASSUME TypeOK, FedInv, [Next]_vars
    PROVE  FedInv'
<1> USE DEF FedInv
<1>1. /\ pending_queue \in Seq(Samples \union {NoSample}) /\ fed \in Nat /\ TotalSamples \in Nat
      /\ NoSample \notin Samples
    BY PlaceTypes, RolloutAssumption
<1>2. CASE Feed
  <2>1. PICK x \in Samples \union {NoSample} :
           /\ pending_queue' = Append(pending_queue, x) /\ fed' = fed + 1 /\ fed <= TotalSamples
           /\ x = NoSample => fed = TotalSamples
    <3>1. CASE FeedSample
        BY <1>1, <3>1 DEF FeedSample, FeedItem, Samples, NoSample
    <3>2. CASE FeedDone
        BY <1>1, <3>2 DEF FeedDone, FeedItem
    <3> QED
        BY <1>2, <3>1, <3>2 DEF Feed
  <2>2. ASSUME NEW i \in 1..Len(pending_queue'), pending_queue'[i] = NoSample
        PROVE  i = Len(pending_queue') /\ fed' = TotalSamples + 1
    <3>1. Len(pending_queue') = Len(pending_queue) + 1
          /\ pending_queue'[i] = IF i = Len(pending_queue) + 1 THEN x ELSE pending_queue[i]
        BY <1>1, <2>1
    <3>2. CASE i = Len(pending_queue) + 1
        BY <2>1, <2>2, <3>1, <3>2
    <3>3. CASE i # Len(pending_queue) + 1
        BY <1>1, <2>1, <2>2, <3>1, <3>3
    <3> QED
        BY <3>2, <3>3
  <2> QED
      BY <1>1, <2>1, <2>2
<1>3. CASE ProcTakePending
  <2>1. pending_queue # <<>> /\ pending_queue' = Tail(pending_queue) /\ fed' = fed
      BY <1>3 DEF ProcTakePending
  <2>2. /\ Len(pending_queue') = Len(pending_queue) - 1
        /\ \A i \in 1..Len(pending_queue') : /\ pending_queue'[i] = pending_queue[i + 1]
                                             /\ i + 1 \in 1..Len(pending_queue)
      BY <1>1, <2>1
  <2>3. ASSUME NEW i \in 1..Len(pending_queue'), pending_queue'[i] = NoSample
        PROVE  i = Len(pending_queue') /\ fed' = TotalSamples + 1
    <3>1. PICK j \in 1..Len(pending_queue) : j = i + 1 /\ pending_queue[j] = NoSample
        BY <2>2, <2>3
    <3>2. j = Len(pending_queue) /\ fed = TotalSamples + 1
        BY <3>1
    <3>3. i \in Int /\ Len(pending_queue) \in Int /\ j \in Int
        BY <1>1
    <3>4. i = Len(pending_queue) - 1
        BY ONLY <3>1, <3>2, <3>3
    <3> QED
        BY <2>1, <2>2, <3>2, <3>4
  <2> QED
      BY <1>1, <2>1, <2>3
<1>4. CASE UNCHANGED <<fed, pending_queue>>
    BY <1>4
<1> QED
    BY <1>2, <1>3, <1>4, EndCases

\* There are finitely many tasks.
LEMMA NoTasks ==
    ASSUME Cardinality(LiveTasks) = 0
    PROVE  LiveTasks = {}
<1>1. IsFiniteSet(Samples)
    BY RolloutAssumption, FS_Interval DEF Samples
<1>2. IsFiniteSet(LiveTasks)
    BY <1>1, FS_Subset DEF LiveTasks
<1> QED
    BY <1>2, FS_EmptySet

\* A processor that has taken DONE is only waiting for its tasks.
LEMMA FinishStep ==
    ASSUME TypeOK, FedInv, OneWindowInv, FinishInv, [Next]_vars
    PROVE  FinishInv'
<1> USE DEF FinishInv
<1>1. /\ pending_queue \in Seq(Samples \union {NoSample}) /\ fed \in Nat /\ TotalSamples \in Nat
      /\ NoSample \notin Samples /\ WindowSamples \in Nat /\ WindowSamples' = WindowSamples
    BY PlaceTypes, RolloutAssumption, Numbers, SameBounds
<1>2. ASSUME OutstandingShrinks, Cardinality(Outstanding) < WindowSamples
      PROVE  Cardinality(Outstanding') < WindowSamples'
  <2>1. Cardinality(Outstanding') <= Cardinality(Outstanding) /\ Cardinality(Outstanding') \in Nat
      BY <1>2, FinitePlaces, FS_Subset, FS_CardinalityType DEF OutstandingShrinks
  <2> QED
      BY <1>1, <1>2, <2>1, FinitePlaces
<1>3. CASE ProcTakePending
  <2>1. /\ procPc = "get" /\ procPc' = "reap" /\ pending_queue # <<>> /\ hand' = Head(pending_queue)
        /\ pending_queue' = Tail(pending_queue) /\ fed' = fed /\ UNCHANGED <<stage, cancel_queue, queue>>
        /\ reaping' = "finish" => Head(pending_queue) = NoSample
      BY <1>3 DEF ProcTakePending, ProcGoto, taskVars, queueVars, mqVars
  <2> SUFFICES ASSUME reaping' = "finish"
               PROVE  /\ pending_queue' = <<>> /\ fed' = TotalSamples + 1
                      /\ Cardinality(Outstanding') < WindowSamples'
      BY <2>1
  <2>2. Len(pending_queue) = 1 /\ fed = TotalSamples + 1
    <3>1. 1 \in 1..Len(pending_queue) /\ pending_queue[1] = NoSample
        BY <1>1, <2>1
    <3> QED
        BY <3>1 DEF FedInv
  <2>3. pending_queue' = <<>>
      BY <1>1, <2>1, <2>2
  <2>4. OutstandingShrinks
      BY <2>1 DEF OutstandingShrinks, Outstanding, Underway
  <2>5. Cardinality(Outstanding) < WindowSamples
    <3>1. InLoop /\ staleness_samples < WindowSamples
        BY <2>1 DEF OneWindowInv
    <3>2. InWindow <= staleness_samples /\ staleness_samples \in Nat
        BY <3>1 DEF OneWindowInv, TypeOK, RollouterTypeOK, VersionTypeOK
    <3>3. Cardinality(Outstanding) <= InWindow /\ InWindow \in Nat
      <4>1. \A h, j, k \in Nat : h <= h + j + k /\ h + j + k \in Nat
          OBVIOUS
      <4> QED
          BY <4>1, FinitePlaces, Numbers, Zenon DEF InWindow
    <3> QED
        BY <1>1, <3>1, <3>2, <3>3, FinitePlaces
  <2> QED
      BY <1>2, <2>1, <2>2, <2>3, <2>4, <2>5
<1>4. CASE ~ProcTakePending
  <2>1. ASSUME reaping' = "finish"
        PROVE  /\ reaping = "finish"
               /\ procPc' \in {"reap", "reapLocked", "reapWait", "ended", "crashed"}
               /\ pending_queue' = <<>> /\ fed' = TotalSamples + 1
               /\ Cardinality(Outstanding') < WindowSamples'
    <3>1. reaping = "finish"
        BY <1>4, <2>1, EndCases DEF ProcMark, ProcTakeCancelled
    <3>2. procPc \in {"reap", "reapLocked", "reapWait", "ended", "crashed"}
        BY <3>1
    <3>3. procPc' \in {"reap", "reapLocked", "reapWait", "ended", "crashed"}
      <4>1. NotifyAll => procPc' = procPc
          BY <3>2 DEF NotifyAll
      <4>2. Processor => procPc' \in {"reap", "reapLocked", "reapWait", "ended", "crashed"}
          BY <3>1, <3>2 DEF Processor, ProcPause, ProcMark, ProcReapLock, ProcReapWait, ProcReapNothing,
             ProcReap, ProcFinished, ProcReaped, ProcSleep, ProcWoken, ProcRestart, ProcTakeCancelled,
             ProcAwaitPending, ProcTakePending, ProcSubmit, ProcGoto
      <4> QED
          BY <3>2, <4>1, <4>2, EndCases
    <3>4. pending_queue' = <<>> /\ fed' = TotalSamples + 1
      <4>1. ~Feed
          BY <1>1, <3>1 DEF Feed, FeedSample, FeedDone
      <4> QED
          BY <1>4, <3>1, <4>1, EndCases
    <3>5. OutstandingShrinks
        BY <1>4, ShrinkingSteps
    <3> QED
        BY <1>2, <3>1, <3>3, <3>4, <3>5
  <2>2. ASSUME procPc' = "ended"
        PROVE  reaping' = "finish" /\ LiveTasks' = {}
    <3>1. CASE procPc = "ended"
      <4>1. reaping' = "finish"
          BY <1>4, <3>1, EndCases DEF ProcMark, ProcTakeCancelled
      <4>2. ~ProcSubmit
          BY <3>1 DEF ProcSubmit
      <4>3. \A s \in Samples : stage[s] = "none"
          BY <3>1 DEF LiveTasks
      <4>4. ASSUME NEW r \in Samples PROVE ~Task(r) /\ ~TaskRaises(r)
          BY <4>3 DEF Task, TaskArrives, TaskGenerated, TaskPut, TaskReturned, TaskCancelled, TaskRaises
      <4>5. CancelReply \/ TaskBegins => \A s \in Samples : stage'[s] = "none"
          BY <4>3, BeginStays DEF CancelReply
      <4>6. \A s \in Samples : stage'[s] = "none"
          BY <4>2, <4>3, <4>4, <4>5, EndCases
      <4> QED
          BY <4>1, <4>6 DEF LiveTasks
    <3>2. CASE procPc # "ended"
      <4>1. ~NotifyAll \/ procPc' = procPc \/ procPc' # "ended"
          BY DEF NotifyAll
      <4>2. ProcFinished
        <5>1. Processor
            BY <2>2, <3>2, <4>1, EndCases
        <5> QED
            BY <2>2, <5>1 DEF Processor, ProcPause, ProcMark, ProcReapLock, ProcReapWait,
               ProcReapNothing, ProcReap, ProcReaped, ProcSleep, ProcWoken, ProcRestart,
               ProcTakeCancelled, ProcAwaitPending, ProcTakePending, ProcSubmit, ProcGoto
      <4>3. reaping = "finish" /\ ~(ActiveCount > 0) /\ UNCHANGED <<reaping, stage>>
          BY <4>2 DEF ProcFinished, ReapAgain, procFrame, taskVars
      <4>4. Cardinality(LiveTasks) = 0
          BY <4>3, LiveTasksCount DEF ActiveCount, TypeOK, RollouterTypeOK, TaskTypeOK
      <4>5. LiveTasks = {}
          BY <4>4, NoTasks
      <4> QED
          BY <4>3, <4>5 DEF LiveTasks
    <3> QED
        BY <3>1, <3>2
  <2> QED
      BY <2>1, <2>2
<1> QED
    BY <1>3, <1>4

\* The samples in the queue are outstanding, and one that is about to be put is one more.
LEMMA QueueFits ==
    ASSUME TypeOK, PlaceInv, NoSample \notin Range(queue)
    PROVE  /\ Len(queue) <= Cardinality(Outstanding)
           /\ \A s \in Samples : stage[s] = "put" => Len(queue) < Cardinality(Outstanding)
<1>1. /\ queue \in [1..Len(queue) -> Range(queue)] /\ Len(queue) \in Nat
      /\ \A i, j \in 1..Len(queue) : queue[i] = queue[j] => i = j
  <2>1. DOMAIN queue = 1..Len(queue) /\ Len(queue) \in Nat /\ queue \in [1..Len(queue) -> Samples \union {NoSample}]
      BY PlaceTypes
  <2>2. \A i \in 1..Len(queue) : queue[i] \in Range(queue) /\ queue[i] # NoSample
      BY <2>1 DEF Range
  <2>3. NoRepeats(queue)
      BY DEF PlaceInv, QueuesInv
  <2> QED
      BY <2>1, <2>2, <2>3 DEF NoRepeats
<1>2. IsFiniteSet(1..Len(queue)) /\ Cardinality(1..Len(queue)) = Len(queue)
  <2>1. \A n \in Nat : IsFiniteSet(1..n) /\ Cardinality(1..n) = n
      BY FS_Interval
  <2> QED
      BY ONLY <1>1, <2>1
<1>3. ASSUME NEW T, IsFiniteSet(T), Range(queue) \subseteq T
      PROVE  Len(queue) <= Cardinality(T)
  <2>1. queue \in Injection(1..Len(queue), T)
    <3>1. queue \in [1..Len(queue) -> T]
        BY <1>1, <1>3
    <3> QED
        BY <1>1, <3>1 DEF Injection, IsInjective
  <2> QED
      BY <1>2, <1>3, <2>1, FS_Injection
<1>4. IsFiniteSet(Outstanding) /\ Cardinality(Outstanding) \in Nat /\ Range(queue) \subseteq Outstanding
    BY FinitePlaces DEF Outstanding
<1>5. ASSUME NEW s \in Samples, stage[s] = "put"
      PROVE  Len(queue) < Cardinality(Outstanding)
  <2>1. s \notin Range(queue)
    <3>1. PlacesOf(s) <= 1
        BY PlaceTypes DEF PlaceInv, CountInv
    <3> QED
        BY <1>5, <3>1 DEF PlacesOf, One
  <2>2. s \in Outstanding
      BY <1>5, PlaceTypes DEF Outstanding, Underway
  <2>3. IsFiniteSet(Outstanding \ {s}) /\ Cardinality(Outstanding \ {s}) = Cardinality(Outstanding) - 1
      BY <1>4, <2>2, FS_RemoveElement
  <2>4. Len(queue) <= Cardinality(Outstanding \ {s})
      BY <1>3, <1>4, <2>1, <2>3
  <2> QED
      BY <1>1, <1>4, <2>3, <2>4
<1> QED
    BY <1>3, <1>4, <1>5

\* A queue that has room takes a sample and drops none.
LEMMA PutWithRoom ==
    ASSUME TypeOK, NEW x \in Samples \union {NoSample}, RemotePut(x), Len(queue) < MaxQueueSize
    PROVE  queue' = Append(queue, x) /\ dropped' = dropped
<1>1. Len(queue) \in Nat /\ MaxQueueSize \in Nat
    BY Numbers
<1>2. ~QueueFull
    BY <1>1 DEF QueueFull
<1> QED
    BY <1>2 DEF RemotePut, PutSample

\* The trainer leaves its loop by taking the end marker.
LEMMA LoopEnds ==
    ASSUME [Next]_vars
    PROVE  /\ InLoop' \/ ~InLoop \/ TrainerGetNone
           /\ UNCHANGED <<trainPc, finishing>> \/ Trainer \/ Synchronizer
<1>1. CASE Trainer \/ Synchronizer
    BY <1>1 DEF InLoop, Trainer, TrainerWait, TrainerGet, TrainerTrain, StartSync, TrainerDrained, TrainerEnd,
       Synchronizer, SyncPause, SyncWeights, SyncDone, trainerVars
<1>2. CASE UNCHANGED <<trainerVars, engineVars>>
    BY <1>2 DEF InLoop, trainerVars
<1> QED
    BY <1>1, <1>2, NextCases DEF vars, trainerVars, engineVars

\* The end marker comes last, and neither it nor a sample drops one.
LEMMA MarkerStep ==
    ASSUME StaleNum = 0, TypeOK, PlaceInv, EndInv, OneWindowInv, FinishInv, MarkerInv, [Next]_vars
    PROVE  MarkerInv'
<1> SUFFICES ASSUME procPc' # "crashed"
             PROVE  /\ dropped' = {}
                    /\ \A i \in 1..Len(queue') : queue'[i] = NoSample => i = Len(queue')
                    /\ ~InLoop' => queue' = <<>> /\ mainPc' \notin {"wait", "putting"}
    BY DEF MarkerInv
<1>1. procPc # "crashed"
    BY EndStep
<1>2. /\ dropped = {}
      /\ \A i \in 1..Len(queue) : queue[i] = NoSample => i = Len(queue)
      /\ ~InLoop => queue = <<>> /\ mainPc \notin {"wait", "putting"}
    BY <1>1 DEF MarkerInv
<1>3. queue \in Seq(Samples \union {NoSample}) /\ Len(queue) \in Nat /\ NoSample \notin Samples
    BY PlaceTypes
<1>4. Cardinality(Outstanding) <= WindowSamples /\ Cardinality(Outstanding) \in Nat
      /\ WindowSamples \in Nat /\ MaxQueueSize = WindowSamples
  <2>1. InLoop => Cardinality(Outstanding) <= WindowSamples
    <3>1. Cardinality(Outstanding) <= InWindow /\ InWindow \in Nat
      <4>1. \A h, j, k \in Nat : h <= h + j + k /\ h + j + k \in Nat
          OBVIOUS
      <4> QED
          BY <4>1, FinitePlaces, Numbers, Zenon DEF InWindow
    <3>2. Cardinality(Outstanding) \in Nat /\ WindowSamples \in Nat
        BY FinitePlaces, Numbers
    <3> QED
        BY <3>1, <3>2 DEF OneWindowInv
  <2>2. ~InLoop => Cardinality(Outstanding) <= WindowSamples
      BY DEF OneWindowInv
  <2> QED
      BY <2>1, <2>2, FinitePlaces, Numbers, OneWindowLimit
<1>5. mainPc = "wait" \/ mainPc = "putting" => NoSample \notin Range(queue) /\ InLoop
    BY <1>2 DEF EndInv
<1>6. CASE UNCHANGED <<queue, dropped>>
  <2>1. ~TrainerGetNone
      BY <1>3, <1>6 DEF TrainerGetNone, TakeSample
  <2> QED
      BY <1>2, <1>6, <2>1, EndStep, LoopEnds
<1>7. CASE TrainerGet
  <2>1. queue # <<>> /\ queue' = Tail(queue) /\ UNCHANGED dropped
      BY <1>7 DEF TrainerGet, TakeSample
  <2>2. InLoop'
    <3>1. InLoop /\ ~TrainerGetNone
        BY <1>2, <1>7, <2>1 DEF TrainerGet, TrainerGetNone
    <3> QED
        BY <3>1, LoopEnds
  <2>3. /\ Len(queue') = Len(queue) - 1
        /\ \A i \in 1..Len(queue') : queue'[i] = queue[i + 1] /\ i + 1 \in 1..Len(queue)
      BY <1>3, <2>1
  <2>4. ASSUME NEW i \in 1..Len(queue'), queue'[i] = NoSample
        PROVE  i = Len(queue')
    <3>1. i + 1 = Len(queue)
        BY <1>2, <2>3, <2>4
    <3>2. i \in Int /\ Len(queue) \in Int
        BY <1>3
    <3> QED
        BY <2>3, <3>1, <3>2
  <2> QED
      BY <1>2, <2>1, <2>2, <2>4
<1>8. CASE TrainerGetNone
  <2>1. queue # <<>> /\ queue' = Tail(queue) /\ UNCHANGED <<dropped, mainPc>> /\ Head(queue) = NoSample
      BY <1>8 DEF TrainerGetNone, TakeSample, rollouterInside, loopVars
  <2>2. 1 \in 1..Len(queue) /\ queue[1] = NoSample
      BY <1>3, <2>1
  <2>3. queue' = <<>>
      BY <1>2, <1>3, <2>1, <2>2
  <2>4. NoSample \in Range(queue)
      BY <1>3, <2>2 DEF Range
  <2> QED
      BY <1>2, <1>5, <2>1, <2>3, <2>4
<1>9. ASSUME NEW s \in Samples, TaskPut(s)
      PROVE  /\ dropped' = {}
             /\ \A i \in 1..Len(queue') : queue'[i] = NoSample => i = Len(queue')
             /\ ~InLoop' => queue' = <<>> /\ mainPc' \notin {"wait", "putting"}
  <2>1. stage[s] = "put" /\ RemotePut(s)
      BY <1>9 DEF TaskPut
  <2>2. procPc # "ended" /\ mainPc = "wait"
    <3>1. s \in LiveTasks
        BY <2>1 DEF LiveTasks
    <3>2. procPc # "ended"
        BY <3>1 DEF FinishInv
    <3> QED
        BY <1>1, <3>2 DEF EndInv
  <2>3. NoSample \notin Range(queue) /\ InLoop
      BY <1>5, <2>2
  <2>4. Len(queue) < Cardinality(Outstanding)
      BY <2>1, <2>3, QueueFits
  <2>5. queue' = Append(queue, s) /\ dropped' = {}
      BY <1>2, <1>3, <1>4, <2>1, <2>4, PutWithRoom
  <2>6. NoSample \notin Range(queue')
    <3>1. Range(queue') = Range(queue) \union {s}
        BY <1>3, <2>5, AppendRange
    <3> QED
        BY <1>3, <2>3, <3>1
  <2>7. \A i \in 1..Len(queue') : queue'[i] \in Range(queue')
      BY <1>3, <2>5 DEF Range
  <2>8. InLoop'
    <3>1. ~TrainerGetNone
        BY <1>3, <2>5 DEF TrainerGetNone, TakeSample
    <3> QED
        BY <2>3, <3>1, LoopEnds
  <2> QED
      BY <2>5, <2>6, <2>7, <2>8
<1>10. CASE MainSentinel
  <2>1. mainPc = "putting" /\ RemotePut(NoSample)
      BY <1>10 DEF MainSentinel
  <2>2. NoSample \notin Range(queue) /\ InLoop /\ reaping = "finish"
      BY <1>1, <1>5, <2>1 DEF EndInv, FinishInv
  <2>3. Len(queue) <= Cardinality(Outstanding) /\ Cardinality(Outstanding) < WindowSamples
      BY <2>2, QueueFits DEF FinishInv
  <2>4. queue' = Append(queue, NoSample) /\ dropped' = {}
      BY <1>2, <1>3, <1>4, <2>1, <2>3, PutWithRoom
  <2>5. \A i \in 1..Len(queue) : queue[i] # NoSample
      BY <1>3, <2>2 DEF Range
  <2>6. InLoop'
    <3>1. ~TrainerGetNone
        BY <1>3, <2>4 DEF TrainerGetNone, TakeSample
    <3> QED
        BY <2>2, <3>1, LoopEnds
  <2> QED
      BY <1>3, <2>4, <2>5, <2>6
<1> QED
    BY <1>6, <1>7, <1>8, <1>9, <1>10, EndCases

\* At the start nothing was fed.
LEMMA EndOfRunInit == Init => WholeInv /\ FedInv /\ FinishInv /\ MarkerInv
<1> SUFFICES ASSUME Init PROVE WholeInv /\ FedInv /\ FinishInv /\ MarkerInv
    OBVIOUS
<1>1. /\ cancel_queue = <<>> /\ pending_queue = <<>> /\ queue = <<>> /\ fed = 0 /\ dropped = {}
      /\ stage = [s \in Samples |-> "none"] /\ ~serversPaused /\ pausePc = "idle" /\ resumePc = "done"
      /\ procPc = "top" /\ reaping = "drain" /\ trainPc = "get" /\ ~finishing
    BY DEF Init, RolloutInit, MQInit
<1>2. TotalSamples \in Nat
    BY RolloutAssumption
<1>3. Len(pending_queue) = 0 /\ Len(queue) = 0
    BY <1>1
<1> QED
    BY <1>1, <1>2, <1>3 DEF WholeInv, FedInv, FinishInv, MarkerInv, InLoop

(***************************************************************************)
(* With staleness_threshold = 0 and no partial_rollout, a run that ends    *)
(* has trained on every sample that did not fail, those of a last,         *)
(* unfinished batch apart, unless the processor died of an exception.      *)
(***************************************************************************)
THEOREM NothingIsLost ==
    ASSUME StaleNum = 0, ~PartialRollout
    PROVE  Spec => []NothingLost
<1> DEFINE Inv == /\ TypeOK /\ PlaceInv /\ BatchInv /\ SyncInv /\ EndInv /\ OneWindowInv
                  /\ WholeInv /\ FedInv /\ FinishInv /\ MarkerInv
<1>1. Init => Inv
    BY InitType, PlaceInit, WindowInit, SyncInvInit, EndOfRunInit
<1>2. Inv /\ [Next]_vars => Inv'
    BY TypeStep, PlaceStep, BatchStep, SyncInvStep, EndStep, WindowStep, WholeStep, FedStep, FinishStep,
       MarkerStep
<1>3. Inv => NothingLost
  <2> SUFFICES ASSUME Inv, Stopped, procPc # "crashed"
               PROVE  trained \union batch = Samples \ failed
      BY DEF NothingLost
  <2>1. ~InLoop
      BY DEF Stopped, BatchInv, InLoop
  <2>2. procPc = "ended"
      BY <2>1 DEF OneWindowInv
  <2>3. reaping = "finish" /\ LiveTasks = {} /\ pending_queue = <<>> /\ fed = TotalSamples + 1
      BY <2>2 DEF FinishInv
  <2>4. queue = <<>> /\ dropped = {} /\ cancel_queue = <<>> /\ hand = NoSample
    <3>1. hand = NoSample
        BY <2>3 DEF PlaceInv, HandInv
    <3> QED
        BY <2>1, <3>1 DEF MarkerInv, WholeInv
  <2>5. Range(queue) = {} /\ Range(cancel_queue) = {} /\ Range(pending_queue) = {}
      BY <2>3, <2>4 DEF Range
  <2>6. ASSUME NEW s \in Samples
        PROVE  One(s \in batch) + One(s \in trained) + One(s \in failed) = 1
    <3>1. PlacesOf(s) = 1
      <4>1. s <= fed
          BY <2>3, PlaceTypes, RolloutAssumption DEF Samples
      <4> QED
          BY <4>1 DEF PlaceInv, CountInv
    <3>2. stage[s] = "none" /\ hand # s
        BY <2>3, <2>4, PlaceTypes DEF LiveTasks
    <3> QED
        BY <2>4, <2>5, <3>1, <3>2 DEF PlacesOf, One
  <2>7. \A s \in Samples : s \in failed <=> ~(s \in batch \/ s \in trained)
      BY <2>6 DEF One
  <2>8. batch \subseteq Samples /\ trained \subseteq Samples
      BY DEF TypeOK, TrainerTypeOK
  <2> QED
      BY <2>7, <2>8
<1> QED
    BY <1>1, <1>2, <1>3, PTL DEF Spec

-----------------------------------------------------------------------------
(* How the processor ends: done_tasks has been assigned when it is read *)

\* a sample that was put is neither to be fed, nor to be submitted again
HandedOver ==
    \A s \in Samples : stage[s] = "ret" =>
        s <= fed /\ hand # s /\ s \notin Range(pending_queue) /\ s \notin Range(cancel_queue)

\* the turns before the first of the processor: the monitor's, then that of _feed_samples
BeforeTurn ==
    /\ procPc = "top" /\ ~paused /\ staleness_samples = 0 /\ ActiveCount = 0
    /\ \/ /\ Len(ready) >= 3 /\ ready[1] = "mon" /\ ready[2] = "feed" /\ ready[3] = "proc"
          /\ \/ monPc = "lock" /\ lock = <<>>
             \/ monPc = "test" /\ lock = <<"mon">>
       \/ Len(ready) >= 2 /\ ready[1] = "feed" /\ ready[2] = "proc" /\ lock = <<>>

ProcLocks == procPc \in {"mark", "reapLocked", "submit"}
Draining == procPc \in {"reap", "reapLocked"} /\ reaping = "drain"

\* the first turn of the processor: it does not end before there are tasks to wait for
InTurn ==
    /\ Len(ready) >= 1 /\ ready[1] = "proc"
    /\ procPc \in {"top", "get", "mark", "reap", "reapLocked", "submit"}
    /\ lock = IF ProcLocks THEN <<"proc">> ELSE <<>>
    /\ paused => Draining
    /\ procPc \in {"mark", "reapLocked"} \/ Draining => ActiveCount > 0
    /\ procPc \in {"top", "get"} => ActiveCount <= MaxConcurrent
    /\ procPc = "submit" => ActiveCount < MaxConcurrent
    /\ procPc = "submit" \/ (procPc = "reap" /\ reaping = "limit") => hand # NoSample
    /\ \/ procPc \in {"reap", "reapLocked"} /\ reaping = "finish"
       \/ /\ staleness_samples <= ActiveCount + One(hand # NoSample)
          /\ \/ Len(pending_queue) + staleness_samples >= PendingSize
             \/ NoSample \in Range(pending_queue)

(***************************************************************************)
(* Until the first asyncio.wait returns, it is that wait that the          *)
(* processor is in, holding the lock, so that pause() cannot empty         *)
(* active_tasks; before, no other coroutine has a turn after the           *)
(* processor's has begun, and what it counted it has submitted.            *)
(***************************************************************************)
FirstWait ==
    doneTasksBound \/ \/ procPc = "reapWait" /\ Holds("proc") /\ ActiveCount > 0
                      \/ procPc = "ended"
                      \/ /\ mainPc = "wait"
                         /\ queue # <<>> => ActiveCount > 0
                         /\ BeforeTurn \/ InTurn

RaisedInv == raised > 0 \/ procPc = "crashed" => failed # {}

-----------------------------------------------------------------------------
\* What a step wakes queues up behind the coroutines that are ready.
LEMMA WakeKeeps ==
    ASSUME NEW rest \in Seq(Turns), Wake(rest)
    PROVE  Len(ready') >= Len(rest) /\ \A i \in 1..Len(rest) : ready'[i] = rest[i]
<1>1. ASSUME NEW c \in Turns
      PROVE  Enters(c, rest) \in Seq(Turns)
  <2>1. <<c>> \in Seq(Turns) /\ <<>> \in Seq(Turns)
      OBVIOUS
  <2> QED
      BY <2>1 DEF Enters
<1>2. \A p, q \in Seq(Turns) :
          /\ p \o q \in Seq(Turns) /\ Len(p \o q) >= Len(p)
          /\ \A i \in 1..Len(p) : (p \o q)[i] = p[i]
    OBVIOUS
<1> DEFINE w1 == rest \o Enters("feed", rest)
           w2 == w1 \o Enters("proc", rest)
           w3 == w2 \o Enters("mon", rest)
           w4 == w3 \o Enters("main", rest)
           w5 == w4 \o Enters("pause", rest)
           w6 == w5 \o Enters("update", rest)
           w7 == w6 \o Enters("resume", rest)
           Starts(w) == /\ w \in Seq(Turns) /\ Len(w) >= Len(rest)
                        /\ \A i \in 1..Len(rest) : w[i] = rest[i]
<1>3. \A w \in Seq(Turns), e \in Seq(Turns) : Starts(w) => Starts(w \o e)
    BY <1>2
<1>4. ready' = w7
    BY DEF Wake
<1>5. /\ Enters("feed", rest) \in Seq(Turns) /\ Enters("proc", rest) \in Seq(Turns)
      /\ Enters("mon", rest) \in Seq(Turns) /\ Enters("main", rest) \in Seq(Turns)
      /\ Enters("pause", rest) \in Seq(Turns) /\ Enters("update", rest) \in Seq(Turns)
      /\ Enters("resume", rest) \in Seq(Turns)
    BY <1>1 DEF Coroutines, Turns
<1>6. Starts(rest)
    OBVIOUS
<1> HIDE DEF Starts
<1>7. \A w \in Seq(Turns), e \in Seq(Turns) : Starts(w) => Starts(w \o e) /\ w \o e \in Seq(Turns)
    BY <1>2, <1>3
<1>8. Starts(w1) /\ w1 \in Seq(Turns)
    BY ONLY <1>5, <1>6, <1>7, rest \in Seq(Turns)
<1>9. Starts(w2) /\ w2 \in Seq(Turns)
  <2> HIDE DEF w1
  <2> QED BY ONLY <1>5, <1>7, <1>8
<1>10. Starts(w3) /\ w3 \in Seq(Turns)
  <2> HIDE DEF w2
  <2> QED BY ONLY <1>5, <1>7, <1>9
<1>11. Starts(w4) /\ w4 \in Seq(Turns)
  <2> HIDE DEF w3
  <2> QED BY ONLY <1>5, <1>7, <1>10
<1>12. Starts(w5) /\ w5 \in Seq(Turns)
  <2> HIDE DEF w4
  <2> QED BY ONLY <1>5, <1>7, <1>11
<1>13. Starts(w6) /\ w6 \in Seq(Turns)
  <2> HIDE DEF w5
  <2> QED BY ONLY <1>5, <1>7, <1>12
<1>14. Starts(w7)
  <2> HIDE DEF w6
  <2> QED BY ONLY <1>5, <1>7, <1>13
<1> QED
    BY <1>4, <1>14 DEF Starts

\* A task leaves active_tasks with asyncio.wait or pause(); only a submission adds one.
LEMMA ActiveSteps ==
    ASSUME TypeOK, [Next]_vars
    PROVE  /\ ActiveCount' = ActiveCount \/ ProcSubmit \/ ProcReap \/ PauseGathered
           /\ ProcSubmit /\ hand \in Samples /\ stage[hand] = "none" => ActiveCount' = ActiveCount + 1
<1> DEFINE L == Cardinality(LiveTasks)
<1>1. IsFiniteSet(LiveTasks) /\ L \in Nat
  <2>1. IsFiniteSet(Samples)
      BY RolloutAssumption, FS_Interval DEF Samples
  <2>2. IsFiniteSet(LiveTasks)
      BY <2>1, FS_Subset DEF LiveTasks
  <2> QED
      BY <2>2, FS_CardinalityType
<1>2. finished \in Nat /\ raised \in Nat /\ stage \in [Samples -> {"none", "new", "call", "gen", "cut", "put", "ret"}]
    BY DEF TypeOK, RollouterTypeOK, TaskTypeOK
<1>3. ASSUME UNCHANGED <<stage, finished, raised>>
      PROVE  ActiveCount' = ActiveCount
  <2>1. LiveTasks' = LiveTasks
      BY <1>3 DEF LiveTasks
  <2> QED
      BY <1>3, <2>1 DEF ActiveCount
<1>4. ASSUME CancelReply \/ TaskBegins
      PROVE  ActiveCount' = ActiveCount
  <2>1. \A s \in Samples : stage'[s] # "none" <=> stage[s] # "none"
      BY <1>2, <1>4, BeginStays DEF CancelReply
  <2>2. LiveTasks' = LiveTasks
      BY <2>1 DEF LiveTasks
  <2>3. UNCHANGED <<finished, raised>>
      BY <1>4 DEF CancelReply, TaskBegins
  <2> QED
      BY <2>2, <2>3 DEF ActiveCount
<1>5. ASSUME NEW s \in Samples, Task(s) \/ TaskRaises(s)
      PROVE  ActiveCount' = ActiveCount
  <2>1. CASE TaskArrives(s) \/ TaskGenerated(s) \/ TaskPut(s)
    <3>1. LiveTasks' = LiveTasks /\ UNCHANGED <<finished, raised>>
        BY <1>2, <2>1 DEF LiveTasks, TaskArrives, TaskGenerated, TaskPut, taskFrame
    <3> QED
        BY <3>1 DEF ActiveCount
  <2>2. CASE TaskReturned(s) \/ TaskCancelled(s) \/ TaskRaises(s)
    <3>1. LiveTasks' = LiveTasks \ {s} /\ s \in LiveTasks
        BY <1>2, <2>2 DEF LiveTasks, TaskReturned, TaskCancelled, TaskRaises
    <3>2. Cardinality(LiveTasks') = L - 1
        BY <1>1, <3>1, FS_RemoveElement
    <3>3. \/ finished' = finished + 1 /\ raised' = raised
          \/ finished' = finished /\ raised' = raised + 1
        BY <2>2 DEF TaskReturned, TaskCancelled, TaskRaises, taskFrame
    <3> QED
        BY <1>1, <1>2, <3>2, <3>3 DEF ActiveCount
  <2> QED
      BY <1>5, <2>1, <2>2 DEF Task
<1>6. ProcSubmit /\ hand \in Samples /\ stage[hand] = "none" => ActiveCount' = ActiveCount + 1
  <2> SUFFICES ASSUME ProcSubmit, hand \in Samples, stage[hand] = "none"
               PROVE  ActiveCount' = ActiveCount + 1
      OBVIOUS
  <2>1. LiveTasks' = LiveTasks \union {hand} /\ hand \notin LiveTasks
      BY <1>2 DEF LiveTasks, ProcSubmit
  <2>2. Cardinality(LiveTasks') = L + 1
      BY <1>1, <2>1, FS_AddElement
  <2> QED
      BY <1>1, <1>2, <2>2 DEF ActiveCount, ProcSubmit
<1>7. \/ UNCHANGED <<stage, finished, raised>> \/ CancelReply \/ TaskBegins
      \/ ProcSubmit \/ ProcReap \/ PauseGathered
      \/ \E s \in Samples : Task(s) \/ TaskRaises(s)
  <2>1. \/ UNCHANGED stage \/ ProcSubmit \/ TaskBegins \/ CancelReply
        \/ \E s \in Samples : Task(s) \/ TaskRaises(s)
      BY EndCases
  <2>2. UNCHANGED <<finished, raised>> \/ ProcReap \/ PauseGathered
        \/ \E s \in Samples : Task(s) \/ TaskRaises(s)
    <3>1. CASE Processor
        BY <3>1 DEF Processor, ProcPause, ProcMark, ProcReapLock, ProcReapWait, ProcReapNothing,
           ProcFinished, ProcReaped, ProcSleep, ProcWoken, ProcRestart, ProcTakeCancelled, ProcAwaitPending,
           ProcTakePending, ProcSubmit, procFrame, taskVars
    <3>2. CASE TaskBegins \/ Feed \/ Monitor \/ Main \/ MonTimer \/ MainSentinel
        BY <3>2 DEF TaskBegins, Feed, FeedSample, FeedDone, FeedItem, Monitor, MonLock, MonTest, MonTimer,
           MonDecide, MonSkip, MonKick, monFrame, Main, MainFinish, MainSentinel, MainLock, MainStop,
           mainFrame, taskVars
    <3>3. CASE Pause \/ CancelReply \/ ClearReply
        BY <3>3 DEF Pause, PauseLock, PauseBegin, PauseGather, PauseDone, CancelReply, ClearReply
    <3>4. CASE Update \/ SizeReply \/ ValidateReply \/ Resume \/ ServersReply
        BY <3>4 DEF Update, UpdateLock, UpdateCount, UpdateAssign, UpdateDone, SizeReply, ValidateReply,
           updateFrame, Resume, ResumeLock, ResumeBegin, ResumeDone, ServersReply, resumeFrame, taskVars
    <3>5. CASE Trainer \/ Synchronizer
        BY <3>5 DEF Trainer, TrainerWait, TrainerGet, TrainerGetNone, TrainerTrain, TrainerDrained,
           TrainerEnd, Synchronizer, SyncPause, SyncWeights, SyncDone, rollouterInside, taskVars
    <3>6. CASE UNCHANGED vars
        BY <3>6 DEF vars, rollouterVars, taskVars
    <3> QED
        BY <3>1, <3>2, <3>3, <3>4, <3>5, <3>6, NextCases DEF Reply
  <2> QED
      BY <2>1, <2>2
<1> QED
    BY <1>3, <1>4, <1>5, <1>6, <1>7

\* A sample is handed over by put_sample, and before that it is nowhere else.
LEMMA HandedOverStep ==
    ASSUME TypeOK, PlaceInv, HandedOver, [Next]_vars
    PROVE  HandedOver'
<1> USE PlaceTypes
<1>1. CASE UNCHANGED placeVars
    BY <1>1 DEF HandedOver, placeVars
<1>2. CASE TrainerGet \/ TrainerGetNone \/ TrainerTrain
  <2>1. UNCHANGED <<fed, hand, stage, pending_queue, cancel_queue>>
      BY <1>2 DEF TrainerGet, TrainerGetNone, TrainerTrain, rollouterInside, sampleVars, taskVars, procVars
  <2> QED
      BY <2>1 DEF HandedOver
<1>3. CASE Feed
  <2>1. UNCHANGED <<hand, stage, cancel_queue>> /\ fed' = fed + 1
      BY <1>3 DEF Feed, FeedSample, FeedDone, FeedItem, procVars, taskVars
  <2>2. PICK x \in Samples \union {NoSample} :
            /\ pending_queue' = Append(pending_queue, x)
            /\ x # NoSample => x = fed + 1
    <3>1. CASE FeedSample
      <4>1. fed + 1 \in Samples
          BY <3>1, RolloutAssumption DEF FeedSample, Samples
      <4> QED
          BY <3>1, <4>1 DEF FeedSample, FeedItem
    <3>2. CASE FeedDone
        BY <3>2 DEF FeedDone, FeedItem
    <3> QED
        BY <1>3, <3>1, <3>2 DEF Feed
  <2>3. Range(pending_queue') = Range(pending_queue) \union {x}
    <3>1. pending_queue \in Seq(Samples \union {NoSample})
        OBVIOUS
    <3> QED
        BY <2>2, <3>1, AppendRange, SMTT(30)
  <2>4. \A s \in Samples : s <= fed => s # x /\ s <= fed + 1
    <3>1. fed \in Int /\ NoSample \notin Samples /\ \A s \in Samples : s \in Int
        OBVIOUS
    <3> QED
        BY ONLY <2>2, <3>1, x \in Samples \union {NoSample}
  <2> QED
      BY <2>1, <2>3, <2>4 DEF HandedOver
<1>4. CASE ProcessorMoves
  <2>1. UNCHANGED fed /\ \A s \in Samples : stage'[s] = "ret" => stage[s] = "ret"
      BY <1>4 DEF ProcessorMoves, ProcTakePending, ProcTakeCancelled, ProcSubmit, sampleVars, taskVars
  <2>2. /\ hand' \in {hand, NoSample} \union Range(pending_queue) \union Range(cancel_queue)
        /\ Range(pending_queue') \subseteq Range(pending_queue)
        /\ Range(cancel_queue') \subseteq Range(cancel_queue)
    <3>1. CASE ProcTakePending
        BY <3>1, TailRange DEF ProcTakePending
    <3>2. CASE ProcTakeCancelled
        BY <3>2, TailRange DEF ProcTakeCancelled
    <3>3. CASE ProcSubmit
        BY <3>3 DEF ProcSubmit, sampleVars
    <3> QED
        BY <1>4, <3>1, <3>2, <3>3 DEF ProcessorMoves
  <2> QED
      BY <2>1, <2>2 DEF HandedOver
<1>5. CASE MainSentinel \/ CancelReply \/ TaskBegins
  <2>1. UNCHANGED <<fed, hand, pending_queue, cancel_queue>>
      BY <1>5 DEF MainSentinel, mainFrame, CancelReply, pauseFrame, TaskBegins, sampleVars, procVars
  <2>2. \A s \in Samples : stage'[s] = "ret" => stage[s] = "ret"
      BY <1>5, BeginStays DEF MainSentinel, mainFrame, CancelReply, taskVars
  <2> QED
      BY <2>1, <2>2 DEF HandedOver
<1>6. ASSUME NEW r \in Samples, Task(r) \/ TaskRaises(r)
      PROVE  HandedOver'
  <2>1. UNCHANGED <<fed, hand, pending_queue>>
      BY <1>6 DEF Task, TaskArrives, TaskGenerated, TaskPut, TaskReturned, TaskCancelled, TaskRaises, taskFrame, procVars
  <2>2. \A s \in Samples : stage'[s] = "ret" => stage[s] = "ret" \/ (s = r /\ TaskPut(r))
      BY <1>6 DEF Task, TaskArrives, TaskGenerated, TaskPut, TaskReturned, TaskCancelled, TaskRaises
  <2>3. \/ UNCHANGED cancel_queue
        \/ /\ Range(cancel_queue') = Range(cancel_queue) \union {r}
           /\ stage'[r] # "ret" /\ ~TaskPut(r)
    <3>1. CASE TaskCancelled(r)
      <4>1. Range(cancel_queue') = Range(cancel_queue) \union {r}
          BY <3>1, AppendRange DEF TaskCancelled
      <4>2. stage'[r] = "none" /\ stage[r] = "cut"
          BY <3>1 DEF TaskCancelled
      <4> QED
          BY <4>1, <4>2 DEF TaskPut
    <3>2. CASE ~TaskCancelled(r)
        BY <1>6, <3>2 DEF Task, TaskArrives, TaskGenerated, TaskPut, TaskReturned, TaskRaises
    <3> QED
        BY <3>1, <3>2
  <2>4. TaskPut(r) => /\ r <= fed /\ hand # r /\ r \notin Range(pending_queue)
                      /\ r \notin Range(cancel_queue)
    <3>1. PlacesOf(r) = IF r <= fed THEN 1 ELSE 0
        BY DEF PlaceInv, CountInv
    <3>2. TaskPut(r) => stage[r] = "put"
        BY DEF TaskPut
    <3> QED
        BY <3>1, <3>2 DEF PlacesOf, One
  <2> QED
      BY <2>1, <2>2, <2>3, <2>4 DEF HandedOver
<1>7. CASE UNCHANGED vars
    BY <1>1, <1>7 DEF vars, rollouterVars, placeVars, sampleVars, taskVars, procVars, queueVars, mqVars,
       trainerVars
<1>8. CASE Trainer \/ Synchronizer
    BY <1>1, <1>2, <1>8, TrainerOtherwise
<1>9. CASE /\ \/ TaskBegins \/ Feed \/ Processor \/ Monitor \/ Main \/ Pause \/ Update \/ Resume
              \/ Reply \/ \E s \in Samples : Task(s) \/ TaskRaises(s)
           /\ UNCHANGED <<trainerVars, engineVars>>
  <2>1. UNCHANGED trainerVars
      BY <1>9
  <2> QED
      BY <1>1, <1>3, <1>4, <1>5, <1>6, <1>9, <2>1, ProcessorOtherwise, LoopsMoveNothing DEF Reply
<1> QED
    BY <1>7, <1>8, <1>9, NextCases

-----------------------------------------------------------------------------
\* The turns of the coroutines

\* the other actors, the timer and the tasks
Outside == Trainer \/ Synchronizer \/ Reply \/ \E s \in Samples : Task(s) \/ TaskRaises(s)

\* A step is one of the coroutine whose turn it is, or one outside the event loop.
LEMMA TurnCases ==
    ASSUME TypeOK, [Next]_vars, Len(ready) >= 1
    PROVE  \/ Outside /\ External
           \/ UNCHANGED vars
           \/ ready[1] = "mon" /\ Monitor /\ KeepsRunning("mon")
           \/ ready[1] = "feed" /\ Feed /\ KeepsRunning("feed")
           \/ ready[1] = "proc" /\ Processor /\ KeepsRunning("proc")
           \/ ready[1] \notin {"mon", "feed", "proc"}
<1>1. ready \in Seq(Turns)
    BY DEF TypeOK, RollouterTypeOK, SchedTypeOK, Turns
<1>2. ready # <<>> /\ Head(ready) = ready[1]
    BY <1>1
<1>3. \A c : Runs(c) => ready[1] = c
    BY <1>2 DEF Runs
<1>4. EventLoop => \/ ready[1] = "mon" /\ Monitor /\ KeepsRunning("mon")
                   \/ ready[1] = "feed" /\ Feed /\ KeepsRunning("feed")
                   \/ ready[1] = "proc" /\ Processor /\ KeepsRunning("proc")
                   \/ ready[1] \notin {"mon", "feed", "proc"}
    BY <1>3 DEF EventLoop
<1> QED
    BY <1>4, Zenon DEF Next, RollouterNext, Outside

\* What happens outside leaves the processor, the lock and what is pending alone.
LEMMA OutsideLeaves ==
    ASSUME Outside \/ UNCHANGED vars, mainPc = "wait"
    PROVE  /\ UNCHANGED <<lock, procPc, hand, reaping, doneTasksBound, paused, staleness_samples,
                          pending_queue, mainPc>>
           /\ monPc' = monPc \/ monPc = "asleep"
<1>1. CASE UNCHANGED vars
    BY <1>1 DEF vars, rollouterVars, sampleVars, procVars, flagVars, versionVars, loopVars
<1>2. CASE Trainer \/ Synchronizer
    BY <1>2 DEF Trainer, TrainerWait, TrainerGet, TrainerGetNone, TrainerTrain, TrainerDrained,
       TrainerEnd, Synchronizer, SyncPause, SyncWeights, SyncDone, rollouterInside, sampleVars, procVars,
       flagVars, versionVars, loopVars
<1>3. CASE MonTimer \/ MainSentinel
    BY <1>3 DEF MonTimer, MainSentinel, monFrame, sampleVars, versionVars
<1>4. CASE CancelReply \/ ClearReply
    BY <1>4 DEF CancelReply, ClearReply, pauseFrame, sampleVars, procVars, versionVars, loopVars
<1>5. CASE SizeReply \/ ValidateReply \/ ServersReply
    BY <1>5 DEF SizeReply, ValidateReply, ServersReply, updateFrame, resumeFrame, sampleVars, procVars,
       flagVars, versionVars, loopVars
<1>6. CASE \E s \in Samples : Task(s) \/ TaskRaises(s)
    BY <1>6 DEF Task, TaskArrives, TaskGenerated, TaskPut, TaskReturned, TaskCancelled, TaskRaises, taskFrame, procVars,
       flagVars, versionVars, loopVars
<1> QED
    BY <1>1, <1>2, <1>3, <1>4, <1>5, <1>6 DEF Outside, Reply

\* A step outside keeps the order of the turns; a coroutine keeps its turn as long as it can run.
LEMMA ReadyKept ==
    ASSUME TypeOK, Len(ready) >= 1
    PROVE  /\ External \/ UNCHANGED ready =>
                Len(ready') >= Len(ready) /\ \A i \in 1..Len(ready) : ready'[i] = ready[i]
           /\ \A c \in Coroutines : KeepsRunning(c) =>
                \/ /\ Runnable(c)' /\ ~Yields
                   /\ Len(ready') >= Len(ready) /\ \A i \in 1..Len(ready) : ready'[i] = ready[i]
                \/ /\ ~(Runnable(c)' /\ ~Yields)
                   /\ Len(ready') >= Len(ready) - 1
                   /\ \A i \in 1..(Len(ready) - 1) : ready'[i] = ready[i + 1]
<1>1. ready \in Seq(Turns)
    BY DEF TypeOK, RollouterTypeOK, SchedTypeOK, Turns
<1>2. /\ Tail(ready) \in Seq(Turns) /\ Len(Tail(ready)) = Len(ready) - 1
      /\ \A i \in 1..(Len(ready) - 1) : Tail(ready)[i] = ready[i + 1]
    BY <1>1
<1>3. Wake(ready) \/ UNCHANGED ready =>
        Len(ready') >= Len(ready) /\ \A i \in 1..Len(ready) : ready'[i] = ready[i]
    BY <1>1, WakeKeeps
<1>4. ASSUME NEW rest \in Seq(Turns), Wake(rest \o NewTask)
      PROVE  Len(ready') >= Len(rest) /\ \A i \in 1..Len(rest) : ready'[i] = rest[i]
  <2>1. PICK n \in Seq(Turns) : n = NewTask
      BY NewTaskType
  <2>2. PICK w \in Seq(Turns) : w = rest \o n
    <3>1. rest \o n \in Seq(Turns)
        OBVIOUS
    <3> QED
        BY ONLY <3>1
  <2>3. /\ Len(w) >= Len(rest) /\ Len(w) \in Nat /\ Len(rest) \in Nat
        /\ \A i \in 1..Len(rest) : w[i] = rest[i] /\ i \in 1..Len(w)
      BY <2>2
  <2>4. Wake(w)
      BY <1>4, <2>1, <2>2, Zenon
  <2>5. Len(ready') >= Len(w) /\ \A i \in 1..Len(w) : ready'[i] = w[i]
      BY <2>4, WakeKeeps
  <2>6. Len(ready') \in Nat
      BY <2>4, WakeType
  <2> QED
      BY <2>3, <2>5, <2>6
<1>5. Wake(ready \o NewTask) =>
        Len(ready') >= Len(ready) /\ \A i \in 1..Len(ready) : ready'[i] = ready[i]
    BY <1>1, <1>4
<1>6. Wake(Tail(ready) \o NewTask) =>
        /\ Len(ready') >= Len(ready) - 1
        /\ \A i \in 1..(Len(ready) - 1) : ready'[i] = ready[i + 1]
  <2> SUFFICES ASSUME Wake(Tail(ready) \o NewTask)
               PROVE  /\ Len(ready') >= Len(ready) - 1
                      /\ \A i \in 1..(Len(ready) - 1) : ready'[i] = ready[i + 1]
      OBVIOUS
  <2>1. PICK t \in Seq(Turns) : t = Tail(ready)
      BY <1>2
  <2>2. Wake(t \o NewTask)
      BY <2>1
  <2>3. Len(ready') >= Len(t) /\ \A i \in 1..Len(t) : ready'[i] = t[i]
      BY <1>4, <2>2
  <2> QED
      BY <1>2, <2>1, <2>3
<1> QED
    BY <1>3, <1>5, <1>6, Zenon DEF External, KeepsRunning

\* The monitor goes to sleep, and _feed_samples fills pending_queue before the processor's turn.
LEMMA BeforeStep ==
    ASSUME TypeOK, [Next]_vars, mainPc = "wait", BeforeTurn
    PROVE  mainPc' = "wait" /\ ActiveCount' = ActiveCount /\ (BeforeTurn \/ InTurn)'
<1> USE PlaceTypes
<1>1. /\ lock = <<>> \/ lock = <<"mon">>
      /\ procPc = "top" /\ ~paused /\ staleness_samples = 0 /\ ActiveCount = 0
    BY DEF BeforeTurn
<1>2. ActiveCount' = 0 /\ ActiveCount' = ActiveCount
    BY <1>1, ActiveSteps DEF ProcSubmit, ProcReap, PauseGathered, Holds
<1>3. ready \in Seq(Turns) /\ Len(ready) \in Nat /\ Len(ready) >= 1
      /\ ready' \in Seq(Turns) /\ Len(ready') \in Nat
    BY ReadyType DEF BeforeTurn, TypeOK, RollouterTypeOK, SchedTypeOK, Turns
<1>4. CASE (Outside /\ External) \/ UNCHANGED vars
  <2>1. Len(ready') >= Len(ready) /\ \A i \in 1..Len(ready) : ready'[i] = ready[i]
      BY <1>3, <1>4, ReadyKept DEF vars, rollouterVars
  <2>2. UNCHANGED <<lock, procPc, paused, staleness_samples, mainPc>> /\ (monPc' = monPc \/ monPc = "asleep")
      BY <1>4, OutsideLeaves
  <2>3. \A i \in 1..3 : i <= Len(ready) => ready'[i] = ready[i]
    <3>1. \A i \in 1..3 : i <= Len(ready) => i \in 1..Len(ready)
        BY ONLY <1>3
    <3> QED
        BY ONLY <2>1, <3>1
  <2>4. /\ ready'[1] = ready[1]
        /\ Len(ready) >= 2 => ready'[2] = ready[2]
        /\ Len(ready) >= 3 => ready'[3] = ready[3]
        /\ \A n \in 1..3 : Len(ready) >= n => Len(ready') >= n
      BY <1>3, <2>1, <2>3
  <2> QED
      BY <1>1, <1>2, <2>2, <2>4 DEF BeforeTurn
<1>5. CASE ready[1] = "mon" /\ Monitor /\ KeepsRunning("mon")
  <2>1. /\ Len(ready) >= 3 /\ ready[2] = "feed" /\ ready[3] = "proc"
        /\ \/ monPc = "lock" /\ lock = <<>>
           \/ monPc = "test" /\ lock = <<"mon">>
      BY <1>5 DEF BeforeTurn
  <2>2. /\ UNCHANGED <<procPc, paused, staleness_samples, mainPc>>
        /\ \/ MonLock /\ monPc' = "test" /\ lock' = <<"mon">>
           \/ MonTest /\ monPc' \in {"asleep", "ended"} /\ lock' = <<>>
    <3>1. Append(<<>>, "mon") = <<"mon">> /\ Tail(<<"mon">>) = <<>>
        OBVIOUS
    <3>2. MonLock \/ MonTest
        BY <1>5, <2>1 DEF Monitor, MonDecide, MonSkip, MonKick
    <3>3. UNCHANGED <<procPc, paused, staleness_samples, mainPc>>
        BY <3>2 DEF MonLock, MonTest, monFrame, versionVars
    <3>4. MonLock => monPc' = "test" /\ lock' = <<"mon">>
        BY <2>1, <3>1 DEF MonLock, Request
    <3>5. MonTest => monPc' \in {"asleep", "ended"} /\ lock' = <<>>
        BY <2>1, <3>1 DEF MonTest, Unlock
    <3> QED
        BY <3>2, <3>3, <3>4, <3>5
  <2>3. "mon" \in Coroutines /\ (Runnable("mon")' <=> MonRunnable') /\ ~Yields
      BY <1>1, <1>5, <2>2 DEF Coroutines, Runnable, Yields, MonLock, MonTest, monFrame, callVars
  <2>4. CASE MonLock
    <3>1. MonRunnable'
      <4>1. <<"mon">> # <<>> /\ Head(<<"mon">>) = "mon"
          OBVIOUS
      <4>2. lock' = <<"mon">> /\ monPc' = "test"
          BY <2>2, <2>4 DEF MonLock, MonTest
      <4> QED
          BY <4>1, <4>2 DEF MonRunnable, Holds
    <3>2. Len(ready') >= Len(ready) /\ \A i \in 1..Len(ready) : ready'[i] = ready[i]
        BY <1>3, <1>5, <2>3, <3>1, ReadyKept
    <3>3. Len(ready') >= 3 /\ ready'[1] = "mon" /\ ready'[2] = "feed" /\ ready'[3] = "proc"
      <4>1. 1 \in 1..Len(ready) /\ 2 \in 1..Len(ready) /\ 3 \in 1..Len(ready)
          BY ONLY <1>3, <2>1
      <4>2. ready'[1] = ready[1] /\ ready'[2] = ready[2] /\ ready'[3] = ready[3]
          BY ONLY <3>2, <4>1, Zenon
      <4>3. Len(ready') >= 3
          BY ONLY <1>3, <2>1, <3>2
      <4> QED
          BY ONLY <1>5, <2>1, <4>2, <4>3, Zenon
    <3>4. monPc' = "test" /\ lock' = <<"mon">>
        BY <2>2, <2>4 DEF MonLock, MonTest
    <3> QED
        BY <1>1, <1>2, <2>2, <3>3, <3>4 DEF BeforeTurn
  <2>5. CASE MonTest
    <3>1. ~MonRunnable' /\ lock' = <<>>
        BY <2>2, <2>5 DEF MonRunnable, MonTest, MonLock
    <3>2. Len(ready') >= Len(ready) - 1 /\ \A i \in 1..(Len(ready) - 1) : ready'[i] = ready[i + 1]
        BY <1>3, <1>5, <2>3, <3>1, ReadyKept
    <3>3. Len(ready') >= 2 /\ ready'[1] = "feed" /\ ready'[2] = "proc"
      <4>1. 1 \in 1..(Len(ready) - 1) /\ 2 \in 1..(Len(ready) - 1) /\ 1 + 1 = 2 /\ 2 + 1 = 3
          BY <1>3, <2>1
      <4>2. ready'[1] = ready[1 + 1] /\ ready'[2] = ready[2 + 1]
          BY <3>2, <4>1
      <4> QED
          BY <1>3, <2>1, <3>2, <4>1, <4>2
    <3> QED
        BY <1>1, <1>2, <2>2, <3>1, <3>3 DEF BeforeTurn
  <2> QED
      BY <2>2, <2>4, <2>5
<1>6. CASE ready[1] = "feed" /\ Feed /\ KeepsRunning("feed")
  <2>1. Len(ready) >= 2 /\ ready[2] = "proc" /\ lock = <<>>
      BY <1>6 DEF BeforeTurn
  <2>2. UNCHANGED <<lock, procPc, paused, staleness_samples, mainPc, pausePc>>
      BY <1>6 DEF Feed, FeedSample, FeedDone, FeedItem, procVars, flagVars, versionVars, loopVars, callVars
  <2>3. "feed" \in Coroutines /\ (Runnable("feed")' <=> FeedRunnable') /\ ~Yields
      BY <2>2 DEF Coroutines, Runnable, Yields
  <2>4. CASE FeedRunnable'
    <3>1. Len(ready') >= Len(ready) /\ \A i \in 1..Len(ready) : ready'[i] = ready[i]
        BY <1>3, <1>6, <2>3, <2>4, ReadyKept
    <3> QED
        BY <1>1, <1>2, <1>3, <1>6, <2>1, <2>2, <3>1 DEF BeforeTurn
  <2>5. CASE ~FeedRunnable'
    <3>1. Len(ready') >= Len(ready) - 1 /\ \A i \in 1..(Len(ready) - 1) : ready'[i] = ready[i + 1]
        BY <1>3, <1>6, <2>3, <2>5, ReadyKept
    <3>2. Len(ready') >= 1 /\ ready'[1] = "proc"
        BY <1>3, <2>1, <3>1
    <3>3. Len(pending_queue') >= PendingSize \/ NoSample \in Range(pending_queue')
      <4>1. CASE FeedSample
          BY <2>5, <4>1, RolloutAssumption DEF FeedRunnable, FeedSample, FeedItem
      <4>2. CASE FeedDone
        <5>1. pending_queue' = Append(pending_queue, NoSample)
            BY <4>2 DEF FeedDone, FeedItem
        <5>2. Range(pending_queue') = Range(pending_queue) \union {NoSample}
            BY <5>1, AppendRange, SMTT(30)
        <5> QED
            BY <5>2
      <4> QED
          BY <1>6, <4>1, <4>2 DEF Feed
    <3>4. /\ staleness_samples' <= ActiveCount' + One(hand # NoSample)'
          /\ Len(pending_queue') + staleness_samples' = Len(pending_queue')
          /\ ActiveCount' <= MaxConcurrent
      <4>1. Len(pending_queue') \in Nat
          BY TypeStep, PlaceTypes DEF TypeOK, RollouterTypeOK, SampleTypeOK
      <4> QED
          BY <1>1, <1>2, <2>2, <4>1, RolloutAssumption DEF One
    <3>5. procPc' = "top" /\ lock' = <<>> /\ ~paused' /\ ~ProcLocks' /\ ~Draining'
        BY <1>1, <2>1, <2>2 DEF ProcLocks, Draining
    <3>6. Len(pending_queue') + staleness_samples' >= PendingSize \/ NoSample \in Range(pending_queue')
        BY <3>3, <3>4
    <3>7. InTurn'
        BY <3>2, <3>4, <3>5, <3>6 DEF InTurn
    <3> QED
        BY <1>2, <2>2, <3>7
  <2> QED
      BY <2>2, <2>4, <2>5, <1>2
<1>7. ready[1] \in {"mon", "feed"}
    BY DEF BeforeTurn
<1> QED
    BY <1>2, <1>3, <1>4, <1>5, <1>6, <1>7, TurnCases

\* The processor's first turn lasts until it waits for its tasks, or ends.
LEMMA TurnStep ==
    ASSUME PendingSize > MaxConcurrent, TypeOK, PlaceInv, HandedOver, [Next]_vars, mainPc = "wait",
           queue # <<>> => ActiveCount > 0, InTurn
    PROVE  /\ ActiveCount' \in Nat /\ ActiveCount' >= ActiveCount
           /\ \/ procPc' = "reapWait" /\ Holds("proc")' /\ ActiveCount' > 0
              \/ procPc' = "ended"
              \/ mainPc' = "wait" /\ InTurn'
<1> USE PlaceTypes
<1>1. /\ ActiveCount \in Nat /\ staleness_samples \in Nat /\ Len(pending_queue) \in Nat /\ Len(queue) \in Nat
      /\ MaxConcurrent \in Nat /\ MaxConcurrent > 0 /\ PendingSize \in Nat /\ PendingSize > MaxConcurrent
      /\ MaxRequired > 0 /\ MaxQueueSize > 0 /\ MaxRequired \in Nat /\ MaxQueueSize \in Nat
    BY Numbers, LiveTasksCount, RolloutAssumption DEF TypeOK, RollouterTypeOK, VersionTypeOK
<1>2. /\ procPc \in {"top", "get", "mark", "reap", "reapLocked", "submit"}
      /\ lock = IF ProcLocks THEN <<"proc">> ELSE <<>>
      /\ Len(ready) >= 1 /\ ready[1] = "proc"
    BY DEF InTurn
<1>3. ActiveCount' = ActiveCount \/ ProcSubmit
  <2>1. ~Holds("pause") /\ procPc # "reapWait"
      BY <1>2 DEF Holds
  <2> QED
      BY <2>1, ActiveSteps DEF ProcReap, PauseGathered
<1>4. procPc \in {"top", "get", "mark"} => hand = NoSample
    BY DEF PlaceInv, HandInv
<1>5. ready \in Seq(Turns) /\ Len(ready) \in Nat /\ ready' \in Seq(Turns) /\ Len(ready') \in Nat
    BY ReadyType DEF TypeOK, RollouterTypeOK, SchedTypeOK, Turns
<1>6. CASE (Outside /\ External) \/ UNCHANGED vars
  <2>1. Len(ready') >= Len(ready) /\ \A i \in 1..Len(ready) : ready'[i] = ready[i]
      BY <1>2, <1>6, ReadyKept DEF vars, rollouterVars
  <2>2. Len(ready') >= 1 /\ ready'[1] = "proc"
      BY <1>2, <1>5, <2>1
  <2>3. UNCHANGED <<lock, procPc, hand, reaping, paused, staleness_samples, pending_queue, mainPc>>
      BY <1>6, OutsideLeaves
  <2>4. ActiveCount' = ActiveCount
    <3>1. ProcSubmit => procPc = "submit" /\ procPc' = "top"
        BY DEF ProcSubmit, ProcGoto
    <3> QED
        BY <1>3, <2>3, <3>1
  <2>5. ProcLocks' = ProcLocks /\ Draining' = Draining /\ One(hand # NoSample)' = One(hand # NoSample)
      BY <2>3 DEF ProcLocks, Draining
  <2> QED
      BY <1>1, <2>2, <2>3, <2>4, <2>5 DEF InTurn
<1>7. CASE Processor /\ KeepsRunning("proc")
  <2>1. mainPc' = "wait" /\ pausePc' = pausePc
      BY <1>7 DEF Processor, ProcPause, ProcMark, ProcReapLock, ProcReapWait, ProcReapNothing, ProcReap,
         ProcFinished, ProcReaped, ProcSleep, ProcWoken, ProcRestart, ProcTakeCancelled,
         ProcAwaitPending, ProcTakePending, ProcSubmit, procFrame, loopVars, callVars
  <2>2. ProcRunnable' /\ procPc' # "reapWait" => Len(ready') >= 1 /\ ready'[1] = "proc"
    <3>1. "proc" \in Coroutines /\ (Runnable("proc")' <=> ProcRunnable')
        BY DEF Coroutines, Runnable
    <3>2. procPc' # "reapWait" => ~Yields
        BY <2>1 DEF Yields
    <3>3. ProcRunnable' /\ procPc' # "reapWait" =>
            Len(ready') >= Len(ready) /\ \A i \in 1..Len(ready) : ready'[i] = ready[i]
        BY <1>2, <1>7, <3>1, <3>2, ReadyKept
    <3>4. Len(ready) \in Nat /\ Len(ready') \in Nat /\ Len(ready) >= 1
        BY <1>2, <1>5
    <3>5. 1 \in 1..Len(ready)
        BY <3>4
    <3>6. ASSUME ProcRunnable', procPc' # "reapWait"
          PROVE  Len(ready') >= 1 /\ ready'[1] = "proc"
      <4>1. Len(ready') >= Len(ready) /\ ready'[1] = ready[1]
          BY <3>3, <3>5, <3>6
      <4> QED
          BY <1>2, <3>4, <4>1
    <3> QED
        BY <3>6
  <2>3. Append(<<>>, "proc") = <<"proc">> /\ Tail(<<"proc">>) = <<>> /\ <<"proc">> # <<>>
        /\ Head(<<"proc">>) = "proc"
      OBVIOUS
  <2>4. procPc \in {"top", "get", "mark", "submit"} =>
          /\ staleness_samples <= ActiveCount + One(hand # NoSample)
          /\ \/ Len(pending_queue) + staleness_samples >= PendingSize
             \/ NoSample \in Range(pending_queue)
      BY DEF InTurn
  <2>5. procPc \in {"top", "get"} => staleness_samples <= ActiveCount /\ ActiveCount <= MaxConcurrent
      BY <1>1, <1>4, <2>4 DEF InTurn, One
  <2>6. CASE ProcPause
    <3>1. /\ procPc = "top" /\ procPc' = "mark" /\ ~paused /\ lock' = <<"proc">>
          /\ UNCHANGED <<hand, reaping, staleness_samples, pending_queue, paused>>
      <4>1. /\ procPc = "top" /\ procPc' = "mark" /\ Request("proc")
            /\ UNCHANGED <<hand, reaping, staleness_samples, pending_queue, paused>>
          BY <2>6 DEF ProcPause, ProcGoto, procFrame, flagVars, versionVars, sampleVars
      <4> QED
          BY <1>2, <2>3, <4>1 DEF InTurn, Draining, ProcLocks, Request
    <3>2. ActiveCount' = ActiveCount
        BY <1>3, <3>1 DEF ProcSubmit
    <3>3. ActiveCount > 0
      <4>1. Len(queue) >= MaxQueueSize \/ staleness_samples >= MaxRequired
          BY <2>6, <3>1 DEF ProcPause, ShouldPause
      <4>2. Len(queue) > 0 => queue # <<>>
          OBVIOUS
      <4> QED
          BY <1>1, <2>5, <3>1, <4>1, <4>2
    <3>4. ProcRunnable' /\ ProcLocks' /\ ~Draining' /\ One(hand # NoSample)' = One(hand # NoSample)
        BY <2>3, <3>1 DEF ProcRunnable, Holds, ProcLocks, Draining
    <3>5. InTurn'
        BY <2>2, <2>4, <3>1, <3>2, <3>3, <3>4 DEF InTurn
    <3> QED
        BY <1>1, <2>1, <3>2, <3>5
  <2>7. CASE ProcMark
    <3>1. /\ procPc = "mark" /\ procPc' = "reap" /\ reaping' = "drain" /\ lock' = <<>>
          /\ UNCHANGED <<hand, staleness_samples, pending_queue>>
      <4>1. /\ procPc = "mark" /\ procPc' = "reap" /\ reaping' = "drain" /\ Unlock
            /\ UNCHANGED <<hand, staleness_samples, pending_queue>>
          BY <2>7 DEF ProcMark, ProcGoto, versionVars, sampleVars
      <4> QED
          BY <1>2, <2>3, <4>1 DEF ProcLocks, Unlock
    <3>2. ActiveCount' = ActiveCount /\ ActiveCount > 0
        BY <1>3, <3>1 DEF ProcSubmit, InTurn
    <3>3. ProcRunnable' /\ ~ProcLocks' /\ Draining' /\ One(hand # NoSample)' = One(hand # NoSample)
        BY <3>1 DEF ProcRunnable, ProcLocks, Draining
    <3>4. InTurn'
        BY <2>2, <2>4, <3>1, <3>2, <3>3 DEF InTurn
    <3> QED
        BY <1>1, <2>1, <3>2, <3>4
  <2>8. CASE ProcReapLock
    <3>1. /\ procPc = "reap" /\ procPc' = "reapLocked" /\ lock' = <<"proc">>
          /\ UNCHANGED <<hand, reaping, staleness_samples, pending_queue, paused>>
      <4>1. /\ procPc = "reap" /\ procPc' = "reapLocked" /\ Request("proc")
            /\ UNCHANGED <<hand, reaping, staleness_samples, pending_queue, paused>>
          BY <2>8 DEF ProcReapLock, ProcGoto, procFrame, flagVars, versionVars, sampleVars
      <4> QED
          BY <1>2, <2>3, <4>1 DEF ProcLocks, Request
    <3>2. ActiveCount' = ActiveCount
        BY <1>3, <3>1 DEF ProcSubmit
    <3>3. ActiveCount > 0
        BY <1>1, <2>8 DEF ProcReapLock, ReapAgain
    <3>4. /\ ProcRunnable' /\ ProcLocks' /\ One(hand # NoSample)' = One(hand # NoSample)
          /\ Draining => Draining'
        BY <2>3, <3>1 DEF ProcRunnable, Holds, ProcLocks, Draining
    <3>5. InTurn'
        BY <2>2, <3>1, <3>2, <3>3, <3>4 DEF InTurn
    <3> QED
        BY <1>1, <2>1, <3>2, <3>5
  <2>9. CASE ProcReapWait
    <3>1. procPc = "reapLocked" /\ procPc' = "reapWait" /\ lock' = lock /\ Holds("proc")
        BY <2>9 DEF ProcReapWait, ProcGoto
    <3>2. ActiveCount' = ActiveCount /\ ActiveCount > 0
        BY <1>3, <3>1 DEF ProcSubmit, InTurn
    <3> QED
        BY <1>1, <3>1, <3>2 DEF Holds
  <2>10. ~ProcReapNothing /\ ~ProcReap /\ ~ProcSleep /\ ~ProcWoken /\ ~ProcRestart
    <3>1. procPc = "reapLocked" => ActiveCount > 0
        BY DEF InTurn
    <3>2. procPc = "submit" => ~paused
        BY DEF InTurn, Draining
    <3> QED
        BY <1>1, <1>2, <3>1, <3>2 DEF ProcReapNothing, ProcReap, ProcSleep, ProcWoken, ProcRestart
  <2>11. CASE ProcFinished
    <3>1. procPc = "reap" /\ procPc' = "ended"
        BY <2>11 DEF ProcFinished, ProcGoto
    <3> QED
        BY <1>1, <1>3, <3>1 DEF ProcSubmit
  <2>12. CASE ProcReaped
    <3>1. /\ procPc = "reap" /\ reaping \in {"drain", "limit"} /\ ~ReapAgain
          /\ UNCHANGED <<hand, reaping, staleness_samples, pending_queue, paused>>
        BY <2>12 DEF ProcReaped, procFrame, flagVars, versionVars, sampleVars
    <3>2. reaping = "limit" /\ ActiveCount < MaxConcurrent
        BY <1>1, <3>1 DEF InTurn, Draining, ReapAgain
    <3>3. procPc' = "submit" /\ lock' = <<"proc">> /\ ~paused /\ hand # NoSample
      <4>1. procPc' = "submit" /\ Request("proc")
          BY <2>12, <3>2 DEF ProcReaped, ProcGoto
      <4> QED
          BY <1>2, <2>3, <3>1, <3>2, <4>1 DEF InTurn, Draining, ProcLocks, Request
    <3>4. ActiveCount' = ActiveCount
        BY <1>3, <3>1 DEF ProcSubmit
    <3>5. /\ staleness_samples <= ActiveCount + One(hand # NoSample)
          /\ \/ Len(pending_queue) + staleness_samples >= PendingSize
             \/ NoSample \in Range(pending_queue)
        BY <3>2 DEF InTurn
    <3>6. ProcRunnable' /\ ProcLocks' /\ ~Draining' /\ One(hand # NoSample)' = One(hand # NoSample)
        BY <2>3, <3>1, <3>3 DEF ProcRunnable, Holds, ProcLocks, Draining
    <3>7. InTurn'
        BY <2>2, <3>1, <3>2, <3>3, <3>4, <3>5, <3>6 DEF InTurn
    <3> QED
        BY <1>1, <2>1, <3>4, <3>7
  <2>13. CASE ProcTakeCancelled
    <3>1. /\ procPc = "top" /\ procPc' = "reap" /\ reaping' = "limit" /\ lock' = lock
          /\ cancel_queue # <<>> /\ hand' = Head(cancel_queue)
          /\ UNCHANGED <<staleness_samples, pending_queue, paused>> /\ ~paused
        BY <2>13 DEF ProcTakeCancelled, ProcGoto, flagVars, versionVars
    <3>2. hand' # NoSample
        BY <3>1
    <3>3. ActiveCount' = ActiveCount /\ lock' = <<>>
        BY <1>2, <1>3, <3>1 DEF ProcSubmit, ProcLocks
    <3>4. ProcRunnable' /\ ~ProcLocks' /\ ~Draining' /\ One(hand # NoSample)' = 1
        BY <3>1, <3>2 DEF ProcRunnable, ProcLocks, Draining, One
    <3>5. staleness_samples' <= ActiveCount' + One(hand # NoSample)'
        BY <1>1, <2>5, <3>1, <3>3, <3>4
    <3>6. InTurn'
        BY <2>2, <2>4, <3>1, <3>2, <3>3, <3>4, <3>5 DEF InTurn
    <3> QED
        BY <1>1, <2>1, <3>3, <3>6
  <2>14. CASE ProcAwaitPending
    <3>1. /\ procPc = "top" /\ procPc' = "get" /\ lock' = lock /\ ~paused
          /\ UNCHANGED <<hand, reaping, staleness_samples, pending_queue, paused>>
        BY <2>14 DEF ProcAwaitPending, ProcGoto, procFrame, flagVars, versionVars, sampleVars
    <3>2. ActiveCount' = ActiveCount /\ lock' = <<>>
        BY <1>2, <1>3, <3>1 DEF ProcSubmit, ProcLocks
    <3>3. pending_queue # <<>>
      <4>1. Len(pending_queue) > 0 \/ NoSample \in Range(pending_queue)
          BY <1>1, <2>4, <2>5, <3>1
      <4>2. pending_queue = <<>> => Len(pending_queue) = 0 /\ Range(pending_queue) = {}
          BY DEF Range
      <4> QED
          BY <4>1, <4>2
    <3>4. ProcRunnable' /\ ~ProcLocks' /\ ~Draining' /\ One(hand # NoSample)' = One(hand # NoSample)
        BY <3>1, <3>3 DEF ProcRunnable, ProcLocks, Draining
    <3>5. InTurn'
        BY <2>2, <2>4, <2>5, <3>1, <3>2, <3>4 DEF InTurn
    <3> QED
        BY <1>1, <2>1, <3>2, <3>5
  <2>15. CASE ProcTakePending
    <3>1. /\ procPc = "get" /\ procPc' = "reap" /\ lock' = lock /\ pending_queue # <<>>
          /\ hand' = Head(pending_queue) /\ pending_queue' = Tail(pending_queue)
          /\ staleness_samples' = staleness_samples + 1
          /\ reaping' = IF Head(pending_queue) = NoSample THEN "finish" ELSE "limit"
          /\ paused' = paused
        BY <2>15 DEF ProcTakePending, ProcGoto, flagVars
    <3>2. ActiveCount' = ActiveCount /\ lock' = <<>> /\ ~paused'
        BY <1>2, <1>3, <3>1 DEF ProcSubmit, ProcLocks, InTurn, Draining
    <3>3. ProcRunnable' /\ ~ProcLocks' /\ ~Draining'
        BY <3>1 DEF ProcRunnable, ProcLocks, Draining
    <3>4. Head(pending_queue) # NoSample =>
            /\ staleness_samples' <= ActiveCount' + One(hand # NoSample)'
            /\ \/ Len(pending_queue') + staleness_samples' >= PendingSize
               \/ NoSample \in Range(pending_queue')
      <4> SUFFICES ASSUME Head(pending_queue) # NoSample
                   PROVE  /\ staleness_samples' <= ActiveCount' + One(hand # NoSample)'
                          /\ \/ Len(pending_queue') + staleness_samples' >= PendingSize
                             \/ NoSample \in Range(pending_queue')
          OBVIOUS
      <4>1. One(hand # NoSample)' = 1
          BY <3>1 DEF One
      <4>2. Len(pending_queue') = Len(pending_queue) - 1
          BY <3>1
      <4>3. \A i \in 1..Len(pending_queue) : pending_queue[i] = NoSample => NoSample \in Range(Tail(pending_queue))
        <5> SUFFICES ASSUME NEW i \in 1..Len(pending_queue), pending_queue[i] = NoSample
                     PROVE  NoSample \in Range(Tail(pending_queue))
            OBVIOUS
        <5>1. Head(pending_queue) = pending_queue[1]
            BY <3>1
        <5>2. i - 1 \in 1..Len(Tail(pending_queue)) /\ Tail(pending_queue)[i - 1] = pending_queue[i]
            BY <3>1, <5>1
        <5>3. DOMAIN Tail(pending_queue) = 1..Len(Tail(pending_queue))
            BY <3>1
        <5>4. NoSample = Tail(pending_queue)[i - 1] /\ i - 1 \in DOMAIN Tail(pending_queue)
            BY <5>2, <5>3
        <5> QED
            BY ONLY <5>4 DEF Range
      <4>4. NoSample \in Range(pending_queue) => NoSample \in Range(pending_queue')
          BY <3>1, <4>3 DEF Range
      <4>5. staleness_samples <= ActiveCount
          BY <2>5, <3>1
      <4>6. \/ Len(pending_queue) + staleness_samples >= PendingSize
            \/ NoSample \in Range(pending_queue)
          BY <2>4, <3>1
      <4>7. staleness_samples' <= ActiveCount' + One(hand # NoSample)'
          BY ONLY <1>1, <3>1, <3>2, <4>1, <4>5
      <4>8. CASE Len(pending_queue) + staleness_samples >= PendingSize
          BY ONLY <1>1, <3>1, <4>2, <4>7, <4>8
      <4>9. CASE NoSample \in Range(pending_queue)
          BY <4>4, <4>7, <4>9, Zenon
      <4> QED
          BY <4>6, <4>8, <4>9
    <3>5. InTurn'
        BY <2>2, <3>1, <3>2, <3>3, <3>4 DEF InTurn
    <3> QED
        BY <1>1, <2>1, <3>2, <3>5
  <2>16. CASE ProcSubmit
    <3>1. /\ procPc = "submit" /\ procPc' = "top" /\ hand' = NoSample /\ lock' = <<>>
          /\ ~paused /\ UNCHANGED <<paused, staleness_samples, pending_queue>>
      <4>1. /\ procPc = "submit" /\ procPc' = "top" /\ hand' = NoSample /\ Unlock
            /\ ~paused /\ UNCHANGED <<paused, staleness_samples, pending_queue>>
          BY <2>16 DEF ProcSubmit, ProcGoto, sampleVars, flagVars, versionVars
      <4> QED
          BY <1>2, <2>3, <4>1 DEF ProcLocks, Unlock
    <3>2. hand \in Samples /\ ActiveCount < MaxConcurrent
        BY <3>1 DEF InTurn
    <3>3. stage[hand] = "none"
      <4>1. PlacesOf(hand) = IF hand <= fed THEN 1 ELSE 0
          BY <3>2 DEF PlaceInv, CountInv
      <4>2. stage[hand] \notin {"new", "call", "gen", "cut", "put"}
          BY <3>2, <4>1 DEF PlacesOf, One
      <4> QED
          BY <3>2, <4>2 DEF HandedOver
    <3>4. ActiveCount' = ActiveCount + 1
        BY <2>16, <3>2, <3>3, ActiveSteps
    <3>5. ProcRunnable' /\ ~ProcLocks' /\ ~Draining' /\ One(hand # NoSample)' = 0 /\ One(hand # NoSample) = 1
        BY <3>1, <3>2 DEF ProcRunnable, ProcLocks, Draining, One
    <3>6. /\ staleness_samples' <= ActiveCount' + One(hand # NoSample)'
          /\ ActiveCount' <= MaxConcurrent
        BY <1>1, <2>4, <3>1, <3>2, <3>4, <3>5
    <3>7. InTurn'
        BY <2>2, <2>4, <3>1, <3>5, <3>6 DEF InTurn
    <3> QED
        BY <1>1, <2>1, <3>4, <3>7
  <2> QED
      BY <1>7, <2>6, <2>7, <2>8, <2>9, <2>10, <2>11, <2>12, <2>13, <2>14, <2>15, <2>16 DEF Processor
<1> QED
    BY <1>2, <1>6, <1>7, TurnCases

\* What assigns done_tasks, what raises, and what ends the processor with an exception.
LEMMA ExceptionSteps ==
    ASSUME TypeOK, [Next]_vars
    PROVE  /\ UNCHANGED doneTasksBound \/ (ProcReap /\ doneTasksBound')
           /\ failed \subseteq failed'
           /\ UNCHANGED raised \/ raised' = 0 \/ failed' # {}
           /\ procPc' = "crashed" => procPc = "crashed" \/ ProcReap \/ ProcReapNothing
<1>1. CASE Processor
    BY <1>1 DEF Processor, ProcPause, ProcMark, ProcReapLock, ProcReapWait, ProcReapNothing, ProcReap,
       ProcFinished, ProcReaped, ProcSleep, ProcWoken, ProcRestart, ProcTakeCancelled, ProcAwaitPending,
       ProcTakePending, ProcSubmit, ProcGoto, procFrame, taskVars
<1>2. CASE Monitor \/ Resume
    BY <1>2 DEF Monitor, MonLock, MonTest, MonDecide, MonSkip, MonKick, monFrame, NotifyAll, Resume,
       ResumeLock, ResumeBegin, ResumeDone, resumeFrame, taskVars
<1>3. CASE TaskBegins \/ Feed \/ MonTimer \/ MainSentinel \/ Main
    BY <1>3 DEF TaskBegins, Feed, FeedSample, FeedDone, FeedItem, MonTimer, monFrame, MainSentinel, Main,
       MainFinish, MainLock, MainStop, mainFrame, procVars, taskVars
<1>4. CASE \E s \in Samples : Task(s) \/ TaskRaises(s)
  <2>1. PICK s \in Samples : Task(s) \/ TaskRaises(s)
      BY <1>4
  <2>2. UNCHANGED procVars
      BY <2>1 DEF Task, TaskArrives, TaskGenerated, TaskPut, TaskReturned, TaskCancelled, TaskRaises, taskFrame
  <2>3. UNCHANGED <<raised, failed>> \/ failed' = failed \union {s}
      BY <2>1 DEF Task, TaskArrives, TaskGenerated, TaskPut, TaskReturned, TaskCancelled, TaskRaises
  <2> QED
      BY <2>2, <2>3 DEF procVars
<1>5. CASE Pause \/ CancelReply \/ ClearReply
    BY <1>5 DEF Pause, PauseLock, PauseBegin, PauseGather, PauseGathered, PauseDone, CancelReply, ClearReply,
       pauseFrame, procVars
<1>6. CASE Update \/ SizeReply \/ ValidateReply \/ ServersReply
    BY <1>6 DEF Update, UpdateLock, UpdateCount, UpdateAssign, UpdateDone, SizeReply, ValidateReply,
       updateFrame, ServersReply, resumeFrame, procVars, taskVars
<1>7. CASE Trainer \/ Synchronizer
    BY <1>7 DEF Trainer, TrainerWait, TrainerGet, TrainerGetNone, TrainerTrain, TrainerDrained,
       TrainerEnd, Synchronizer, SyncPause, SyncWeights, SyncDone, rollouterInside, procVars, taskVars
<1>8. CASE UNCHANGED vars
    BY <1>8 DEF vars, rollouterVars, procVars, taskVars
<1> QED
    BY <1>1, <1>2, <1>3, <1>4, <1>5, <1>6, <1>7, <1>8, NextCases DEF Reply

\* The first asyncio.wait of the processor has tasks to wait for, and no pause() takes them away.
LEMMA FirstWaitStep ==
    ASSUME PendingSize > MaxConcurrent, TypeOK, PlaceInv, EndInv, HandedOver, FirstWait, [Next]_vars
    PROVE  FirstWait'
<1> SUFFICES ASSUME ~doneTasksBound, ~doneTasksBound'
             PROVE  FirstWait'
    BY ExceptionSteps DEF FirstWait
<1>1. ActiveCount \in Nat
    BY LiveTasksCount DEF TypeOK, RollouterTypeOK
<1>2. ~ProcReap
    BY DEF ProcReap
<1>3. CASE procPc = "reapWait" /\ Holds("proc") /\ ActiveCount > 0
  <2>1. Holds("proc")'
      BY <1>2, <1>3, LockKept
  <2>2. ActiveCount' = ActiveCount
      BY <1>2, <1>3, ActiveSteps DEF ProcSubmit, PauseGathered, Holds
  <2>3. procPc' = "reapWait"
    <3>1. UNCHANGED procPc \/ Processor \/ NotifyAll
        BY EndCases
    <3>2. ~Processor
        BY <1>2, <1>3 DEF Processor, ProcPause, ProcMark, ProcReapLock, ProcReapWait, ProcReapNothing,
           ProcFinished, ProcReaped, ProcSleep, ProcWoken, ProcRestart, ProcTakeCancelled,
           ProcAwaitPending, ProcTakePending, ProcSubmit
    <3> QED
        BY <1>3, <3>1, <3>2 DEF NotifyAll
  <2> QED
      BY <1>3, <2>1, <2>2, <2>3 DEF FirstWait
<1>4. CASE procPc = "ended"
    BY <1>4, EndStep DEF FirstWait
<1>5. CASE mainPc = "wait" /\ (queue # <<>> => ActiveCount > 0) /\ (BeforeTurn \/ InTurn)
  <2>1. /\ ActiveCount' \in Nat /\ ActiveCount' >= ActiveCount
        /\ \/ procPc' = "reapWait" /\ Holds("proc")' /\ ActiveCount' > 0
           \/ procPc' = "ended"
           \/ mainPc' = "wait" /\ (BeforeTurn \/ InTurn)'
      BY <1>1, <1>5, BeforeStep, TurnStep
  <2>2. queue' # <<>> => queue # <<>> \/ \E s \in Samples : stage[s] # "none"
    <3>1. \/ UNCHANGED <<queue, dropped>> \/ MainSentinel \/ TrainerGet \/ TrainerGetNone
          \/ \E s \in Samples : TaskPut(s)
        BY EndCases
    <3> QED
        BY <1>5, <3>1 DEF MainSentinel, TrainerGet, TrainerGetNone, TakeSample, TaskPut
  <2>3. (\E s \in Samples : stage[s] # "none") => ActiveCount > 0
    <3>1. LiveTasks # {} => Cardinality(LiveTasks) # 0
        BY NoTasks
    <3>2. Cardinality(LiveTasks) \in Nat /\ finished \in Nat /\ raised \in Nat
        BY LiveTasksCount DEF TypeOK, RollouterTypeOK, TaskTypeOK
    <3> QED
        BY <3>1, <3>2 DEF LiveTasks, ActiveCount
  <2>4. queue' # <<>> => ActiveCount' > 0
      BY <1>1, <1>5, <2>1, <2>2, <2>3
  <2> QED
      BY <2>1, <2>4 DEF FirstWait
<1> QED
    BY <1>3, <1>4, <1>5 DEF FirstWait

\* An exception of the processor is that of a task.
LEMMA RaisedStep ==
    ASSUME TypeOK, FirstWait, RaisedInv, [Next]_vars
    PROVE  RaisedInv'
<1>1. ~(ProcReapNothing /\ procPc' = "crashed")
  <2> SUFFICES ASSUME ProcReapNothing, procPc' = "crashed"
               PROVE  FALSE
      OBVIOUS
  <2>1. procPc = "reapLocked" /\ ActiveCount = 0 /\ ~doneTasksBound
      BY DEF ProcReapNothing, ProcGoto
  <2> QED
      BY <2>1 DEF FirstWait, BeforeTurn, InTurn
<1>2. ProcReap /\ procPc' = "crashed" => raised > 0
    BY DEF ProcReap, ProcGoto
<1> QED
    BY <1>1, <1>2, ExceptionSteps DEF RaisedInv

\* At the start the monitor has the first turn, _feed_samples the second, the processor the third.
LEMMA FirstWaitInit == Init => HandedOver /\ FirstWait /\ RaisedInv
<1> SUFFICES ASSUME Init
             PROVE  HandedOver /\ FirstWait /\ RaisedInv
    OBVIOUS
<1>1. /\ ready = <<"mon", "feed", "proc">> /\ lock = <<>> /\ monPc = "lock" /\ mainPc = "wait"
      /\ procPc = "top" /\ ~paused /\ staleness_samples = 0 /\ queue = <<>>
      /\ finished = 0 /\ raised = 0 /\ stage = [s \in Samples |-> "none"]
    BY DEF Init, RolloutInit, MQInit
<1>2. ActiveCount = 0
  <2>1. LiveTasks = {}
      BY <1>1 DEF LiveTasks
  <2> QED
      BY <1>1, <2>1, FS_EmptySet DEF ActiveCount
<1>3. BeforeTurn
  <2>1. Len(ready) >= 3 /\ ready[1] = "mon" /\ ready[2] = "feed" /\ ready[3] = "proc"
      BY <1>1
  <2> QED
      BY <1>1, <1>2, <2>1 DEF BeforeTurn
<1> QED
    BY <1>1, <1>3 DEF HandedOver, FirstWait, RaisedInv

(***************************************************************************)
(* With a pending_queue larger than max_concurrent_samples, only a failed  *)
(* generation ends the processor with an exception: done_tasks has been    *)
(* assigned whenever it is read.                                           *)
(***************************************************************************)
THEOREM DoneTasksAreAssigned ==
    ASSUME PendingSize > MaxConcurrent
    PROVE  Spec => []ProcessorSurvives
<1> DEFINE Inv == TypeOK /\ PlaceInv /\ EndInv /\ HandedOver /\ FirstWait /\ RaisedInv
<1>1. Init => Inv
    BY InitType, PlaceInit, WindowInit, FirstWaitInit
<1>2. Inv /\ [Next]_vars => Inv'
    BY TypeStep, PlaceStep, EndStep, HandedOverStep, FirstWaitStep, RaisedStep
<1>3. Inv => ProcessorSurvives
    BY DEF RaisedInv, ProcessorSurvives
<1> QED
    BY <1>1, <1>2, <1>3, PTL DEF Spec
=============================================================================
