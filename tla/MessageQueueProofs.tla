------------------------- MODULE MessageQueueProofs -------------------------
(***************************************************************************)
(* Theorems about the bounded queue, for every number of callers, every    *)
(* queue size and every number of samples.                                 *)
(***************************************************************************)
EXTENDS MessageQueueAlone, TLAPS

(***************************************************************************)
(* The inductive invariant.  The four parts are proved together: the order *)
(* of the queue needs the types, the wake-up argument needs nothing else.  *)
(***************************************************************************)
MQInv == MQTypeOK /\ QueueIsNewestSuffix /\ Accounting /\ NoLostWakeup

(***************************************************************************)
(* What put_sample leaves in the queue: the samples it held, less the      *)
(* oldest when it was full, and then the new one.                          *)
(***************************************************************************)
LEMMA PutSampleQueue ==
    ASSUME MessageQueueAssumption, MQTypeOK, Len(queue) <= MaxQueueSize,
           NEW s \in Nat, PutSample(s)
    PROVE  /\ queue' \in Seq(Nat)
           /\ \E d \in {0, 1} :
                /\ dropped_samples' = dropped_samples + d
                /\ Len(queue') = Len(queue) + 1 - d
                /\ Len(queue') <= MaxQueueSize
                /\ \A i \in 1..(Len(queue) - d) : queue'[i] = queue[i + d]
                /\ queue'[Len(queue')] = s
<1> USE DEF MessageQueueAssumption, MQTypeOK
<1>1. CASE QueueFull
  <2>1. queue # <<>>
    BY <1>1 DEF QueueFull
  <2>2. /\ queue' = Append(Tail(queue), s)
        /\ dropped_samples' = dropped_samples + 1
    BY <1>1 DEF PutSample
  <2>3. /\ Tail(queue) \in Seq(Nat)
        /\ Len(Tail(queue)) = Len(queue) - 1
        /\ \A i \in 1..(Len(queue) - 1) : Tail(queue)[i] = queue[i + 1]
    BY <2>1
  <2>4. /\ Len(queue') = Len(queue) + 1 - 1
        /\ Len(queue') <= MaxQueueSize
        /\ \A i \in 1..(Len(queue) - 1) : queue'[i] = queue[i + 1]
        /\ queue'[Len(queue')] = s
    BY <2>2, <2>3
  <2>5. queue' \in Seq(Nat)
    BY <2>2, <2>3
  <2>6. 1 \in {0, 1} /\ dropped_samples' = dropped_samples + 1
    BY <2>2
  <2>7. QED
    BY <2>4, <2>5, <2>6
<1>2. CASE ~QueueFull
  <2>1. queue' = Append(queue, s) /\ dropped_samples' = dropped_samples
    BY <1>2 DEF PutSample
  <2>2. /\ Len(queue') = Len(queue) + 1 - 0
        /\ Len(queue') <= MaxQueueSize
        /\ \A i \in 1..(Len(queue) - 0) : queue'[i] = queue[i + 0]
        /\ queue'[Len(queue')] = s
    BY <2>1, <1>2 DEF QueueFull
  <2>3. QED
    BY <2>1, <2>2
<1>3. QED
  BY <1>1, <1>2

LEMMA MQInvStep ==
    ASSUME MessageQueueAssumption, MQInv, [MQNext]_mqVars
    PROVE  MQInv'
<1> USE DEF MQInv
<1>1. CASE total_produced < MaxProduced /\ PutSample(total_produced + 1)
  <2>0. total_produced + 1 \in Nat /\ Len(queue) <= MaxQueueSize
    BY DEF MQTypeOK, Accounting
  <2>1. queue' \in Seq(Nat)
    BY <1>1, <2>0, PutSampleQueue
  <2>2. PICK d \in {0, 1} :
           /\ dropped_samples' = dropped_samples + d
           /\ Len(queue') = Len(queue) + 1 - d
           /\ Len(queue') <= MaxQueueSize
           /\ \A i \in 1..(Len(queue) - d) : queue'[i] = queue[i + d]
           /\ queue'[Len(queue')] = total_produced + 1
    BY <1>1, <2>0, PutSampleQueue
  <2>3. /\ total_produced' = total_produced + 1
        /\ getter' = Notified
        /\ UNCHANGED <<closed, total_consumed, cleared, mq_param_version>>
    BY <1>1 DEF PutSample
  <2>4. Len(queue) \in Nat /\ total_produced \in Nat
    BY DEF MQTypeOK
  <2>5. QueueIsNewestSuffix'
    <3> SUFFICES ASSUME NEW i \in 1..Len(queue')
                 PROVE  queue'[i] = total_produced' - Len(queue') + i
      BY DEF QueueIsNewestSuffix
    <3>1. CASE i = Len(queue')
      BY <3>1, <2>2, <2>3, <2>4
    <3>2. CASE i # Len(queue')
      <4>1. /\ i + d \in 1..Len(queue)
            /\ queue'[i] = queue[i + d]
        BY <3>2, <2>2, <2>4
      <4>2. queue[i + d] = total_produced - Len(queue) + (i + d)
        BY <4>1 DEF QueueIsNewestSuffix
      <4>3. total_produced - Len(queue) + (i + d) = total_produced' - Len(queue') + i
        BY <2>2, <2>3, <2>4
      <4>4. QED
        BY <4>1, <4>2, <4>3
    <3>3. QED
      BY <3>1, <3>2
  <2>6. Accounting'
    <3>1. total_produced' = total_consumed' + dropped_samples' + cleared' + Len(queue')
      BY <2>2, <2>3, <2>4 DEF Accounting, MQTypeOK
    <3>2. QED
      BY <3>1, <2>2 DEF Accounting
  <2>7. MQTypeOK'
    BY <2>1, <2>2, <2>3 DEF MQTypeOK, Notified
  <2>8. NoLostWakeup'
    BY <2>3 DEF Notified, NoLostWakeup
  <2>9. QED
    BY <2>5, <2>6, <2>7, <2>8
<1>2. ASSUME NEW c \in Consumers, WaitSample(c)
      PROVE  MQInv'
  BY <1>2 DEF WaitSample, MQTypeOK, QueueIsNewestSuffix, Accounting, NoLostWakeup
<1>3. ASSUME NEW c \in Consumers, TakeSample(c)
      PROVE  MQInv'
  <2>1. /\ queue # <<>>
        /\ queue' = Tail(queue)
        /\ total_consumed' = total_consumed + 1
        /\ getter' = [getter EXCEPT ![c] = "idle"]
        /\ UNCHANGED <<closed, total_produced, dropped_samples, cleared, mq_param_version>>
    BY <1>3 DEF TakeSample
  <2>2. /\ queue' \in Seq(Nat)
        /\ Len(queue') = Len(queue) - 1
        /\ \A i \in 1..(Len(queue) - 1) : queue'[i] = queue[i + 1]
    BY <2>1 DEF MQTypeOK
  <2>3. QED
    BY <2>1, <2>2 DEF MQTypeOK, QueueIsNewestSuffix, Accounting, NoLostWakeup
<1>4. ASSUME NEW c \in Consumers, TakeNothing(c)
      PROVE  MQInv'
  BY <1>4 DEF TakeNothing, MQTypeOK, QueueIsNewestSuffix, Accounting, NoLostWakeup
<1>5. CASE mq_param_version < MaxVersion /\ UpdateMQVersion(mq_param_version + 1)
  BY <1>5 DEF UpdateMQVersion, MQTypeOK, QueueIsNewestSuffix, Accounting, NoLostWakeup
<1>6. CASE ClearQueue
  BY <1>6 DEF ClearQueue, MQTypeOK, QueueIsNewestSuffix, Accounting, NoLostWakeup,
              MessageQueueAssumption
<1>7. CASE Shutdown
  BY <1>7 DEF Shutdown, Notified, MQTypeOK, QueueIsNewestSuffix, Accounting, NoLostWakeup
<1>8. CASE UNCHANGED mqVars
  BY <1>8 DEF mqVars, MQTypeOK, QueueIsNewestSuffix, Accounting, NoLostWakeup
<1>9. QED
  BY <1>1, <1>2, <1>3, <1>4, <1>5, <1>6, <1>7, <1>8 DEF MQNext

THEOREM MQInvariant == MQSpec => []MQInv
<1>1. MQInit => MQInv
  <2> SUFFICES ASSUME MQInit PROVE MQInv
    OBVIOUS
  <2>1. Len(queue) = 0
    BY DEF MQInit
  <2>2. MQTypeOK /\ NoLostWakeup
    <3>1. MQTypeOK
      <4>0. closed \in BOOLEAN
        BY Zenon DEF MQInit
      <4>1. queue \in Seq(Nat)
        BY DEF MQInit
      <4>2. getter \in [Consumers -> {"idle", "waiting", "woken"}]
        BY DEF MQInit
      <4>3. QED
        BY <4>0, <4>1, <4>2 DEF MQInit, MQTypeOK
    <3>2. \A c \in Consumers : getter[c] = "idle"
      BY DEF MQInit
    <3>3. QED
      BY <3>1, <3>2 DEF NoLostWakeup
  <2>3. QueueIsNewestSuffix
    BY <2>1 DEF QueueIsNewestSuffix
  <2>4. Accounting
    <3>1. total_produced = 0 /\ total_consumed = 0 /\ dropped_samples = 0 /\ cleared = 0
      BY DEF MQInit
    <3>2. QED
      BY <2>1, <3>1, MessageQueueAssumption DEF Accounting, MessageQueueAssumption
  <2>5. QED
    BY <2>2, <2>3, <2>4 DEF MQInv
<1>2. MQInv /\ [MQNext]_mqVars => MQInv'
  BY MQInvStep, MessageQueueAssumption
<1>3. QED
  BY <1>1, <1>2, PTL DEF MQSpec

(***************************************************************************)
(* The samples put, consumed, dropped, cleared and queued always add up,   *)
(* and the queue keeps to its bound (put_sample, get_sample, clear_queue). *)
(***************************************************************************)
THEOREM QueueAccounting == MQSpec => []Accounting
<1>1. MQInv => Accounting
  BY DEF MQInv
<1>2. QED
  BY <1>1, MQInvariant, PTL

(***************************************************************************)
(* Whatever was dropped or cleared, the queue holds the newest samples in  *)
(* the order they were put.                                                *)
(***************************************************************************)
THEOREM QueueOrder == MQSpec => []QueueIsNewestSuffix
<1>1. MQInv => QueueIsNewestSuffix
  BY DEF MQInv
<1>2. QED
  BY <1>1, MQInvariant, PTL

(***************************************************************************)
(* No caller of get_sample sleeps while the queue has something for it.    *)
(***************************************************************************)
THEOREM NoWakeupIsLost == MQSpec => []NoLostWakeup
<1>1. MQInv => NoLostWakeup
  BY DEF MQInv
<1>2. QED
  BY <1>1, MQInvariant, PTL
=============================================================================
