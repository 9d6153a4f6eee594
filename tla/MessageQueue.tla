---------------------------- MODULE MessageQueue ----------------------------
(***************************************************************************)
(* The bounded queue between the Rollouter and the Trainer: the Ray actor  *)
(* MessageQueue of fully_async_policy/message_queue.py.  The body of every *)
(* method runs under one asyncio lock and awaits nothing but the condition *)
(* of get_sample, so a method is one step, and get_sample is two: the call *)
(* and, when it found the queue empty, the turn it gets after a wake-up.   *)
(***************************************************************************)
EXTENDS Integers, Sequences

CONSTANTS Consumers,      \* callers of get_sample
          MaxQueueSize    \* maxlen of the deque

ASSUME MessageQueueAssumption == MaxQueueSize \in Nat \ {0}

VARIABLES queue,            \* self.queue, oldest sample first
          closed,           \* ~self.running
          getter,           \* where each caller stands in get_sample
          total_produced, total_consumed, dropped_samples,
          cleared,          \* samples clear_queue threw away (it only logs them)
          mq_param_version  \* self.current_param_version

mqVars == <<queue, closed, getter, total_produced, total_consumed,
            dropped_samples, cleared, mq_param_version>>

MQInit == /\ queue = <<>>
          /\ closed = FALSE
          /\ getter = [c \in Consumers |-> "idle"]
          /\ total_produced = 0
          /\ total_consumed = 0
          /\ dropped_samples = 0
          /\ cleared = 0
          /\ mq_param_version = 0

\* mutant: off by one, the queue may hold one sample more
QueueFullLate == Len(queue) > MaxQueueSize

QueueFull == Len(queue) >= MaxQueueSize

\* mutant: the notification is forgotten
NotifiedNobody == getter

\* notify_all: every waiting caller gets a turn and tests its loop condition again
Notified == [c \in Consumers |-> IF getter[c] = "waiting" THEN "woken" ELSE getter[c]]

\* mutant: a full queue loses the newest sample instead of the oldest
PutSampleDropNewest(s) ==
    /\ queue' = Append(IF QueueFull THEN SubSeq(queue, 1, Len(queue) - 1) ELSE queue, s)
    /\ dropped_samples' = dropped_samples + (IF QueueFull THEN 1 ELSE 0)
    /\ total_produced' = total_produced + 1
    /\ getter' = Notified
    /\ UNCHANGED <<closed, total_consumed, cleared, mq_param_version>>

\* A full queue loses its oldest sample to make room; the caller is told so.
PutSample(s) ==
    /\ queue' = Append(IF QueueFull THEN Tail(queue) ELSE queue, s)
    /\ dropped_samples' = dropped_samples + (IF QueueFull THEN 1 ELSE 0)
    /\ total_produced' = total_produced + 1
    /\ getter' = Notified
    /\ UNCHANGED <<closed, total_consumed, cleared, mq_param_version>>

\* get_sample on an empty open queue: the caller waits on the condition
WaitSample(c) ==
    /\ getter[c] \in {"idle", "woken"}
    /\ queue = <<>> /\ ~closed
    /\ getter' = [getter EXCEPT ![c] = "waiting"]
    /\ UNCHANGED <<queue, closed, total_produced, total_consumed, dropped_samples,
                   cleared, mq_param_version>>

\* get_sample on a queue that holds something returns its oldest sample
TakeSample(c) ==
    /\ getter[c] \in {"idle", "woken"}
    /\ queue # <<>>
    /\ queue' = Tail(queue)
    /\ total_consumed' = total_consumed + 1
    /\ getter' = [getter EXCEPT ![c] = "idle"]
    /\ UNCHANGED <<closed, total_produced, dropped_samples, cleared, mq_param_version>>

\* get_sample on an empty closed queue returns None
TakeNothing(c) ==
    /\ getter[c] \in {"idle", "woken"}
    /\ queue = <<>> /\ closed
    /\ getter' = [getter EXCEPT ![c] = "idle"]
    /\ UNCHANGED <<queue, closed, total_produced, total_consumed, dropped_samples,
                   cleared, mq_param_version>>

UpdateMQVersion(v) ==
    /\ mq_param_version' = v
    /\ UNCHANGED <<queue, closed, getter, total_produced, total_consumed,
                   dropped_samples, cleared>>

ClearQueue ==
    /\ cleared' = cleared + Len(queue)
    /\ queue' = <<>>
    /\ UNCHANGED <<closed, getter, total_produced, total_consumed, dropped_samples,
                   mq_param_version>>

Shutdown ==
    /\ closed' = TRUE
    /\ getter' = Notified
    /\ UNCHANGED <<queue, total_produced, total_consumed, dropped_samples, cleared,
                   mq_param_version>>

-----------------------------------------------------------------------------
\* The variables have the values the class gives them.
MQTypeOK ==
    /\ queue \in Seq(Nat)
    /\ closed \in BOOLEAN
    /\ getter \in [Consumers -> {"idle", "waiting", "woken"}]
    /\ total_produced \in Nat
    /\ total_consumed \in Nat
    /\ dropped_samples \in Nat
    /\ cleared \in Nat
    /\ mq_param_version \in Nat

\* Every sample put is consumed, dropped, cleared or still queued, and the
\* queue never outgrows its bound.
Accounting ==
    /\ total_produced = total_consumed + dropped_samples + cleared + Len(queue)
    /\ Len(queue) <= MaxQueueSize

\* A caller sleeps in get_sample only while there is nothing to return: no
\* put_sample and no shutdown is missed between the test and the wait.
NoLostWakeup ==
    \A c \in Consumers : getter[c] = "waiting" => queue = <<>> /\ ~closed
=============================================================================
