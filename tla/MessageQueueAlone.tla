-------------------------- MODULE MessageQueueAlone --------------------------
(***************************************************************************)
(* The queue on its own, driven by any callers in any order.  The samples  *)
(* are numbered in the order they are put.                                 *)
(***************************************************************************)
EXTENDS MessageQueue

CONSTANTS MaxProduced,   \* bound: calls of put_sample
          MaxVersion     \* bound: parameter versions announced

MQNext ==
    \/ total_produced < MaxProduced /\ PutSample(total_produced + 1)
    \/ \E c \in Consumers : WaitSample(c) \/ TakeSample(c) \/ TakeNothing(c)
    \/ mq_param_version < MaxVersion /\ UpdateMQVersion(mq_param_version + 1)
    \/ ClearQueue
    \/ Shutdown

MQSpec == MQInit /\ [][MQNext]_mqVars

-----------------------------------------------------------------------------
\* The queue holds exactly the newest samples put, in the order they were put:
\* dropping on overflow and clearing never leave a gap or an older sample behind.
QueueIsNewestSuffix ==
    \A i \in 1..Len(queue) : queue[i] = total_produced - Len(queue) + i
=============================================================================
