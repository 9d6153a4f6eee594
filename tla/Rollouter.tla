------------------------------ MODULE Rollouter ------------------------------
(***************************************************************************)
(* The FullyAsyncRollouter actor of fully_async_policy: the coroutines of  *)
(* its event loop, their one asyncio lock and condition, the generation    *)
(* tasks, and the remote calls pause, update_param_version and resume.     *)
(*                                                                         *)
(* ready is the event loop's queue: its head runs, and keeps running until *)
(* it awaits something that is not there yet.  The lock serves its waiters *)
(* in order, so it is the sequence of the coroutines that asked for it,    *)
(* holder first.  The message queue, the generation servers and the timer  *)
(* are other processes: they answer at any time, and what an answer makes  *)
(* ready goes to the end of ready.                                         *)
(***************************************************************************)
EXTENDS MessageQueue, FiniteSets

CONSTANTS TotalSamples,     \* total_rollout_steps
          RequiredSamples,  \* ppo_mini_batch_size * require_batches
          TriggerStep,      \* trigger_parameter_sync_step
          StaleNum, StaleDen, \* staleness_threshold = StaleNum / StaleDen
          MaxConcurrent,    \* max_concurrent_samples
          PendingSize,      \* maxsize of pending_queue
          PartialRollout,   \* async_training.partial_rollout
          MaxFailures       \* bound: generations that raise an exception

WindowSamples == RequiredSamples * TriggerStep

\* int(required_samples * (staleness_threshold + 1) * trigger_parameter_sync_step)
MaxRequired == (WindowSamples * (StaleNum + StaleDen)) \div StaleDen

ASSUME RolloutAssumption ==
    /\ TotalSamples \in Nat \ {0}
    /\ RequiredSamples \in Nat \ {0}
    /\ TriggerStep \in Nat \ {0}
    /\ StaleNum \in Nat
    /\ StaleDen \in Nat \ {0}
    /\ MaxQueueSize = MaxRequired
    /\ MaxConcurrent \in 1..MaxRequired
    /\ PendingSize \in Nat \ {0}
    /\ PartialRollout \in BOOLEAN
    /\ MaxFailures \in Nat

Samples == 1..TotalSamples
NoSample == 0        \* "DONE" in pending_queue, None in the message queue, an empty hand

VARIABLES ready, lock,
          paused, running, monitor_loop_trigger,
          current_param_version, staleness_samples,
          fed,              \* items _feed_samples has put
          pending_queue, cancel_queue,
          created,          \* tasks whose first turn is to come, in order of creation
          stage,            \* what the live task of a sample is doing, "none" without one
          finished,         \* tasks in active_tasks that have returned
          raised,           \* tasks in active_tasks that have raised
          started_version,  \* the param_version a sample's last task was stamped with
          serversPaused,    \* the paused flag of the generation servers
          procPc, hand, reaping, doneTasksBound,
          monPc, mainPc, pausePc, updatePc, resumePc,
          newVersion, count,  \* argument and partial sum of update_param_version
          dropped, failed     \* samples the queue dropped, samples whose task raised

sampleVars == <<fed, pending_queue, cancel_queue>>
taskVars == <<created, stage, finished, raised, started_version, serversPaused, failed>>
procVars == <<procPc, hand, reaping, doneTasksBound>>
updateVars == <<updatePc, newVersion, count>>
callVars == <<pausePc, updatePc, resumePc, newVersion, count>>
flagVars == <<paused, running, monitor_loop_trigger>>
versionVars == <<current_param_version, staleness_samples>>
queueVars == <<mqVars, dropped>>
loopVars == <<monPc, mainPc>>

rollouterVars == <<ready, lock, sampleVars, taskVars, procVars, callVars, flagVars,
                   versionVars, queueVars, loopVars>>

Holds(c) == lock # <<>> /\ Head(lock) = c
Request(c) == lock' = Append(lock, c)    \* async with self.lock
Unlock == lock' = Tail(lock)

LiveTasks == {s \in Samples : stage[s] # "none"}
ActiveCount == Cardinality(LiveTasks) + finished + raised    \* len(self.active_tasks)

\* the loops have been started: fit has created the monitor's task and the main
\* task, which has created those of _feed_samples and _processor_worker
RolloutInit ==
    /\ MQInit
    /\ ready = <<"mon", "feed", "proc">> /\ lock = <<>>
    /\ paused = FALSE /\ running = TRUE /\ monitor_loop_trigger = TRUE
    /\ current_param_version = 0 /\ staleness_samples = 0
    /\ fed = 0 /\ pending_queue = <<>> /\ cancel_queue = <<>>
    /\ created = <<>>
    /\ stage = [s \in Samples |-> "none"]
    /\ finished = 0 /\ raised = 0
    /\ started_version = [s \in Samples |-> 0]
    /\ serversPaused = FALSE
    /\ procPc = "top" /\ hand = NoSample /\ reaping = "drain" /\ doneTasksBound = FALSE
    /\ monPc = "lock" /\ mainPc = "wait"
    /\ pausePc = "idle" /\ updatePc = "done" /\ resumePc = "done"
    /\ newVersion = 0 /\ count = 0
    /\ dropped = {} /\ failed = {}

\* mutant: both limits are tested one too late
ShouldPauseLate == Len(queue) > MaxQueueSize \/ staleness_samples > MaxRequired

\* _should_pause_generation
ShouldPause == Len(queue) >= MaxQueueSize \/ staleness_samples >= MaxRequired

\* The put_sample remote call.  A full queue drops its oldest sample.
RemotePut(s) ==
    /\ PutSample(s)
    /\ dropped' = IF QueueFull THEN dropped \union ({Head(queue)} \ {NoSample}) ELSE dropped

-----------------------------------------------------------------------------
(* _feed_samples: it awaits only when pending_queue is full. *)

FeedRunnable == fed <= TotalSamples /\ Len(pending_queue) < PendingSize

FeedItem(item) ==
    /\ Len(pending_queue) < PendingSize
    /\ pending_queue' = Append(pending_queue, item)
    /\ fed' = fed + 1
    /\ UNCHANGED <<lock, cancel_queue, taskVars, procVars, callVars, flagVars, versionVars,
                   queueVars, loopVars>>

FeedSample == fed < TotalSamples /\ FeedItem(fed + 1)
FeedDone == fed = TotalSamples /\ FeedItem(NoSample)

Feed == FeedSample \/ FeedDone

-----------------------------------------------------------------------------
(* _processor_worker *)

ProcRunnable ==
    \/ procPc \in {"top", "reap", "sleepWoken", "submitWoken"}
    \/ procPc \in {"mark", "reapLocked", "sleep", "submit"} /\ Holds("proc")
    \/ procPc = "reapWait" /\ finished + raised > 0
    \/ procPc = "get" /\ pending_queue # <<>>

ProcGoto(pc) == procPc' = pc

\* what a step of the processor leaves alone when it only moves on
procFrame == <<sampleVars, taskVars, hand, callVars, flagVars, versionVars, queueVars,
               loopVars>>

\* paused, or about to exceed a limit: take the lock to say so
ProcPause ==
    /\ procPc = "top"
    /\ paused \/ ShouldPause
    /\ ProcGoto("mark") /\ Request("proc")
    /\ UNCHANGED <<procFrame, reaping, doneTasksBound>>

ProcMark ==
    /\ procPc = "mark" /\ Holds("proc")
    /\ paused' = TRUE
    /\ reaping' = "drain" /\ ProcGoto("reap")
    /\ Unlock
    /\ UNCHANGED <<sampleVars, taskVars, hand, doneTasksBound, callVars, running,
                   monitor_loop_trigger, versionVars, queueVars, loopVars>>

(***************************************************************************)
(* The same loop stands three times in the code, for reaping = "drain"     *)
(* (the pause), "finish" (after DONE) and "limit" (too many tasks): while  *)
(* its condition holds, take the lock, wait for a task to finish, release. *)
(***************************************************************************)
\* mutant: DONE ends the loop without waiting for the tasks
ReapAgainNotAtEnd == /\ reaping # "finish"
                     /\ IF reaping = "limit" THEN ActiveCount >= MaxConcurrent ELSE ActiveCount > 0

ReapAgain == IF reaping = "limit" THEN ActiveCount >= MaxConcurrent ELSE ActiveCount > 0

ProcReapLock ==
    /\ procPc = "reap"
    /\ ReapAgain
    /\ ProcGoto("reapLocked") /\ Request("proc")
    /\ UNCHANGED <<procFrame, reaping, doneTasksBound>>

\* asyncio.wait with the lock held
ProcReapWait ==
    /\ procPc = "reapLocked" /\ Holds("proc")
    /\ ActiveCount > 0
    /\ ProcGoto("reapWait")
    /\ UNCHANGED <<lock, procFrame, reaping, doneTasksBound>>

\* pause() emptied active_tasks while the loop waited for the lock: the tasks of
\* the last wait are awaited once more, and a first pass has no such tasks
ProcReapNothing ==
    /\ procPc = "reapLocked" /\ Holds("proc")
    /\ ActiveCount = 0
    /\ ProcGoto(IF doneTasksBound THEN "reap" ELSE "crashed")
    /\ Unlock
    /\ UNCHANGED <<procFrame, reaping, doneTasksBound>>

\* mutant: done_tasks does not outlive the pass that assigned it
ProcReapForgets ==
    /\ procPc = "reapWait" /\ Holds("proc")
    /\ finished + raised > 0
    /\ finished' = 0 /\ raised' = 0
    /\ doneTasksBound' = FALSE
    /\ ProcGoto(IF raised > 0 THEN "crashed" ELSE "reap")
    /\ Unlock
    /\ UNCHANGED <<sampleVars, created, stage, started_version, serversPaused, failed, hand, reaping,
                   callVars, flagVars, versionVars, queueVars, loopVars>>

\* asyncio.wait returns: every finished task leaves active_tasks, and awaiting one
\* that raised raises here
ProcReap ==
    /\ procPc = "reapWait" /\ Holds("proc")
    /\ finished + raised > 0
    /\ finished' = 0 /\ raised' = 0
    /\ doneTasksBound' = TRUE
    /\ ProcGoto(IF raised > 0 THEN "crashed" ELSE "reap")
    /\ Unlock
    /\ UNCHANGED <<sampleVars, created, stage, started_version, serversPaused, failed, hand, reaping,
                   callVars, flagVars, versionVars, queueVars, loopVars>>

\* the loop ends: return, or sleep until resumed, or submit the sample in hand
ProcFinished ==
    /\ procPc = "reap" /\ reaping = "finish"
    /\ ~ReapAgain
    /\ ProcGoto("ended")
    /\ UNCHANGED <<lock, procFrame, reaping, doneTasksBound>>

ProcReaped ==
    /\ procPc = "reap" /\ reaping \in {"drain", "limit"}
    /\ ~ReapAgain
    /\ ProcGoto(IF reaping = "drain" THEN "sleep" ELSE "submit") /\ Request("proc")
    /\ UNCHANGED <<procFrame, reaping, doneTasksBound>>

\* condition.wait(): at the end of a pause, or before submitting into one
ProcSleep ==
    /\ procPc \in {"sleep", "submit"} /\ Holds("proc")
    /\ paused
    /\ ProcGoto(IF procPc = "sleep" THEN "sleeping" ELSE "submitting")
    /\ Unlock
    /\ UNCHANGED <<procFrame, reaping, doneTasksBound>>

\* notified: a condition wait ends by taking the lock again
ProcWoken ==
    /\ procPc \in {"sleepWoken", "submitWoken"}
    /\ ProcGoto(IF procPc = "sleepWoken" THEN "sleep" ELSE "submit") /\ Request("proc")
    /\ UNCHANGED <<procFrame, reaping, doneTasksBound>>

ProcRestart ==
    /\ procPc = "sleep" /\ Holds("proc")
    /\ ~paused
    /\ ProcGoto("top") /\ Unlock
    /\ UNCHANGED <<procFrame, reaping, doneTasksBound>>

\* mutant: the sample stays in cancel_queue
ProcTakeCancelledKeeps ==
    /\ procPc = "top"
    /\ ~paused /\ ~ShouldPause
    /\ cancel_queue # <<>>
    /\ hand' = Head(cancel_queue)
    /\ reaping' = "limit" /\ ProcGoto("reap")
    /\ UNCHANGED <<lock, sampleVars, taskVars, doneTasksBound, callVars, flagVars,
                   versionVars, queueVars, loopVars>>

\* an interrupted sample goes before a new one
ProcTakeCancelled ==
    /\ procPc = "top"
    /\ ~paused /\ ~ShouldPause
    /\ cancel_queue # <<>>
    /\ hand' = Head(cancel_queue) /\ cancel_queue' = Tail(cancel_queue)
    /\ reaping' = "limit" /\ ProcGoto("reap")
    /\ UNCHANGED <<lock, fed, pending_queue, taskVars, doneTasksBound, callVars, flagVars,
                   versionVars, queueVars, loopVars>>

\* mutant: the limits are left to the monitor
ProcAwaitPendingUnlimited ==
    /\ procPc = "top"
    /\ ~paused
    /\ cancel_queue = <<>>
    /\ ProcGoto("get")
    /\ UNCHANGED <<lock, procFrame, reaping, doneTasksBound>>

ProcAwaitPending ==
    /\ procPc = "top"
    /\ ~paused /\ ~ShouldPause
    /\ cancel_queue = <<>>
    /\ ProcGoto("get")
    /\ UNCHANGED <<lock, procFrame, reaping, doneTasksBound>>

ProcTakePending ==
    /\ procPc = "get"
    /\ pending_queue # <<>>
    /\ hand' = Head(pending_queue) /\ pending_queue' = Tail(pending_queue)
    /\ staleness_samples' = staleness_samples + 1
    /\ reaping' = IF Head(pending_queue) = NoSample THEN "finish" ELSE "limit"
    /\ ProcGoto("reap")
    /\ UNCHANGED <<lock, fed, cancel_queue, taskVars, doneTasksBound, callVars, flagVars,
                   current_param_version, queueVars, loopVars>>

\* create_task: the task waits for its first turn
ProcSubmit ==
    /\ procPc = "submit" /\ Holds("proc")
    /\ ~paused
    /\ stage' = [stage EXCEPT ![hand] = "new"]
    /\ created' = Append(created, hand)
    /\ hand' = NoSample
    /\ ProcGoto("top") /\ Unlock
    /\ UNCHANGED <<sampleVars, finished, raised, started_version, serversPaused, failed, reaping,
                   doneTasksBound, callVars, flagVars, versionVars, queueVars, loopVars>>

Processor == \/ ProcPause \/ ProcMark \/ ProcReapLock \/ ProcReapWait \/ ProcReapNothing
             \/ ProcReap \/ ProcFinished \/ ProcReaped \/ ProcSleep \/ ProcWoken
             \/ ProcRestart \/ ProcTakeCancelled \/ ProcAwaitPending \/ ProcTakePending
             \/ ProcSubmit

-----------------------------------------------------------------------------
(***************************************************************************)
(* _process_single_sample_streaming, one task per submitted sample: "new"  *)
(* before its first turn, "call" while its request is on the way to a      *)
(* server, "gen" while the servers generate, "put" while put_sample is     *)
(* under way, "ret" once the queue has the sample, "cut" when the servers  *)
(* gave the sample back unfinished.                                        *)
(***************************************************************************)

taskFrame == <<lock, fed, pending_queue, created, started_version, serversPaused, procVars,
               callVars, flagVars, versionVars, loopVars>>

\* the first turn: the sample is stamped with the version of the moment, and its request goes
\* to a worker, which sends it on to a server
TaskBegins ==
    /\ created # <<>> /\ stage[Head(created)] = "new"
    /\ stage' = [stage EXCEPT ![Head(created)] = "call"]
    /\ started_version' = [started_version EXCEPT ![Head(created)] = current_param_version]
    /\ created' = Tail(created)
    /\ UNCHANGED <<lock, sampleVars, finished, raised, serversPaused, failed, procVars, callVars,
                   flagVars, versionVars, queueVars, loopVars>>

\* the request has reached a server: a paused one refuses it
TaskArrives(s) ==
    /\ stage[s] = "call"
    /\ stage' = [stage EXCEPT ![s] = IF serversPaused THEN "cut" ELSE "gen"]
    /\ UNCHANGED <<taskFrame, cancel_queue, finished, raised, failed, queueVars>>

TaskGenerated(s) ==
    /\ stage[s] = "gen"
    /\ stage' = [stage EXCEPT ![s] = "put"]
    /\ UNCHANGED <<taskFrame, cancel_queue, finished, raised, failed, queueVars>>

TaskPut(s) ==
    /\ stage[s] = "put"
    /\ RemotePut(s)
    /\ stage' = [stage EXCEPT ![s] = "ret"]
    /\ UNCHANGED <<taskFrame, cancel_queue, finished, raised, failed>>

TaskReturned(s) ==
    /\ stage[s] = "ret"
    /\ stage' = [stage EXCEPT ![s] = "none"]
    /\ finished' = finished + 1
    /\ UNCHANGED <<taskFrame, cancel_queue, raised, failed, queueVars>>

TaskCancelled(s) ==
    /\ stage[s] = "cut"
    /\ cancel_queue' = Append(cancel_queue, s)
    /\ stage' = [stage EXCEPT ![s] = "none"]
    /\ finished' = finished + 1
    /\ UNCHANGED <<taskFrame, raised, failed, queueVars>>

TaskRaises(s) ==
    /\ stage[s] = "gen"
    /\ Cardinality(failed) < MaxFailures
    /\ stage' = [stage EXCEPT ![s] = "none"]
    /\ raised' = raised + 1
    /\ failed' = failed \union {s}
    /\ UNCHANGED <<taskFrame, cancel_queue, finished, queueVars>>

Task(s) == \/ TaskArrives(s) \/ TaskGenerated(s) \/ TaskPut(s) \/ TaskReturned(s)
           \/ TaskCancelled(s)

-----------------------------------------------------------------------------
(* _async_monitor_loop *)

MonRunnable == \/ monPc \in {"lock", "awake"}
               \/ monPc \in {"test", "kick"} /\ Holds("mon")

\* condition.notify_all(): only the processor waits on the condition
NotifyAll == procPc' = CASE procPc = "sleeping" -> "sleepWoken"
                         [] procPc = "submitting" -> "submitWoken"
                         [] OTHER -> procPc

monFrame == <<sampleVars, taskVars, hand, reaping, doneTasksBound, callVars, running,
              monitor_loop_trigger, versionVars, queueVars, mainPc>>

MonLock ==
    /\ monPc = "lock"
    /\ monPc' = "test" /\ Request("mon")
    /\ UNCHANGED <<monFrame, procPc, paused>>

MonTest ==
    /\ monPc = "test" /\ Holds("mon")
    /\ monPc' = IF running THEN "asleep" ELSE "ended"
    /\ Unlock
    /\ UNCHANGED <<monFrame, procPc, paused>>

\* asyncio.sleep(check_interval) ends
MonTimer ==
    /\ monPc = "asleep"
    /\ monPc' = "awake"
    /\ UNCHANGED <<lock, monFrame, procPc, paused>>

\* decide without the lock, then wait for it
MonDecide ==
    /\ monPc = "awake"
    /\ monitor_loop_trigger /\ ~ShouldPause
    /\ monPc' = "kick" /\ Request("mon")
    /\ UNCHANGED <<monFrame, procPc, paused>>

MonSkip ==
    /\ monPc = "awake"
    /\ ~monitor_loop_trigger \/ ShouldPause
    /\ monPc' = "lock"
    /\ UNCHANGED <<lock, monFrame, procPc, paused>>

MonKick ==
    /\ monPc = "kick" /\ Holds("mon")
    /\ paused' = FALSE
    /\ NotifyAll
    /\ monPc' = "lock" /\ Unlock
    /\ UNCHANGED monFrame

Monitor == MonLock \/ MonTest \/ MonDecide \/ MonSkip \/ MonKick

-----------------------------------------------------------------------------
(* _streaming_generation_main, once the processor has returned or raised *)

MainRunnable == \/ mainPc = "wait" /\ procPc \in {"ended", "crashed"}
                \/ mainPc = "stop"
                \/ mainPc = "stopping" /\ Holds("main")

mainFrame == <<sampleVars, taskVars, procVars, callVars, paused, monitor_loop_trigger,
               versionVars, monPc>>

MainFinish ==
    /\ mainPc = "wait"
    /\ procPc \in {"ended", "crashed"}
    /\ mainPc' = "putting"
    /\ UNCHANGED <<lock, mainFrame, running, queueVars>>

MainSentinel ==
    /\ mainPc = "putting"
    /\ RemotePut(NoSample)
    /\ mainPc' = "stop"
    /\ UNCHANGED <<lock, mainFrame, running>>

MainLock ==
    /\ mainPc = "stop"
    /\ mainPc' = "stopping" /\ Request("main")
    /\ UNCHANGED <<mainFrame, running, queueVars>>

MainStop ==
    /\ mainPc = "stopping" /\ Holds("main")
    /\ running' = FALSE
    /\ mainPc' = "ended" /\ Unlock
    /\ UNCHANGED <<mainFrame, queueVars>>

Main == MainFinish \/ MainLock \/ MainStop

-----------------------------------------------------------------------------
(* pause() *)

PauseRunnable ==
    \/ pausePc \in {"called", "cancelled"}
    \/ pausePc \in {"locked", "clear"} /\ Holds("pause")
    \/ pausePc = "gather" /\ LiveTasks = {}

pauseFrame == <<sampleVars, created, started_version, failed, procVars, updateVars, resumePc,
                running, versionVars, queueVars, loopVars>>

PauseLock ==
    /\ pausePc = "called"
    /\ pausePc' = "locked" /\ Request("pause")
    /\ UNCHANGED <<pauseFrame, stage, finished, raised, serversPaused, paused,
                   monitor_loop_trigger>>

PauseBegin ==
    /\ pausePc = "locked" /\ Holds("pause")
    /\ paused' = TRUE
    /\ pausePc' = IF PartialRollout THEN "cancelling" ELSE "cancelled"
    /\ UNCHANGED <<lock, pauseFrame, stage, finished, raised, serversPaused,
                   monitor_loop_trigger>>

\* mutant: the servers cut what they generate and go on accepting
CancelReplyAccepting ==
    /\ pausePc = "cancelling"
    /\ \E cut \in SUBSET {s \in Samples : stage[s] = "gen"} :
          stage' = [s \in Samples |-> CASE s \in cut -> "cut"
                                        [] s \notin cut /\ stage[s] = "gen" -> "put"
                                        [] OTHER -> stage[s]]
    /\ pausePc' = "cancelled"
    /\ UNCHANGED <<lock, pauseFrame, finished, raised, serversPaused, paused,
                   monitor_loop_trigger>>

\* manager.cancel(): no server generates from here on, and of the samples being
\* generated some are cut while the others had just been completed
CancelReply ==
    /\ pausePc = "cancelling"
    /\ serversPaused' = TRUE
    /\ \E cut \in SUBSET {s \in Samples : stage[s] = "gen"} :
          stage' = [s \in Samples |-> CASE s \in cut -> "cut"
                                        [] s \notin cut /\ stage[s] = "gen" -> "put"
                                        [] OTHER -> stage[s]]
    /\ pausePc' = "cancelled"
    /\ UNCHANGED <<lock, pauseFrame, finished, raised, paused, monitor_loop_trigger>>

PauseGather ==
    /\ pausePc = "cancelled" /\ Holds("pause")
    /\ pausePc' = "gather"
    /\ UNCHANGED <<lock, pauseFrame, stage, finished, raised, serversPaused, paused,
                   monitor_loop_trigger>>

\* gather(return_exceptions=True) and active_tasks.clear(): a task that raised
\* is forgotten with the others; then clear_kv_cache() is awaited
PauseGathered ==
    /\ pausePc = "gather" /\ Holds("pause")
    /\ LiveTasks = {}
    /\ finished' = 0 /\ raised' = 0
    /\ pausePc' = "clearing"
    /\ UNCHANGED <<lock, pauseFrame, stage, serversPaused, paused, monitor_loop_trigger>>

ClearReply ==
    /\ pausePc = "clearing"
    /\ pausePc' = "clear"
    /\ UNCHANGED <<lock, pauseFrame, stage, finished, raised, serversPaused, paused,
                   monitor_loop_trigger>>

PauseDone ==
    /\ pausePc = "clear" /\ Holds("pause")
    /\ monitor_loop_trigger' = FALSE
    /\ pausePc' = "done" /\ Unlock
    /\ UNCHANGED <<pauseFrame, stage, finished, raised, serversPaused, paused>>

Pause == PauseLock \/ PauseBegin \/ PauseGather \/ PauseGathered \/ PauseDone

-----------------------------------------------------------------------------
(* update_param_version() *)

UpdateRunnable ==
    \/ updatePc = "called"
    \/ updatePc \in {"locked", "sized", "validated"} /\ Holds("update")

updateFrame == <<sampleVars, taskVars, procVars, pausePc, resumePc, newVersion, flagVars,
                 queueVars, loopVars>>

UpdateLock ==
    /\ updatePc = "called"
    /\ updatePc' = "locked" /\ Request("update")
    /\ UNCHANGED <<updateFrame, count, versionVars>>

\* mutant: the new version is not stored
UpdateCountOldVersion ==
    /\ updatePc = "locked" /\ Holds("update")
    /\ count' = ActiveCount + Len(cancel_queue)
    /\ updatePc' = "sizing"
    /\ UNCHANGED <<lock, updateFrame, versionVars>>

\* the two local terms are read before get_queue_size() is awaited
UpdateCount ==
    /\ updatePc = "locked" /\ Holds("update")
    /\ current_param_version' = newVersion
    /\ count' = ActiveCount + Len(cancel_queue)
    /\ updatePc' = "sizing"
    /\ UNCHANGED <<lock, updateFrame, staleness_samples>>

SizeReply ==
    /\ updatePc = "sizing"
    /\ count' = count + Len(queue)
    /\ updatePc' = "sized"
    /\ UNCHANGED <<lock, updateFrame, versionVars>>

\* mutant: the counter is never reset
UpdateAssignNothing ==
    /\ updatePc = "sized" /\ Holds("update")
    /\ updatePc' = "validating"
    /\ UNCHANGED <<lock, updateFrame, count, versionVars>>

\* the sum replaces the counter; then the metrics go to put_validate()
UpdateAssign ==
    /\ updatePc = "sized" /\ Holds("update")
    /\ staleness_samples' = count
    /\ updatePc' = "validating"
    /\ UNCHANGED <<lock, updateFrame, count, current_param_version>>

ValidateReply ==
    /\ updatePc = "validating"
    /\ updatePc' = "validated"
    /\ UNCHANGED <<lock, updateFrame, count, versionVars>>

UpdateDone ==
    /\ updatePc = "validated" /\ Holds("update")
    /\ updatePc' = "done" /\ Unlock
    /\ UNCHANGED <<updateFrame, count, versionVars>>

Update == UpdateLock \/ UpdateCount \/ UpdateAssign \/ UpdateDone

-----------------------------------------------------------------------------
(* resume(), which Ray starts when the update it depends on has returned *)

ResumeRunnable ==
    \/ resumePc = "called" /\ updatePc = "done"
    \/ resumePc \in {"locked", "started"} /\ Holds("resume")

resumeFrame == <<sampleVars, created, stage, finished, raised, started_version, failed, hand,
                 reaping, doneTasksBound, pausePc, updateVars, running, versionVars, queueVars, loopVars>>

ResumeLock ==
    /\ resumePc = "called" /\ updatePc = "done"
    /\ resumePc' = "locked" /\ Request("resume")
    /\ UNCHANGED <<resumeFrame, serversPaused, procPc, paused, monitor_loop_trigger>>

ResumeBegin ==
    /\ resumePc = "locked" /\ Holds("resume")
    /\ resumePc' = IF PartialRollout THEN "starting" ELSE "started"
    /\ UNCHANGED <<lock, resumeFrame, serversPaused, procPc, paused, monitor_loop_trigger>>

\* manager.resume()
ServersReply ==
    /\ resumePc = "starting"
    /\ serversPaused' = FALSE
    /\ resumePc' = "started"
    /\ UNCHANGED <<lock, resumeFrame, procPc, paused, monitor_loop_trigger>>

ResumeDone ==
    /\ resumePc = "started" /\ Holds("resume")
    /\ paused' = FALSE
    /\ monitor_loop_trigger' = TRUE
    /\ NotifyAll
    /\ resumePc' = "done" /\ Unlock
    /\ UNCHANGED <<resumeFrame, serversPaused>>

Resume == ResumeLock \/ ResumeBegin \/ ResumeDone

-----------------------------------------------------------------------------
(* The event loop *)

Coroutines == {"feed", "proc", "mon", "main", "pause", "update", "resume"}

Runnable(c) == CASE c = "feed"   -> FeedRunnable
                 [] c = "proc"   -> ProcRunnable
                 [] c = "mon"    -> MonRunnable
                 [] c = "main"   -> MainRunnable
                 [] c = "pause"  -> PauseRunnable
                 [] c = "update" -> UpdateRunnable
                 [] c = "resume" -> ResumeRunnable

\* asyncio.wait and gather yield once even if what they wait for is there
Yields == \/ procPc' = "reapWait" /\ procPc # "reapWait"
          \/ pausePc' = "gather" /\ pausePc # "gather" /\ ActiveCount' > 0

Enters(c, rest) ==
    IF Runnable(c)' /\ \A i \in DOMAIN rest : rest[i] # c THEN <<c>> ELSE <<>>

\* those a step has made runnable queue up behind the others
Wake(rest) ==
    ready' = rest \o Enters("feed", rest) \o Enters("proc", rest) \o Enters("mon", rest)
                  \o Enters("main", rest) \o Enters("pause", rest) \o Enters("update", rest)
                  \o Enters("resume", rest)

\* a new task queues up for its first turn
NewTask == IF created' # created THEN <<"task">> ELSE <<>>

\* the turn of coroutine c
Runs(c) == ready # <<>> /\ Head(ready) = c
KeepsRunning(c) == Wake((IF Runnable(c)' /\ ~Yields THEN ready ELSE Tail(ready)) \o NewTask)

\* a step outside the event loop
External == Wake(ready)

EventLoop == \/ Runs("task") /\ TaskBegins /\ Wake(Tail(ready))
             \/ Runs("feed") /\ Feed /\ KeepsRunning("feed")
             \/ Runs("proc") /\ Processor /\ KeepsRunning("proc")
             \/ Runs("mon") /\ Monitor /\ KeepsRunning("mon")
             \/ Runs("main") /\ Main /\ KeepsRunning("main")
             \/ Runs("pause") /\ Pause /\ KeepsRunning("pause")
             \/ Runs("update") /\ Update /\ KeepsRunning("update")
             \/ Runs("resume") /\ Resume /\ KeepsRunning("resume")

Reply == MonTimer \/ MainSentinel \/ CancelReply \/ ClearReply \/ SizeReply
         \/ ValidateReply \/ ServersReply

RollouterNext == \/ EventLoop
                 \/ Reply /\ External
                 \/ \E s \in Samples : (Task(s) \/ TaskRaises(s)) /\ External

SchedTypeOK == ready \in Seq(Coroutines \union {"task"}) /\ lock \in Seq(Coroutines)

FlagTypeOK == paused \in BOOLEAN /\ running \in BOOLEAN /\ monitor_loop_trigger \in BOOLEAN

VersionTypeOK == current_param_version \in Nat /\ staleness_samples \in Nat

SampleTypeOK ==
    /\ fed \in Nat
    /\ pending_queue \in Seq(Samples \union {NoSample})
    /\ cancel_queue \in Seq(Samples)

TaskTypeOK ==
    /\ created \in Seq(Samples \union {NoSample})
    /\ stage \in [Samples -> {"none", "new", "call", "gen", "cut", "put", "ret"}]
    /\ finished \in Nat /\ raised \in Nat
    /\ started_version \in [Samples -> Nat]
    /\ serversPaused \in BOOLEAN
    /\ failed \subseteq Samples

ProcTypeOK ==
    /\ procPc \in {"top", "mark", "reap", "reapLocked", "reapWait", "sleep", "sleeping",
                   "sleepWoken", "submit", "submitting", "submitWoken", "get", "ended", "crashed"}
    /\ hand \in Samples \union {NoSample}
    /\ reaping \in {"drain", "finish", "limit"}
    /\ doneTasksBound \in BOOLEAN

LoopTypeOK ==
    /\ monPc \in {"lock", "test", "asleep", "awake", "kick", "ended"}
    /\ mainPc \in {"wait", "putting", "stop", "stopping", "ended"}

CallTypeOK ==
    /\ pausePc \in {"idle", "called", "locked", "cancelling", "cancelled", "gather", "clearing",
                    "clear", "done"}
    /\ updatePc \in {"called", "locked", "sizing", "sized", "validating", "validated", "done"}
    /\ resumePc \in {"called", "locked", "starting", "started", "done"}
    /\ newVersion \in Nat /\ count \in Nat

QueueTypeOK ==
    /\ MQTypeOK
    /\ queue \in Seq(Samples \union {NoSample})
    /\ dropped \subseteq Samples

RollouterTypeOK ==
    /\ SchedTypeOK /\ FlagTypeOK /\ VersionTypeOK /\ SampleTypeOK /\ TaskTypeOK
    /\ ProcTypeOK /\ LoopTypeOK /\ CallTypeOK /\ QueueTypeOK
=============================================================================
