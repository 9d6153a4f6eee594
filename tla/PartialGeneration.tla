--------------------------- MODULE PartialGeneration ---------------------------
(***************************************************************************)
(* Partial rollout below the rollouter: an agent-loop worker, its sticky   *)
(* and load-balancing server manager, the inference servers with the       *)
(* requests they keep, and the two agent loops (single turn, and tools)    *)
(* that save a response when it is interrupted and go on with it when they *)
(* are run again.  A synchronization of weights cancels the servers and    *)
(* the worker, each by a remote call of its own, waits for the runs under  *)
(* way, writes the weights, and resumes servers and worker.                *)
(***************************************************************************)
EXTENDS Integers, Sequences, FiniteSets, SequencesExt

CONSTANTS NumServers,      \* rollout replicas
          Rows,            \* the responses any of the jobs generates
          Room,            \* tokens the engine has room for beyond response_length
          Jobs             \* [multi_turn: multi_turn.enable, the tool agent or the other,
                           \*  sampleOf: its rows and the sample of each,
                           \*  response_length, syncs: bound on the synchronizations]

Servers == 1..NumServers
Worker == 0                \* the agent-loop worker, among the targets of cancel and resume
Targets == Servers \union {Worker}

ASSUME GenerationAssumption ==
    /\ NumServers \in Nat \ {0} /\ Room \in Nat
    /\ \A job \in Jobs : /\ job.multi_turn \in BOOLEAN
                          /\ DOMAIN job.sampleOf \subseteq Rows
                          /\ job.response_length \in Nat \ {0} /\ job.syncs \in Nat

VARIABLES job,             \* the configuration
          phase, undelivered, \* the rollouter's pause and resume, and calls under way
          current_param_version, engine_version, \* as the rollouter knows it, and as it is
          serverPaused, req_output, cancel_event, \* of each server
          cancellation_event,                     \* of the worker
          load,            \* of the server manager: the requests a server was chosen for,
                           \* more than the server chosen least often
          session,         \* its LRU cache: the server of a row's request id, none without
          pc, run,         \* of each row: what its run waits for, and the run's locals
          saved            \* of each row: what is kept from one run to the next

serverVars == <<serverPaused, req_output, cancel_event>>
managerVars == <<load, session>>
syncVars == <<phase, undelivered, current_param_version, engine_version>>
rowVars == <<pc, run, saved>>
vars == <<job, syncVars, serverVars, cancellation_event, managerVars, rowVars>>

multi_turn == job.multi_turn
JobRows == DOMAIN job.sampleOf
Samples == {job.sampleOf[r] : r \in JobRows}
RowsOf(s) == {r \in JobRows : job.sampleOf[r] = s}
MaxModelLen == job.response_length + Room       \* max_model_len, less the prompt

Token(i, v, kind) == [pos |-> i, ver |-> v, kind |-> kind]

\* A turn of the tool agent is a plain answer or one call, which is at least two
\* tokens long; a single-turn answer is of any length.
TurnTokens(new) ==
    IF ~multi_turn THEN {"text", "eos"}
    ELSE IF new # <<>> /\ Last(new).kind = "open" THEN {"close"} ELSE {"open", "eos"}

EndsTurn(kind) == kind \in {"eos", "close"}

NoRun == [server |-> 1, base |-> 0, stamp |-> 0, reply |-> <<>>, is_cancel |-> FALSE]
None == <<>>       \* no output yet: an output of the engine has a token

Init == /\ job \in Jobs
        /\ phase = "run" /\ undelivered = {}
        /\ current_param_version = 0 /\ engine_version = 0
        /\ serverPaused = [s \in Servers |-> FALSE]
        /\ req_output = [s \in Servers |-> <<>>] /\ cancel_event = [s \in Servers |-> <<>>]
        /\ cancellation_event = FALSE
        /\ load = [s \in Servers |-> 0] /\ session = [r \in JobRows |-> {}]
        /\ pc = [r \in JobRows |-> "idle"]
        /\ run = [r \in JobRows |-> NoRun]
        /\ saved = [r \in JobRows |-> [ids |-> <<>>, state |-> "new", uuid |-> 0,
                                    start |-> 0, end |-> 0, called |-> 0]]

Put(f, k, v) == [x \in DOMAIN f \union {k} |-> IF x = k THEN v ELSE f[x]]
Pop(f, k) == [x \in DOMAIN f \ {k} |-> f[x]]

-----------------------------------------------------------------------------
(* The rollouter's side: samples are submitted, and pause, sync and resume *)

RequestId(r) == <<r, saved[r].uuid>>

\* uuid4: an id that no server knows; a pause leaves at most one of a row behind
FreshId(r) == Min({n \in 0..job.syncs : \A s \in Servers : <<r, n>> \notin DOMAIN req_output[s]})

\* generate_sequences_no_post for a sample, new or interrupted.  The rollouter
\* submits nothing inside pause and resume, which hold its lock; between them its
\* monitor may have un-paused it.  A row that is complete is returned as it is, and
\* the single-turn loop takes a new request id.
Submit(s) ==
    /\ phase \in {"run", "write", "written"}
    /\ \A r \in RowsOf(s) : pc[r] \in {"idle", "complete"}
    /\ \E r \in RowsOf(s) : pc[r] = "idle"
    /\ LET again == {r \in RowsOf(s) : pc[r] = "idle"}
           Begun(r, data) == IF data.state = "new"
                             THEN [data EXCEPT !.state = "pending", !.uuid = FreshId(r),
                                               !.start = current_param_version]
                             ELSE IF multi_turn THEN data ELSE [data EXCEPT !.uuid = FreshId(r)]
       IN  /\ pc' = [r \in JobRows |-> IF r \in again THEN "begin" ELSE pc[r]]
           /\ run' = [r \in JobRows |-> IF r \in again
                                     THEN [NoRun EXCEPT !.stamp = current_param_version]
                                     ELSE run[r]]
           /\ saved' = [r \in JobRows |-> IF r \in again THEN Begun(r, saved[r]) ELSE saved[r]]
           /\ session' = [r \in JobRows |-> IF r \in again /\ ~multi_turn THEN {} ELSE session[r]]
    /\ UNCHANGED <<job, syncVars, serverVars, cancellation_event, load>>

\* mutant: the servers are not told
PauseWorkerOnly ==
    /\ phase = "run" /\ engine_version < job.syncs
    /\ phase' = "cancel" /\ undelivered' = {Worker}
    /\ UNCHANGED <<job, current_param_version, engine_version, serverVars, cancellation_event,
                   managerVars, rowVars>>

Pause ==
    /\ phase = "run" /\ engine_version < job.syncs
    /\ phase' = "cancel" /\ undelivered' = Targets
    /\ UNCHANGED <<job, current_param_version, engine_version, serverVars,
                   cancellation_event, managerVars, rowVars>>

CancelServer(s) ==
    /\ serverPaused' = [serverPaused EXCEPT ![s] = TRUE]
    /\ cancel_event' = [cancel_event EXCEPT ![s] = [id \in DOMAIN @ |-> TRUE]]
    /\ UNCHANGED req_output

DeliverCancel(t) ==
    /\ phase = "cancel" /\ t \in undelivered
    /\ undelivered' = undelivered \ {t}
    /\ IF t = Worker
       THEN cancellation_event' = TRUE /\ UNCHANGED serverVars
       ELSE CancelServer(t) /\ UNCHANGED cancellation_event
    /\ UNCHANGED <<job, phase, current_param_version, engine_version, managerVars, rowVars>>

Over(r) == pc[r] \in {"idle", "complete"}

\* mutant: pause returns without waiting for the runs
CancelledNoGather ==
    /\ phase = "cancel" /\ undelivered = {}
    /\ phase' = "write"
    /\ UNCHANGED <<job, undelivered, current_param_version, engine_version, serverVars,
                   cancellation_event, managerVars, rowVars>>

\* cancel() has returned and pause has gathered the runs
Cancelled ==
    /\ phase = "cancel" /\ undelivered = {}
    /\ \A r \in JobRows : Over(r)
    /\ phase' = "write"
    /\ UNCHANGED <<job, undelivered, current_param_version, engine_version, serverVars,
                   cancellation_event, managerVars, rowVars>>

WeightsWritten ==
    /\ phase = "write" /\ phase' = "written"
    /\ engine_version' = engine_version + 1
    /\ UNCHANGED <<job, undelivered, current_param_version, serverVars,
                   cancellation_event, managerVars, rowVars>>

\* update_param_version, then resume
StartResume ==
    /\ phase = "written" /\ phase' = "resume"
    /\ current_param_version' = engine_version
    /\ undelivered' = Targets
    /\ UNCHANGED <<job, engine_version, serverVars, cancellation_event, managerVars,
                   rowVars>>

DeliverResume(t) ==
    /\ phase = "resume" /\ t \in undelivered
    /\ undelivered' = undelivered \ {t}
    /\ phase' = IF undelivered = {t} THEN "run" ELSE "resume"
    /\ IF t = Worker
       THEN cancellation_event' = FALSE /\ UNCHANGED serverPaused
       ELSE /\ serverPaused' = [serverPaused EXCEPT ![t] = FALSE]
            /\ UNCHANGED cancellation_event
    /\ UNCHANGED <<job, current_param_version, engine_version, req_output, cancel_event,
                   managerVars, rowVars>>

Synchronize == \/ Pause \/ Cancelled \/ WeightsWritten \/ StartResume
               \/ \E t \in Targets : DeliverCancel(t) \/ DeliverResume(t)

-----------------------------------------------------------------------------
(* The server manager and a server *)

\* the root of the heap: the fewest requests, then the first
LeastLoaded == CHOOSE s \in Servers :
                  \A t \in Servers : load[s] < load[t] \/ (load[s] = load[t] /\ s <= t)

Relative(counts) == LET least == Min({counts[s] : s \in Servers})
                    IN  [s \in Servers |-> counts[s] - least]

\* _choose_server, and the remote call of generate_for_partial with the response
\* so far behind the prompt
Call(r) ==
    \E server \in IF session[r] = {} THEN {LeastLoaded} ELSE session[r] :
        /\ session' = [session EXCEPT ![r] = {server}]
        /\ load' = IF session[r] # {} THEN load ELSE Relative([load EXCEPT ![server] = @ + 1])
        /\ run' = [run EXCEPT ![r].server = server, ![r].base = Len(saved[r].ids)]
        /\ pc' = [pc EXCEPT ![r] = "sent"]

Answer(r, tokens, is_cancel) ==
    /\ run' = [run EXCEPT ![r].reply = tokens, ![r].is_cancel = is_cancel]
    /\ pc' = [pc EXCEPT ![r] = "answered"]

\* the first critical section of generate_for_partial: turned away, or registered
Refuse(r) ==
    /\ pc[r] = "sent" /\ serverPaused[run[r].server]
    /\ Answer(r, <<>>, TRUE)
    /\ UNCHANGED <<job, syncVars, serverVars, cancellation_event, managerVars, saved>>

Register(r) ==
    LET s == run[r].server  id == RequestId(r)
    IN  /\ pc[r] = "sent" /\ ~serverPaused[s]
        /\ req_output' = [req_output EXCEPT ![s] = Put(@, id, None)]
        /\ cancel_event' = [cancel_event EXCEPT ![s] = Put(@, id, FALSE)]
        /\ pc' = [pc EXCEPT ![r] = "generating"]
        /\ UNCHANGED <<job, syncVars, serverPaused, cancellation_event, managerVars, run,
                       saved>>

Output(r) == req_output[run[r].server][RequestId(r)]
HasOutput(r) == Output(r) # None

\* generation_handle has returned: the engine's last output and its end come together
Generated(r) == /\ HasOutput(r)
                /\ \/ EndsTurn(Last(Output(r)).kind)
                   \/ run[r].base + Len(Output(r)) = MaxModelLen

\* _generate_step: the engine's next output, by the weights it has
EngineOutput(r) ==
    /\ pc[r] = "generating" /\ ~Generated(r)
    /\ \E kind \in TurnTokens(saved[r].ids \o Output(r)) :
          req_output' = [req_output EXCEPT ![run[r].server][RequestId(r)] =
                            Append(Output(r), Token(run[r].base + Len(Output(r)) + 1,
                                                    engine_version, kind))]
    /\ UNCHANGED <<job, syncVars, serverPaused, cancel_event, cancellation_event,
                   managerVars, rowVars>>

IsCancelled(r) == cancel_event[run[r].server][RequestId(r)]

\* mutant: an interrupted request is kept, output and all
PopIfGenerated(f, r) == IF Generated(r) THEN Pop(f, RequestId(r)) ELSE f

PopRequest(f, r) == Pop(f, RequestId(r))

\* the second critical section: a request without output leaves its entries behind
AnswerEmpty(r) ==
    /\ pc[r] = "generating" /\ IsCancelled(r) /\ ~HasOutput(r)
    /\ Answer(r, <<>>, TRUE)
    /\ UNCHANGED <<job, syncVars, serverVars, cancellation_event, managerVars, saved>>

\* mutant: the event is kept
AnswerOutputKeepsEvent(r) ==
    /\ pc[r] = "generating" /\ HasOutput(r)
    /\ IsCancelled(r) \/ Generated(r)
    /\ Answer(r, Output(r), ~Generated(r))
    /\ req_output' = [req_output EXCEPT ![run[r].server] = PopRequest(@, r)]
    /\ UNCHANGED <<job, syncVars, serverPaused, cancel_event, cancellation_event, managerVars,
                   saved>>

AnswerOutput(r) ==
    /\ pc[r] = "generating" /\ HasOutput(r)
    /\ IsCancelled(r) \/ Generated(r)
    /\ Answer(r, Output(r), ~Generated(r))
    /\ req_output' = [req_output EXCEPT ![run[r].server] = PopRequest(@, r)]
    /\ cancel_event' = [cancel_event EXCEPT ![run[r].server] = PopRequest(@, r)]
    /\ UNCHANGED <<job, syncVars, serverPaused, cancellation_event, managerVars, saved>>

Serve(r) == Refuse(r) \/ Register(r) \/ EngineOutput(r) \/ AnswerEmpty(r) \/ AnswerOutput(r)

-----------------------------------------------------------------------------
(* PartialSingleTurnAgentLoop.run: one request, under a new id *)

SingleCall(r) ==
    /\ ~multi_turn /\ pc[r] = "begin"
    /\ Call(r)
    /\ UNCHANGED <<job, syncVars, serverVars, cancellation_event, saved>>

\* mutant: the response of the last run alone
JoinedLast(r) == run[r].reply

\* what was saved and what was generated now
Joined(r) == saved[r].ids \o run[r].reply

\* mutant: the version the response was begun with
CompletedOldStamp(r, data) ==
    [data EXCEPT !.ids = SubSeq(@, 1, Min({Len(@), job.response_length})), !.end = data.start]

Completed(r, data) == [data EXCEPT !.ids = SubSeq(@, 1, Min({Len(@), job.response_length})),
                                   !.end = run[r].stamp]

SingleReturn(r) ==
    /\ ~multi_turn /\ pc[r] = "answered"
    /\ IF run[r].is_cancel /\ Len(Joined(r)) < job.response_length
       THEN /\ saved' = [saved EXCEPT ![r].ids = Joined(r)]
            /\ pc' = [pc EXCEPT ![r] = "idle"]
       ELSE /\ saved' = [saved EXCEPT ![r] = Completed(r, [@ EXCEPT !.ids = Joined(r)])]
            /\ pc' = [pc EXCEPT ![r] = "complete"]
    /\ run' = [run EXCEPT ![r] = NoRun]
    /\ UNCHANGED <<job, syncVars, serverVars, cancellation_event, managerVars>>

-----------------------------------------------------------------------------
(* AsyncPartialToolAgentLoop: a state machine, under one id *)

\* the worker has been cancelled: the agent's data and state are saved
ToolInterrupted(r) ==
    /\ multi_turn /\ pc[r] = "begin" /\ cancellation_event
    /\ pc' = [pc EXCEPT ![r] = "idle"]
    /\ run' = [run EXCEPT ![r] = NoRun]
    /\ UNCHANGED <<job, syncVars, serverVars, cancellation_event, managerVars, saved>>

InState(r, state) == multi_turn /\ pc[r] = "begin" /\ ~cancellation_event
                       /\ saved[r].state = state

ToolPending(r) ==
    /\ InState(r, "pending")
    /\ saved' = [saved EXCEPT ![r].state = "generating"]
    /\ UNCHANGED <<job, syncVars, serverVars, cancellation_event, managerVars, pc, run>>

ToolCall(r) ==
    /\ InState(r, "generating")
    /\ Call(r)
    /\ UNCHANGED <<job, syncVars, serverVars, cancellation_event, saved>>

\* extract_tool_calls: a call is seen if it is whole
HasCall(ids) == \E i, j \in DOMAIN ids : i < j /\ ids[i].kind = "open" /\ ids[j].kind = "close"

\* the rest of _handle_generating_state_partial; a completed turn is searched for
\* calls in the tokens of the last request
NextState(r) ==
    IF Len(Joined(r)) >= job.response_length THEN "terminated"
    ELSE IF run[r].is_cancel THEN "generating"
    ELSE IF HasCall(run[r].reply) THEN "processing_tools"
    ELSE "terminated"

Proceed(r, data) ==
    IF data.state = "terminated"
    THEN /\ saved' = [saved EXCEPT ![r] = Completed(r, data)]
         /\ pc' = [pc EXCEPT ![r] = "complete"]
         /\ run' = [run EXCEPT ![r] = NoRun]
    ELSE /\ saved' = [saved EXCEPT ![r] = data]
         /\ pc' = [pc EXCEPT ![r] = "begin"]
         /\ run' = [run EXCEPT ![r] = [NoRun EXCEPT !.stamp = run[r].stamp]]

ToolAnswered(r) ==
    /\ multi_turn /\ pc[r] = "answered"
    /\ Proceed(r, [saved[r] EXCEPT !.ids = Joined(r), !.state = NextState(r)])
    /\ UNCHANGED <<job, syncVars, serverVars, cancellation_event, managerVars>>

ToolProcess(r) ==
    /\ InState(r, "processing_tools")
    /\ pc' = [pc EXCEPT ![r] = "tools"]
    /\ UNCHANGED <<job, syncVars, serverVars, cancellation_event, managerVars, run, saved>>

\* mutant: interrupted while the tools ran, the agent saves the state it was in
AfterToolsAgain(r) ==
    IF Len(saved[r].ids) + 1 >= job.response_length
    THEN [saved[r] EXCEPT !.called = @ + 1, !.state = "terminated"]
    ELSE [saved[r] EXCEPT !.called = @ + 1,
                          !.state = IF cancellation_event THEN "processing_tools" ELSE "generating",
                          !.ids = Append(@, Token(Len(@) + 1, engine_version, "obs"))]

\* _handle_processing_tools_state: the answer is dropped if there is no room for it
AfterTools(r) ==
    IF Len(saved[r].ids) + 1 >= job.response_length
    THEN [saved[r] EXCEPT !.called = @ + 1, !.state = "terminated"]
    ELSE [saved[r] EXCEPT !.called = @ + 1, !.state = "generating",
                          !.ids = Append(@, Token(Len(@) + 1, engine_version, "obs"))]

ToolsReturn(r) ==
    /\ pc[r] = "tools"
    /\ Proceed(r, AfterTools(r))
    /\ UNCHANGED <<job, syncVars, serverVars, cancellation_event, managerVars>>

AgentLoop(r) == \/ SingleCall(r) \/ SingleReturn(r)
                \/ ToolInterrupted(r) \/ ToolPending(r) \/ ToolCall(r) \/ ToolAnswered(r)
                \/ ToolProcess(r) \/ ToolsReturn(r)

-----------------------------------------------------------------------------
AllComplete == \A r \in JobRows : pc[r] = "complete"

Ended == AllComplete /\ phase = "run" /\ engine_version = job.syncs /\ UNCHANGED vars

Next == \/ \E s \in Samples : Submit(s)
        \/ Synchronize
        \/ \E r \in JobRows : Serve(r) \/ AgentLoop(r)
        \/ Ended

(***************************************************************************)
(* Fairness.  Remote calls arrive, the engine generates, coroutines that   *)
(* are ready run, tools return (they have a time limit), the weights are   *)
(* written, and the processor submits what waits while the rollouter is    *)
(* not paused.  Nothing says that a synchronization begins.                *)
(***************************************************************************)
Fairness ==
    /\ WF_vars(Synchronize /\ phase # "run")
    /\ \A r \in Rows : /\ WF_vars(r \in JobRows /\ phase = "run" /\ Submit(job.sampleOf[r]))
                        /\ WF_vars(r \in JobRows /\ Serve(r))
                        /\ WF_vars(r \in JobRows /\ AgentLoop(r))

Spec == Init /\ [][Next]_vars /\ Fairness

-----------------------------------------------------------------------------
(* Properties *)

RequestIds == Rows \X Nat

\* Every variable holds a value of its kind, and the two tables of a server have
\* the same requests.
GenTypeOK ==
    /\ job \in Jobs /\ cancellation_event \in BOOLEAN
    /\ phase \in {"run", "cancel", "write", "written", "resume"}
    /\ undelivered \subseteq Targets
    /\ engine_version \in 0..job.syncs /\ current_param_version \in 0..engine_version
    /\ serverPaused \in [Servers -> BOOLEAN]
    /\ \A s \in Servers : /\ DOMAIN req_output[s] = DOMAIN cancel_event[s]
                          /\ DOMAIN req_output[s] \subseteq RequestIds
                          /\ \A id \in DOMAIN cancel_event[s] : cancel_event[s][id] \in BOOLEAN
    /\ load \in [Servers -> Nat] /\ session \in [JobRows -> SUBSET Servers]
    /\ pc \in [JobRows -> {"idle", "begin", "sent", "generating", "answered", "tools", "complete"}]
    /\ \A r \in JobRows : saved[r].state \in {"new", "pending", "generating", "processing_tools",
                                           "terminated"}

Serving(r, s) == pc[r] = "generating" /\ run[r].server = s

\* No request outlives the pause it was interrupted by: when a server resumes, all
\* that it had cancelled have been answered, so no stale event cuts a later run short.
NoStaleCancel ==
    \A r \in JobRows, s \in Servers : Serving(r, s) /\ IsCancelled(r) => serverPaused[s]

\* While weights are written no server is generating and no tool is running, also
\* if the monitor lets the rollouter submit samples meanwhile.
QuietWhileWriting == phase = "write" => \A r \in JobRows : pc[r] \notin {"generating", "tools"}

\* What a server keeps of requests it no longer serves is empty: only a request
\* interrupted before its first output leaves an entry, whose output nobody will read.
LeftoversAreEmpty ==
    \A s \in Servers : \A id \in DOMAIN req_output[s] :
        req_output[s][id] = None \/ \E r \in JobRows : Serving(r, s) /\ RequestId(r) = id

\* No event and no output of a request meets another: what one pause leaves in the
\* tables of a server takes no part in what it serves after the next resume.
NothingStale == NoStaleCancel /\ LeftoversAreEmpty

\* The stamps bracket the weights that made a response: none of its tokens is older
\* than param_version_start, and none is newer than the version after
\* param_version_end, which a run submitted while weights are written gets to see.
StampsBracket ==
    \A r \in JobRows : \A i \in DOMAIN saved[r].ids :
        /\ saved[r].ids[i].ver >= saved[r].start
        /\ pc[r] = "complete" => saved[r].ids[i].ver <= saved[r].end + 1

\* Interruptions never make a tool run twice for one call: a call is executed once,
\* its answer follows it, and a response has no more answers than calls.
ToolRunsOnce ==
    \A r \in JobRows :
        LET ids == saved[r].ids
            Count(kind) == Cardinality({i \in DOMAIN ids : ids[i].kind = kind})
        IN  /\ saved[r].called <= Count("close")
            /\ Count("obs") <= saved[r].called
            /\ \A i \in DOMAIN ids : ids[i].kind = "obs" => i > 2 /\ ids[i - 1].kind = "close"

\* A call that was generated whole is executed, unless its response is at its limit.
CallsAreExecuted ==
    \A r \in JobRows :
        pc[r] = "complete" /\ Len(saved[r].ids) < job.response_length =>
            saved[r].called = Cardinality({i \in DOMAIN saved[r].ids :
                                              saved[r].ids[i].kind = "close"})

Abstract == INSTANCE ResumableGeneration WITH
                response <- [r \in Rows |-> IF r \in JobRows THEN saved[r].ids ELSE <<>>],
                finished <- {r \in Rows : r \in JobRows => pc[r] = "complete"},
                version <- engine_version,
                writing <- phase = "write"

\* Whatever is interrupted, a response only grows, by tokens made for the place they
\* take by the weights of the moment, never while weights are written, and it ends.
ImplementsResumable == Abstract!ResumableSpec
=============================================================================
