------------------------ MODULE PartialGenerationProofs ------------------------
(***************************************************************************)
(* Partial generation, for any number of servers and responses and for     *)
(* every interleaving of the remote calls.                                 *)
(***************************************************************************)
EXTENDS PartialGeneration, NaturalsInduction, FiniteSetTheorems, TLAPS

(***************************************************************************)
(* The types of the variables, one conjunct for each kind of actor.        *)
(***************************************************************************)
Tokens == [pos : Nat, ver : Nat, kind : {"text", "eos", "open", "close", "obs"}]
Runs == [server : Servers, base : Nat, stamp : Nat, reply : Seq(Tokens), is_cancel : BOOLEAN]
Responses == [ids : Seq(Tokens),
              state : {"new", "pending", "generating", "processing_tools", "terminated"},
              uuid : Nat, start : Nat, end : Nat, called : Nat]

RowTypes ==
    /\ pc \in [JobRows -> {"idle", "begin", "sent", "generating", "answered", "tools", "complete"}]
    /\ run \in [JobRows -> Runs]
    /\ saved \in [JobRows -> Responses]

ServerTypes ==
    /\ serverPaused \in [Servers -> BOOLEAN]
    /\ DOMAIN req_output = Servers /\ DOMAIN cancel_event = Servers
    /\ \A s \in Servers :
          /\ DOMAIN req_output[s] = DOMAIN cancel_event[s]
          /\ DOMAIN req_output[s] \subseteq RequestIds
          /\ \A id \in DOMAIN req_output[s] : /\ req_output[s][id] \in Seq(Tokens)
                                              /\ cancel_event[s][id] \in BOOLEAN

ManagerTypes == load \in [Servers -> Nat] /\ session \in [JobRows -> SUBSET Servers]

SyncTypes ==
    /\ job \in Jobs /\ cancellation_event \in BOOLEAN
    /\ phase \in {"run", "cancel", "write", "written", "resume"}
    /\ undelivered \subseteq Targets
    /\ engine_version \in Nat /\ current_param_version \in Nat

Types == RowTypes /\ ServerTypes /\ ManagerTypes /\ SyncTypes

(***************************************************************************)
(* Who has been told of a synchronization.                                 *)
(***************************************************************************)
Told(t) == \/ phase \in {"write", "written"}
           \/ phase = "cancel" /\ t \notin undelivered
           \/ phase = "resume" /\ t \in undelivered

SyncInv ==
    /\ \A s \in Servers : serverPaused[s] <=> Told(s)
    /\ cancellation_event <=> Told(Worker)
    /\ engine_version = current_param_version + (IF phase = "written" THEN 1 ELSE 0)
    /\ engine_version <= job.syncs
    /\ phase \in {"cancel", "write"} => engine_version < job.syncs

\* tokens of one request, generated by version v for the places behind place n
OfRequest(tokens, n, v) ==
    \A i \in 1..Len(tokens) : /\ tokens[i].pos = n + i /\ tokens[i].ver = v
                              /\ tokens[i].kind # "obs"
                              /\ EndsTurn(tokens[i].kind) => i = Len(tokens)

\* A response being generated: its request is registered; its server is paused only
\* while the pause goes on, and only then is the request cancelled.
Served(r) ==
    pc[r] = "generating" =>
        /\ RequestId(r) \in DOMAIN req_output[run[r].server]
        /\ OfRequest(Output(r), Len(saved[r].ids), engine_version)
        /\ IsCancelled(r) => serverPaused[run[r].server]
        /\ serverPaused[run[r].server] => phase = "cancel"

\* An answer: tokens of the weights of the moment, none while weights are written.
Answered(r) ==
    pc[r] = "answered" =>
        /\ OfRequest(run[r].reply, Len(saved[r].ids), engine_version)
        /\ run[r].reply = <<>> => run[r].is_cancel
        /\ phase = "write" => run[r].reply = <<>>

\* A run keeps to the size of its response and sees at most one synchronization.
Running(r) ==
    /\ pc[r] # "complete" => Len(saved[r].ids) < job.response_length
    /\ pc[r] \in {"sent", "generating"} => run[r].base = Len(saved[r].ids)
    /\ saved[r].state = "new" => pc[r] = "idle" /\ saved[r].ids = <<>>
    /\ saved[r].state = "processing_tools" =>
          multi_turn /\ pc[r] \notin {"sent", "generating", "answered"}
    /\ pc[r] = "tools" => saved[r].state = "processing_tools" /\ phase # "write"
    /\ ~Over(r) => /\ engine_version <= run[r].stamp + 1
                   /\ phase = "write" => engine_version <= run[r].stamp
    /\ saved[r].start <= current_param_version

Versions(r) ==
    \A i \in 1..Len(saved[r].ids) :
        /\ saved[r].ids[i].ver >= saved[r].start
        /\ saved[r].ids[i].ver <= engine_version
        /\ pc[r] = "complete" => saved[r].ids[i].ver <= saved[r].end + 1

Kinds(ids, kind) == {i \in 1..Len(ids) : ids[i].kind = kind}

\* A call that waits for its tool is the last of the response.
CallsAndAnswers(r) ==
    LET ids == saved[r].ids
    IN  /\ saved[r].called <= Cardinality(Kinds(ids, "close"))
        /\ Cardinality(Kinds(ids, "obs")) <= saved[r].called
        /\ \A i \in Kinds(ids, "obs") : i > 2 /\ ids[i - 1].kind = "close"
        /\ saved[r].state = "processing_tools" /\ pc[r] # "complete" =>
              /\ saved[r].called + 1 <= Cardinality(Kinds(ids, "close"))
              /\ Len(ids) >= 2 /\ ids[Len(ids)].kind = "close"

\* Pauses begun: each leaves at most one id of a response in the tables.
Pauses == engine_version + (IF phase \in {"cancel", "write"} THEN 1 ELSE 0)

IdsInv ==
    /\ \A r \in JobRows : saved[r].uuid <= Pauses /\ (phase = "cancel" => saved[r].uuid < Pauses)
    /\ \A s \in Servers : \A id \in DOMAIN req_output[s] :
          id[2] < Pauses \/ \E r \in JobRows : Serving(r, s) /\ RequestId(r) = id

\* All that is known of a response, and the inductive invariant.
RowInv(r) == Served(r) /\ Answered(r) /\ Running(r) /\ Versions(r) /\ CallsAndAnswers(r)

GenInv == /\ Types /\ SyncInv /\ IdsInv /\ LeftoversAreEmpty
          /\ \A r \in JobRows : RowInv(r)

-----------------------------------------------------------------------------
(* The least of a set of natural numbers *)

\* A nonempty set of natural numbers has a least element, and Min is it.
LEMMA LeastOfNat ==
    ASSUME NEW S, S \subseteq Nat, S # {}
    PROVE  Min(S) \in S /\ \A n \in S : Min(S) <= n
<1>1. IsWellFoundedOn(OpToRel(<, Nat), Nat)
  BY NatLessThanWellFounded
<1>2. PICK least \in S : \A n \in S : <<n, least>> \notin OpToRel(<, Nat)
  BY <1>1, WFMin
<1>3. \A n \in S : ~(n < least)
  BY <1>2 DEF OpToRel
<1>4. \A n \in S : least <= n
  BY <1>3
<1>. QED
  BY <1>4 DEF Min

\* The smaller of two.
LEMMA LeastOfTwo ==
    ASSUME NEW m \in Nat, NEW n \in Nat
    PROVE  Min({m, n}) = IF m <= n THEN m ELSE n
<1>1. Min({m, n}) \in {m, n} /\ \A k \in {m, n} : Min({m, n}) <= k
  BY LeastOfNat
<1>. QED
  BY <1>1

-----------------------------------------------------------------------------
(* What the constants give, and the values the manager chooses *)

\* A job is one of those configured.
LEMMA JobFacts ==
    ASSUME Types
    PROVE  /\ JobRows \subseteq Rows /\ multi_turn \in BOOLEAN
           /\ job.response_length \in Nat \ {0} /\ job.syncs \in Nat
           /\ MaxModelLen \in Nat
<1>1. job \in Jobs
  BY DEF Types, SyncTypes
<1>2. multi_turn \in BOOLEAN
  BY <1>1, GenerationAssumption, Zenon DEF multi_turn
<1>3. JobRows \subseteq Rows
  BY <1>1, GenerationAssumption, Zenon DEF JobRows
<1>. QED
  BY <1>1, <1>2, <1>3, GenerationAssumption DEF MaxModelLen

\* There is a server.
LEMMA SomeServer == Servers # {} /\ Servers \subseteq Nat
BY GenerationAssumption DEF Servers

\* uuid4 gives an id no server has; it is one of the pauses begun so far, since each
\* of them left at most one.
LEMMA FreshIdIsNew ==
    ASSUME Types, SyncInv, IdsInv, NEW r \in JobRows, pc[r] = "idle",
           phase \in {"run", "write", "written"}
    PROVE  FreshId(r) \in Nat /\ FreshId(r) <= Pauses
<1>. DEFINE Free == {n \in 0..job.syncs : \A s \in Servers : <<r, n>> \notin DOMAIN req_output[s]}
<1>1. job.syncs \in Nat
  BY JobFacts
<1>2. Pauses \in 0..job.syncs
  BY <1>1 DEF Pauses, SyncInv, Types, SyncTypes
<1>3. ASSUME NEW s \in Servers, <<r, Pauses>> \in DOMAIN req_output[s]
      PROVE  FALSE
  <2>1. PICK q \in JobRows : Serving(q, s) /\ RequestId(q) = <<r, Pauses>>
    BY <1>2, <1>3 DEF IdsInv
  <2>2. q = r
    BY <2>1 DEF RequestId
  <2>. QED
    BY <2>1, <2>2 DEF Serving
<1>4. Pauses \in Free
  BY <1>2, <1>3
<1>5. Min(Free) \in Free /\ \A n \in Free : Min(Free) <= n
  <2>1. Free \subseteq Nat /\ Free # {}
    BY <1>1, <1>4
  <2>. QED
    BY <2>1, LeastOfNat
<1>. QED
  BY <1>1, <1>4, <1>5 DEF FreshId

\* There is a server at the root of the heap.
LEMMA LeastLoadedIsServer ==
    ASSUME Types
    PROVE  LeastLoaded \in Servers
<1>. DEFINE Counts == {load[s] : s \in Servers}
            Least == {s \in Servers : load[s] = Min(Counts)}
<1>1. load \in [Servers -> Nat]
  BY DEF Types, ManagerTypes
<1>2. Min(Counts) \in Counts /\ \A n \in Counts : Min(Counts) <= n
  <2>1. Counts \subseteq Nat /\ Counts # {}
    BY <1>1, SomeServer
  <2>. QED
    BY <2>1, LeastOfNat
<1>3. Min(Least) \in Least /\ \A s \in Least : Min(Least) <= s
  <2>1. Least \subseteq Nat /\ Least # {}
    BY <1>2, SomeServer
  <2>. QED
    BY <2>1, LeastOfNat
<1>. DEFINE root == Min(Least)
<1>4. root \in Servers /\ load[root] = Min(Counts)
  BY <1>3
<1>5. ASSUME NEW t \in Servers
      PROVE  load[root] < load[t] \/ (load[root] = load[t] /\ root <= t)
  <2>1. load[root] <= load[t] /\ load[root] \in Nat /\ load[t] \in Nat
    BY <1>1, <1>2, <1>4
  <2>2. load[t] = load[root] => root <= t
    BY <1>3, <1>4
  <2>. QED
    BY <2>1, <2>2
<1>6. \E s \in Servers : \A t \in Servers : load[s] < load[t] \/ (load[s] = load[t] /\ s <= t)
  <2>. HIDE DEF root
  <2>. QED
    BY <1>4, <1>5
<1>. QED
  BY <1>6, Zenon DEF LeastLoaded

\* Counts stay counts when the least is taken off.
LEMMA RelativeType ==
    ASSUME NEW counts \in [Servers -> Nat]
    PROVE  Relative(counts) \in [Servers -> Nat]
<1>. DEFINE Counts == {counts[s] : s \in Servers}
<1>1. Counts \subseteq Nat /\ Counts # {}
  BY SomeServer
<1>2. Min(Counts) \in Nat /\ \A n \in Counts : Min(Counts) <= n
  BY <1>1, LeastOfNat
<1>3. ASSUME NEW s \in Servers
      PROVE  counts[s] - Min(Counts) \in Nat
  <2>1. counts[s] \in Counts /\ counts[s] \in Nat
    OBVIOUS
  <2>. HIDE DEF Counts
  <2>. QED
    BY <1>2, <2>1
<1>. QED
  BY <1>3 DEF Relative

\* The server of a call is a server, whatever the cache holds.
LEMMA CallEffect ==
    ASSUME Types, NEW r \in JobRows, Call(r)
    PROVE  /\ load' \in [Servers -> Nat] /\ session' \in [JobRows -> SUBSET Servers]
           /\ \E server \in Servers :
                 run' = [run EXCEPT ![r].server = server, ![r].base = Len(saved[r].ids)]
           /\ pc' = [pc EXCEPT ![r] = "sent"]
<1>1. PICK server \in IF session[r] = {} THEN {LeastLoaded} ELSE session[r] :
        /\ session' = [session EXCEPT ![r] = {server}]
        /\ load' = IF session[r] # {} THEN load ELSE Relative([load EXCEPT ![server] = @ + 1])
        /\ run' = [run EXCEPT ![r].server = server, ![r].base = Len(saved[r].ids)]
        /\ pc' = [pc EXCEPT ![r] = "sent"]
  BY DEF Call
<1>2. load \in [Servers -> Nat] /\ session \in [JobRows -> SUBSET Servers]
  BY DEF Types, ManagerTypes
<1>3. server \in Servers
  BY <1>2, LeastLoadedIsServer
<1>4. session' \in [JobRows -> SUBSET Servers]
  BY <1>1, <1>2, <1>3
<1>5. [load EXCEPT ![server] = @ + 1] \in [Servers -> Nat]
  BY <1>2, <1>3
<1>6. load' \in [Servers -> Nat]
  BY <1>1, <1>2, <1>5, RelativeType, Zenon
<1>. QED
  BY <1>1, <1>3, <1>4, <1>6

-----------------------------------------------------------------------------
(* Types *)

\* A token made for its place is a token.
LEMMA TokenType ==
    ASSUME NEW i \in Nat, NEW v \in Nat, NEW kind \in {"text", "eos", "open", "close", "obs"}
    PROVE  Token(i, v, kind) \in Tokens
BY DEF Token, Tokens

\* An empty run is a run.
LEMMA NoRunType == NoRun \in Runs /\ NoRun.server = 1 /\ NoRun.reply = <<>>
<1>1. 1 \in Servers
  BY GenerationAssumption DEF Servers
<1>2. FALSE \in BOOLEAN
  OBVIOUS
<1>3. <<>> \in Seq(Tokens)
  OBVIOUS
<1>. QED
  BY <1>1, <1>2, <1>3 DEF NoRun, Runs

\* The fields of a run and of what is saved, as they are assigned.
LEMMA RunFields ==
    ASSUME NEW old \in Runs
    PROVE  /\ old.server \in Servers /\ old.base \in Nat /\ old.stamp \in Nat
           /\ old.reply \in Seq(Tokens) /\ old.is_cancel \in BOOLEAN
           /\ \A s \in Servers, n \in Nat : [old EXCEPT !.server = s, !.base = n] \in Runs
           /\ \A reply \in Seq(Tokens), is_cancel \in BOOLEAN :
                 [old EXCEPT !.reply = reply, !.is_cancel = is_cancel] \in Runs
           /\ \A n \in Nat : [old EXCEPT !.stamp = n] \in Runs
BY Zenon DEF Runs

\* What is saved of a response, as it is assigned.
LEMMA ResponseFields ==
    ASSUME NEW old \in Responses
    PROVE  /\ old.ids \in Seq(Tokens) /\ old.uuid \in Nat /\ old.start \in Nat
           /\ old.end \in Nat /\ old.called \in Nat
           /\ old.state \in {"new", "pending", "generating", "processing_tools", "terminated"}
           /\ \A ids \in Seq(Tokens) : [old EXCEPT !.ids = ids] \in Responses
           /\ \A state \in {"new", "pending", "generating", "processing_tools", "terminated"} :
                 [old EXCEPT !.state = state] \in Responses
           /\ \A n \in Nat : /\ [old EXCEPT !.uuid = n] \in Responses
                             /\ [old EXCEPT !.start = n] \in Responses
                             /\ [old EXCEPT !.end = n] \in Responses
                             /\ [old EXCEPT !.called = n] \in Responses
BY Zenon DEF Responses

\* A response cut to a length begins as it did.
LEMMA Truncated ==
    ASSUME NEW ids \in Seq(Tokens), NEW limit \in Nat
    PROVE  LET cut == SubSeq(ids, 1, Min({Len(ids), limit}))
           IN  /\ cut \in Seq(Tokens)
               /\ Len(cut) = IF Len(ids) <= limit THEN Len(ids) ELSE limit
               /\ \A i \in 1..Len(cut) : cut[i] = ids[i]
<1>. DEFINE n == Min({Len(ids), limit})
<1>1. Len(ids) \in Nat
  OBVIOUS
<1>2. n = IF Len(ids) <= limit THEN Len(ids) ELSE limit
  BY <1>1, LeastOfTwo
<1>3. n \in 0..Len(ids)
  BY <1>1, <1>2
<1>. HIDE DEF n
<1>4. /\ SubSeq(ids, 1, n) \in Seq(Tokens) /\ Len(SubSeq(ids, 1, n)) = n
      /\ \A i \in 1..n : SubSeq(ids, 1, n)[i] = ids[i]
  BY <1>1, <1>3
<1>. QED
  BY <1>2, <1>4 DEF n

\* Two runs of tokens, one behind the other.
LEMMA Concatenated ==
    ASSUME NEW old \in Seq(Tokens), NEW new \in Seq(Tokens)
    PROVE  /\ old \o new \in Seq(Tokens)
           /\ Len(old) \in Nat /\ Len(new) \in Nat /\ Len(old \o new) = Len(old) + Len(new)
           /\ \A i \in 1..Len(old) : (old \o new)[i] = old[i]
           /\ \A i \in 1..Len(new) : (old \o new)[Len(old) + i] = new[i]
           /\ \A i \in (Len(old) + 1)..Len(old \o new) :
                 i - Len(old) \in 1..Len(new) /\ (old \o new)[i] = new[i - Len(old)]
OBVIOUS

\* The tokens of a response are tokens.
LEMMA TokenFields ==
    ASSUME NEW ids \in Seq(Tokens)
    PROVE  \A i \in 1..Len(ids) :
              /\ ids[i] \in Tokens /\ ids[i].pos \in Nat /\ ids[i].ver \in Nat
              /\ ids[i].kind \in {"text", "eos", "open", "close", "obs"}
<1>1. \A i \in 1..Len(ids) : ids[i] \in Tokens
  OBVIOUS
<1>2. \A t \in Tokens : /\ t.pos \in Nat /\ t.ver \in Nat
                         /\ t.kind \in {"text", "eos", "open", "close", "obs"}
  BY DEF Tokens
<1>. QED
  BY <1>1, <1>2

\* The completed response is what was generated, cut to the limit, with its stamp.
LEMMA CompletedFields ==
    ASSUME NEW r \in JobRows, NEW data \in Responses, run[r] \in Runs,
           job.response_length \in Nat
    PROVE  LET done == Completed(r, data)
           IN  /\ done \in Responses /\ done.state = data.state /\ done.uuid = data.uuid
               /\ done.start = data.start /\ done.called = data.called /\ done.end = run[r].stamp
               /\ Len(done.ids) = IF Len(data.ids) <= job.response_length
                                  THEN Len(data.ids) ELSE job.response_length
               /\ \A i \in 1..Len(done.ids) : done.ids[i] = data.ids[i]
<1>. DEFINE done == Completed(r, data)
            cut == SubSeq(data.ids, 1, Min({Len(data.ids), job.response_length}))
<1>1. data.ids \in Seq(Tokens) /\ run[r].stamp \in Nat
  BY ResponseFields, RunFields
<1>2. /\ cut \in Seq(Tokens)
      /\ Len(cut) = IF Len(data.ids) <= job.response_length
                    THEN Len(data.ids) ELSE job.response_length
      /\ \A i \in 1..Len(cut) : cut[i] = data.ids[i]
  BY <1>1, Truncated
<1>3. done = [data EXCEPT !.ids = cut, !.end = run[r].stamp]
  BY DEF Completed
<1>. HIDE DEF done, cut
<1>4. /\ done \in Responses /\ done.ids = cut /\ done.end = run[r].stamp
      /\ done.state = data.state /\ done.uuid = data.uuid
      /\ done.start = data.start /\ done.called = data.called
  BY <1>1, <1>2, <1>3 DEF Responses
<1>. QED
  BY <1>2, <1>4 DEF done

\* What a run leaves of a response, data, that it hands back or goes on with.
HandsOn(r, data) ==
    /\ pc'[r] \in {"idle", "begin", "complete"}
    /\ saved'[r].state = data.state /\ saved'[r].uuid = data.uuid
    /\ saved'[r].start = data.start /\ saved'[r].called = data.called
    /\ \A i \in 1..Len(saved'[r].ids) : i \in 1..Len(data.ids) /\ saved'[r].ids[i] = data.ids[i]
    /\ pc'[r] # "complete" => saved'[r].ids = data.ids
    /\ pc'[r] = "complete" => /\ saved'[r].end = run[r].stamp
                              /\ Len(saved'[r].ids) = IF Len(data.ids) <= job.response_length
                                                      THEN Len(data.ids)
                                                      ELSE job.response_length
    /\ pc'[r] = "begin" => run'[r].stamp = run[r].stamp

\* Nothing of any other response changes, nor does the synchronization.
RowStep(r) ==
    /\ \A q \in JobRows \ {r} : pc'[q] = pc[q] /\ run'[q] = run[q] /\ saved'[q] = saved[q]
    /\ \A s \in Servers : \A id : id[1] # r =>
          /\ id \in DOMAIN req_output'[s] <=> id \in DOMAIN req_output[s]
          /\ id \in DOMAIN req_output[s] =>
                req_output'[s][id] = req_output[s][id] /\ cancel_event'[s][id] = cancel_event[s][id]
    /\ UNCHANGED <<job, syncVars, serverPaused, cancellation_event>>

\* A tool agent's turn goes on, or its response is complete.
LEMMA ProceedEffect ==
    ASSUME Types, NEW r \in JobRows, NEW data \in Responses, Proceed(r, data), job' = job
    PROVE  /\ RowTypes' /\ HandsOn(r, data)
           /\ pc'[r] = IF data.state = "terminated" THEN "complete" ELSE "begin"
           /\ \A q \in JobRows \ {r} : pc'[q] = pc[q] /\ run'[q] = run[q] /\ saved'[q] = saved[q]
<1>1. JobRows' = JobRows
  BY DEF JobRows
<1>2. run[r] \in Runs /\ RowTypes /\ run[r].stamp \in Nat
  BY RunFields DEF Types, RowTypes
<1>3. job.response_length \in Nat
  BY JobFacts
<1>4. NoRun \in Runs /\ [NoRun EXCEPT !.stamp = run[r].stamp] \in Runs
  BY <1>2, NoRunType, RunFields
<1>5. CASE data.state = "terminated"
  <2>. DEFINE done == Completed(r, data)
  <2>1. /\ saved' = [saved EXCEPT ![r] = done]
        /\ pc' = [pc EXCEPT ![r] = "complete"] /\ run' = [run EXCEPT ![r] = NoRun]
    BY <1>5 DEF Proceed
  <2>2. /\ done \in Responses /\ done.state = data.state /\ done.uuid = data.uuid
        /\ done.start = data.start /\ done.called = data.called /\ done.end = run[r].stamp
        /\ Len(done.ids) = IF Len(data.ids) <= job.response_length
                           THEN Len(data.ids) ELSE job.response_length
        /\ \A i \in 1..Len(done.ids) : done.ids[i] = data.ids[i]
    BY <1>2, <1>3, CompletedFields
  <2>. HIDE DEF done
  <2>3. saved'[r] = done /\ pc'[r] = "complete"
    BY <1>2, <2>1 DEF RowTypes
  <2>4. Len(done.ids) \in Nat /\ Len(data.ids) \in Nat /\ Len(done.ids) <= Len(data.ids)
    BY <1>3, <2>2, ResponseFields
  <2>5. HandsOn(r, data)
    BY <2>2, <2>3, <2>4 DEF HandsOn
  <2>6. RowTypes'
    BY <1>1, <1>2, <1>4, <2>1, <2>2 DEF RowTypes
  <2>7. \A q \in JobRows \ {r} : pc'[q] = pc[q] /\ run'[q] = run[q] /\ saved'[q] = saved[q]
    BY <1>2, <2>1 DEF RowTypes
  <2>. QED
    BY <1>5, <2>3, <2>5, <2>6, <2>7
<1>6. CASE data.state # "terminated"
  <2>1. /\ saved' = [saved EXCEPT ![r] = data]
        /\ pc' = [pc EXCEPT ![r] = "begin"]
        /\ run' = [run EXCEPT ![r] = [NoRun EXCEPT !.stamp = run[r].stamp]]
    BY <1>6 DEF Proceed
  <2>2. saved'[r] = data /\ pc'[r] = "begin" /\ run'[r] = [NoRun EXCEPT !.stamp = run[r].stamp]
    BY <1>2, <2>1 DEF RowTypes
  <2>3. run'[r].stamp = run[r].stamp
    BY <2>2 DEF NoRun
  <2>4. HandsOn(r, data)
    BY <2>2, <2>3 DEF HandsOn
  <2>5. RowTypes'
    BY <1>1, <1>2, <1>4, <2>1 DEF RowTypes
  <2>6. \A q \in JobRows \ {r} : pc'[q] = pc[q] /\ run'[q] = run[q] /\ saved'[q] = saved[q]
    BY <1>2, <2>1 DEF RowTypes
  <2>. QED
    BY <1>6, <2>2, <2>4, <2>5, <2>6
<1>. QED
  BY <1>5, <1>6

\* The response with the answer of its request.
LEMMA JoinedData ==
    ASSUME Types, NEW r \in JobRows
    PROVE  /\ saved[r] \in Responses /\ run[r] \in Runs
           /\ saved[r].ids \in Seq(Tokens) /\ run[r].reply \in Seq(Tokens)
           /\ Joined(r) \in Seq(Tokens)
           /\ [saved[r] EXCEPT !.ids = Joined(r)] \in Responses
           /\ \A state \in {"terminated", "generating", "processing_tools"} :
                 [saved[r] EXCEPT !.ids = Joined(r), !.state = state] \in Responses
<1>1. saved[r] \in Responses /\ run[r] \in Runs
  BY DEF Types, RowTypes
<1>2. saved[r].ids \in Seq(Tokens) /\ run[r].reply \in Seq(Tokens)
  BY <1>1, RunFields, ResponseFields
<1>3. Joined(r) \in Seq(Tokens)
  BY <1>2, Concatenated DEF Joined
<1>4. [saved[r] EXCEPT !.ids = Joined(r)] \in Responses
  BY <1>1, <1>3, ResponseFields
<1>5. ASSUME NEW state \in {"terminated", "generating", "processing_tools"}
      PROVE  [saved[r] EXCEPT !.ids = Joined(r), !.state = state] \in Responses
  BY <1>1, <1>3, Zenon DEF Responses
<1>. QED
  BY <1>1, <1>2, <1>3, <1>4, <1>5

\* A single-turn run returns.
LEMMA SingleReturnEffect ==
    ASSUME Types, NEW r \in JobRows, SingleReturn(r)
    PROVE  /\ RowTypes' /\ HandsOn(r, [saved[r] EXCEPT !.ids = Joined(r)])
           /\ pc'[r] = IF run[r].is_cancel /\ Len(Joined(r)) < job.response_length
                       THEN "idle" ELSE "complete"
           /\ \A q \in JobRows \ {r} : pc'[q] = pc[q] /\ run'[q] = run[q] /\ saved'[q] = saved[q]
<1>1. JobRows' = JobRows
  BY DEF JobRows, SingleReturn
<1>2. run[r] \in Runs /\ RowTypes
  BY DEF Types, RowTypes
<1>3. job.response_length \in Nat
  BY JobFacts
<1>4. NoRun \in Runs
  BY NoRunType
<1>. DEFINE data == [saved[r] EXCEPT !.ids = Joined(r)]
<1>5. data \in Responses
  BY JoinedData
<1>6. run' = [run EXCEPT ![r] = NoRun]
  BY DEF SingleReturn
<1>7. CASE run[r].is_cancel /\ Len(Joined(r)) < job.response_length
  <2>1. saved' = [saved EXCEPT ![r].ids = Joined(r)] /\ pc' = [pc EXCEPT ![r] = "idle"]
    BY <1>7 DEF SingleReturn
  <2>2. saved' = [saved EXCEPT ![r] = data]
    BY <2>1
  <2>. HIDE DEF data
  <2>3. saved'[r] = data /\ pc'[r] = "idle"
    BY <1>2, <2>1, <2>2 DEF RowTypes
  <2>4. HandsOn(r, data)
    BY <2>3 DEF HandsOn
  <2>5. RowTypes'
    BY <1>1, <1>2, <1>4, <1>5, <1>6, <2>1, <2>2 DEF RowTypes
  <2>6. \A q \in JobRows \ {r} : pc'[q] = pc[q] /\ run'[q] = run[q] /\ saved'[q] = saved[q]
    BY <1>2, <1>6, <2>1, <2>2 DEF RowTypes
  <2>. QED
    BY <1>7, <2>3, <2>4, <2>5, <2>6 DEF data
<1>8. CASE ~(run[r].is_cancel /\ Len(Joined(r)) < job.response_length)
  <2>. DEFINE done == Completed(r, data)
  <2>1. saved' = [saved EXCEPT ![r] = Completed(r, [@ EXCEPT !.ids = Joined(r)])]
        /\ pc' = [pc EXCEPT ![r] = "complete"]
    BY <1>8 DEF SingleReturn
  <2>2. saved' = [saved EXCEPT ![r] = done]
    BY <2>1
  <2>. HIDE DEF data
  <2>3. /\ done \in Responses /\ done.state = data.state /\ done.uuid = data.uuid
        /\ done.start = data.start /\ done.called = data.called /\ done.end = run[r].stamp
        /\ Len(done.ids) = IF Len(data.ids) <= job.response_length
                           THEN Len(data.ids) ELSE job.response_length
        /\ \A i \in 1..Len(done.ids) : done.ids[i] = data.ids[i]
    BY <1>2, <1>3, <1>5, CompletedFields
  <2>. HIDE DEF done
  <2>4. saved'[r] = done /\ pc'[r] = "complete"
    BY <1>2, <2>1, <2>2 DEF RowTypes
  <2>5. Len(done.ids) \in Nat /\ Len(data.ids) \in Nat /\ Len(done.ids) <= Len(data.ids)
    BY <1>3, <1>5, <2>3, ResponseFields
  <2>6. HandsOn(r, data)
    BY <2>3, <2>4, <2>5 DEF HandsOn
  <2>7. RowTypes'
    BY <1>1, <1>2, <1>4, <1>6, <2>1, <2>2, <2>3 DEF RowTypes
  <2>8. \A q \in JobRows \ {r} : pc'[q] = pc[q] /\ run'[q] = run[q] /\ saved'[q] = saved[q]
    BY <1>2, <1>6, <2>1, <2>2 DEF RowTypes
  <2>. QED
    BY <1>8, <2>4, <2>6, <2>7, <2>8 DEF data
<1>. QED
  BY <1>7, <1>8

\* The answer a tool agent's turn goes on with.
LEMMA AnsweredData ==
    ASSUME Types, NEW r \in JobRows
    PROVE  LET data == [saved[r] EXCEPT !.ids = Joined(r), !.state = NextState(r)]
           IN  /\ data \in Responses /\ data.state = NextState(r) /\ data.ids = Joined(r)
               /\ data.uuid = saved[r].uuid /\ data.start = saved[r].start
               /\ data.called = saved[r].called
<1>1. NextState(r) \in {"terminated", "generating", "processing_tools"}
  BY DEF NextState
<1>2. [saved[r] EXCEPT !.ids = Joined(r), !.state = NextState(r)] \in Responses
  BY <1>1, JoinedData
<1>3. saved[r] \in Responses
  BY JoinedData
<1>. QED
  BY <1>2, <1>3 DEF Responses

\* What a tool's answer leaves: one token more, if there is room for it.
LEMMA AfterToolsData ==
    ASSUME Types, NEW r \in JobRows
    PROVE  LET data == AfterTools(r)
               ids == saved[r].ids
           IN  /\ data \in Responses /\ data.uuid = saved[r].uuid /\ data.start = saved[r].start
               /\ data.called = saved[r].called + 1 /\ Len(ids) \in Nat
               /\ IF Len(ids) + 1 >= job.response_length
                  THEN data.state = "terminated" /\ data.ids = ids
                  ELSE /\ data.state = "generating"
                       /\ data.ids = Append(ids, Token(Len(ids) + 1, engine_version, "obs"))
                       /\ Len(data.ids) = Len(ids) + 1
                       /\ \A i \in 1..Len(ids) : data.ids[i] = ids[i]
                       /\ data.ids[Len(ids) + 1] = Token(Len(ids) + 1, engine_version, "obs")
<1>. DEFINE ids == saved[r].ids
            obs == Token(Len(ids) + 1, engine_version, "obs")
<1>1. saved[r] \in Responses /\ ids \in Seq(Tokens) /\ Len(ids) \in Nat /\ saved[r].called \in Nat
  <2>1. saved[r] \in Responses
    BY JoinedData
  <2>2. ids \in Seq(Tokens) /\ saved[r].called \in Nat
    BY <2>1, ResponseFields
  <2>3. Len(ids) \in Nat
    BY <2>2
  <2>. QED
    BY <2>1, <2>2, <2>3
<1>2. obs \in Tokens
  BY <1>1, TokenType DEF Types, SyncTypes
<1>. HIDE DEF obs
<1>3. /\ Append(ids, obs) \in Seq(Tokens) /\ Len(Append(ids, obs)) = Len(ids) + 1
      /\ \A i \in 1..Len(ids) : Append(ids, obs)[i] = ids[i]
      /\ Append(ids, obs)[Len(ids) + 1] = obs
  BY <1>1, <1>2
<1>4. CASE Len(ids) + 1 >= job.response_length
  <2>1. AfterTools(r) = [saved[r] EXCEPT !.called = @ + 1, !.state = "terminated"]
    BY <1>4 DEF AfterTools
  <2>2. saved[r].called + 1 \in Nat
    BY <1>1
  <2>3. /\ AfterTools(r) \in Responses /\ AfterTools(r).uuid = saved[r].uuid
        /\ AfterTools(r).start = saved[r].start /\ AfterTools(r).called = saved[r].called + 1
        /\ AfterTools(r).state = "terminated" /\ AfterTools(r).ids = ids
    BY <1>1, <2>1, <2>2, Zenon DEF Responses
  <2>. QED
    BY <1>1, <1>4, <2>3
<1>5. CASE ~(Len(ids) + 1 >= job.response_length)
  <2>1. AfterTools(r) = [saved[r] EXCEPT !.called = @ + 1, !.state = "generating",
                                          !.ids = Append(@, obs)]
    BY <1>5 DEF AfterTools, obs
  <2>2. /\ AfterTools(r) \in Responses /\ AfterTools(r).uuid = saved[r].uuid
        /\ AfterTools(r).start = saved[r].start /\ AfterTools(r).called = saved[r].called + 1
        /\ AfterTools(r).state = "generating" /\ AfterTools(r).ids = Append(ids, obs)
    <3>1. saved[r].called + 1 \in Nat
      BY <1>1
    <3>. QED
      BY <1>1, <1>3, <2>1, <3>1, Zenon DEF Responses
  <2>. QED
    BY <1>1, <1>3, <1>5, <2>2 DEF obs
<1>. QED
  BY <1>4, <1>5

\* What a call leaves: the run waits at a server for what follows the response so far.
LEMMA CallRow ==
    ASSUME Types, NEW r \in JobRows, Call(r), UNCHANGED <<job, saved>>
    PROVE  /\ RowTypes' /\ ManagerTypes'
           /\ pc'[r] = "sent" /\ run'[r].base = Len(saved[r].ids) /\ run'[r].stamp = run[r].stamp
           /\ \A q \in JobRows \ {r} : pc'[q] = pc[q] /\ run'[q] = run[q]
<1>1. JobRows' = JobRows
  BY DEF JobRows
<1>2. RowTypes /\ run[r] \in Runs /\ saved[r] \in Responses
  BY DEF Types, RowTypes
<1>3. Len(saved[r].ids) \in Nat
  <2>1. saved[r].ids \in Seq(Tokens)
    BY <1>2, ResponseFields
  <2>. QED
    BY <2>1
<1>4. pc' = [pc EXCEPT ![r] = "sent"]
  BY CallEffect
<1>5. PICK server \in Servers :
        run' = [run EXCEPT ![r].server = server, ![r].base = Len(saved[r].ids)]
  BY CallEffect
<1>. DEFINE new == [run[r] EXCEPT !.server = server, !.base = Len(saved[r].ids)]
<1>6. new \in Runs /\ new.base = Len(saved[r].ids) /\ new.stamp = run[r].stamp
  BY <1>2, <1>3, Zenon DEF Runs
<1>7. run' = [run EXCEPT ![r] = new]
  BY <1>2, <1>5 DEF RowTypes
<1>. HIDE DEF new
<1>8. run'[r] = new /\ pc'[r] = "sent"
  BY <1>2, <1>4, <1>7 DEF RowTypes
<1>9. RowTypes'
  BY <1>1, <1>2, <1>4, <1>6, <1>7 DEF RowTypes
<1>10. ManagerTypes'
  BY <1>1, CallEffect DEF ManagerTypes
<1>11. \A q \in JobRows \ {r} : pc'[q] = pc[q] /\ run'[q] = run[q]
  BY <1>2, <1>4, <1>7 DEF RowTypes
<1>. QED
  BY <1>6, <1>8, <1>9, <1>10, <1>11

\* The tables of the servers stay as they are.
LEMMA TablesKept ==
    ASSUME Types, UNCHANGED <<serverPaused, req_output, cancel_event>>
    PROVE  ServerTypes'
BY DEF Types, ServerTypes

\* A step of a run is a step of its response alone, and keeps the types.
LEMMA AgentLoopStep ==
    ASSUME Types, NEW r \in JobRows, AgentLoop(r)
    PROVE  Types' /\ RowStep(r)
<1>1. UNCHANGED <<job, syncVars, serverVars, cancellation_event>>
  BY DEF AgentLoop, SingleCall, SingleReturn, ToolInterrupted, ToolPending, ToolCall,
         ToolAnswered, ToolProcess, ToolsReturn
<1>2. SyncTypes' /\ ServerTypes' /\ JobRows' = JobRows
  BY <1>1, TablesKept DEF Types, SyncTypes, syncVars, serverVars, JobRows
<1>3. RowTypes /\ run[r] \in Runs /\ saved[r] \in Responses
  BY DEF Types, RowTypes
<1>. DEFINE Others == \A q \in JobRows \ {r} : /\ pc'[q] = pc[q] /\ run'[q] = run[q]
                                              /\ saved'[q] = saved[q]
<1>4. UNCHANGED managerVars => ManagerTypes'
  BY <1>2 DEF Types, ManagerTypes, managerVars
<1>5. RowTypes' /\ ManagerTypes' /\ Others
  <2>1. CASE SingleCall(r)
    BY <1>1, <2>1, CallRow DEF SingleCall
  <2>2. CASE SingleReturn(r)
    BY <1>4, <2>2, SingleReturnEffect DEF SingleReturn
  <2>3. CASE ToolInterrupted(r)
    <3>1. RowTypes'
      BY <1>2, <1>3, <2>3, NoRunType DEF ToolInterrupted, RowTypes
    <3>2. Others
      BY <1>3, <2>3 DEF ToolInterrupted, RowTypes
    <3>. QED
      BY <1>4, <2>3, <3>1, <3>2 DEF ToolInterrupted
  <2>4. CASE ToolPending(r)
    <3>. DEFINE new == [saved[r] EXCEPT !.state = "generating"]
    <3>1. new \in Responses
      BY <1>3, ResponseFields
    <3>2. saved' = [saved EXCEPT ![r] = new]
      BY <1>3, <2>4 DEF ToolPending
    <3>. HIDE DEF new
    <3>3. RowTypes'
      BY <1>2, <1>3, <2>4, <3>1, <3>2 DEF ToolPending, RowTypes
    <3>4. Others
      BY <1>3, <2>4, <3>2 DEF ToolPending, RowTypes
    <3>. QED
      BY <1>4, <2>4, <3>3, <3>4 DEF ToolPending
  <2>5. CASE ToolCall(r)
    BY <1>1, <2>5, CallRow DEF ToolCall
  <2>6. CASE ToolAnswered(r)
    <3>. DEFINE data == [saved[r] EXCEPT !.ids = Joined(r), !.state = NextState(r)]
    <3>1. data \in Responses
      BY AnsweredData
    <3>2. Proceed(r, data) /\ UNCHANGED managerVars
      BY <2>6 DEF ToolAnswered
    <3>. HIDE DEF data
    <3>. QED
      BY <1>1, <1>4, <3>1, <3>2, ProceedEffect
  <2>7. CASE ToolProcess(r)
    <3>1. RowTypes'
      BY <1>2, <1>3, <2>7 DEF ToolProcess, RowTypes
    <3>2. Others
      BY <1>3, <2>7 DEF ToolProcess, RowTypes
    <3>. QED
      BY <1>4, <2>7, <3>1, <3>2 DEF ToolProcess
  <2>8. CASE ToolsReturn(r)
    <3>1. AfterTools(r) \in Responses
      BY AfterToolsData
    <3>2. Proceed(r, AfterTools(r)) /\ UNCHANGED managerVars
      BY <2>8 DEF ToolsReturn
    <3>. QED
      BY <1>1, <1>4, <3>1, <3>2, ProceedEffect
  <2>. QED
    BY <2>1, <2>2, <2>3, <2>4, <2>5, <2>6, <2>7, <2>8 DEF AgentLoop
<1>6. RowStep(r)
  BY <1>1, <1>5 DEF RowStep, serverVars
<1>. QED
  BY <1>2, <1>5, <1>6 DEF Types

\* The entry of a request in a table, and the others.
LEMMA PutFields ==
    ASSUME NEW f, NEW k, NEW v
    PROVE  /\ DOMAIN Put(f, k, v) = DOMAIN f \union {k} /\ Put(f, k, v)[k] = v
           /\ \A x \in DOMAIN f \ {k} : Put(f, k, v)[x] = f[x]
BY DEF Put

\* The same of a table without it.
LEMMA PopFields ==
    ASSUME NEW f, NEW k
    PROVE  /\ DOMAIN Pop(f, k) = DOMAIN f \ {k}
           /\ \A x \in DOMAIN f \ {k} : Pop(f, k)[x] = f[x]
BY DEF Pop

\* The id of a request is its response's own.
LEMMA RequestIdType ==
    ASSUME Types, NEW r \in JobRows
    PROVE  RequestId(r) \in RequestIds /\ RequestId(r)[1] = r /\ RequestId(r)[2] = saved[r].uuid
<1>1. saved[r].uuid \in Nat
  BY ResponseFields DEF Types, RowTypes
<1>. QED
  BY <1>1, JobFacts DEF RequestId, RequestIds

\* An answer: only the run's reply and how it ended change.
LEMMA AnswerRow ==
    ASSUME Types, NEW r \in JobRows, NEW tokens \in Seq(Tokens), NEW cancelled \in BOOLEAN,
           Answer(r, tokens, cancelled), UNCHANGED <<job, saved>>
    PROVE  /\ RowTypes' /\ pc'[r] = "answered"
           /\ run'[r].reply = tokens /\ run'[r].is_cancel = cancelled
           /\ run'[r].stamp = run[r].stamp
           /\ \A q \in JobRows \ {r} : pc'[q] = pc[q] /\ run'[q] = run[q]
<1>1. JobRows' = JobRows
  BY DEF JobRows
<1>2. RowTypes /\ run[r] \in Runs
  BY DEF Types, RowTypes
<1>. DEFINE new == [run[r] EXCEPT !.reply = tokens, !.is_cancel = cancelled]
<1>3. new \in Runs
  BY <1>2, RunFields
<1>4. new.reply = tokens /\ new.is_cancel = cancelled /\ new.stamp = run[r].stamp
  BY <1>2, Zenon DEF Runs
<1>5. run' = [run EXCEPT ![r] = new] /\ pc' = [pc EXCEPT ![r] = "answered"]
  BY <1>2 DEF Answer, RowTypes
<1>. HIDE DEF new
<1>6. run'[r] = new /\ pc'[r] = "answered"
  BY <1>2, <1>5 DEF RowTypes
<1>7. RowTypes'
  BY <1>1, <1>2, <1>3, <1>5 DEF RowTypes
<1>8. \A q \in JobRows \ {r} : pc'[q] = pc[q] /\ run'[q] = run[q]
  BY <1>2, <1>5 DEF RowTypes
<1>. QED
  BY <1>4, <1>6, <1>7, <1>8

\* The output of a request that is served is in its server's table.
LEMMA OutputType ==
    ASSUME Types, NEW r \in JobRows, RequestId(r) \in DOMAIN req_output[run[r].server]
    PROVE  /\ run[r].server \in Servers /\ Output(r) \in Seq(Tokens) /\ IsCancelled(r) \in BOOLEAN
           /\ Len(Output(r)) \in Nat
<1>1. run[r].server \in Servers
  BY RunFields DEF Types, RowTypes
<1>2. Output(r) \in Seq(Tokens) /\ IsCancelled(r) \in BOOLEAN
  BY <1>1 DEF Types, ServerTypes, Output, IsCancelled
<1>. QED
  BY <1>1, <1>2

\* What registering does to the tables.
LEMMA RegisterTables ==
    ASSUME Types, NEW r \in JobRows, Register(r)
    PROVE  /\ ServerTypes' /\ run[r].server \in Servers
           /\ RequestId(r) \in DOMAIN req_output'[run[r].server]
           /\ req_output'[run[r].server][RequestId(r)] = None
           /\ cancel_event'[run[r].server][RequestId(r)] = FALSE
           /\ \A s \in Servers : \A id : s # run[r].server \/ id # RequestId(r) =>
                 /\ id \in DOMAIN req_output'[s] <=> id \in DOMAIN req_output[s]
                 /\ id \in DOMAIN req_output[s] => /\ req_output'[s][id] = req_output[s][id]
                                                   /\ cancel_event'[s][id] = cancel_event[s][id]
<1>. DEFINE s == run[r].server
            id == RequestId(r)
            outputs == Put(req_output[s], id, None)
            events == Put(cancel_event[s], id, FALSE)
<1>1. s \in Servers /\ id \in RequestIds /\ ServerTypes
  BY RunFields, RequestIdType DEF Types, RowTypes
<1>2. /\ req_output' = [req_output EXCEPT ![s] = outputs]
      /\ cancel_event' = [cancel_event EXCEPT ![s] = events]
      /\ serverPaused' = serverPaused
  BY DEF Register
<1>3. /\ DOMAIN outputs = DOMAIN req_output[s] \union {id} /\ outputs[id] = None
      /\ \A x \in DOMAIN req_output[s] \ {id} : outputs[x] = req_output[s][x]
      /\ DOMAIN events = DOMAIN cancel_event[s] \union {id} /\ events[id] = FALSE
      /\ \A x \in DOMAIN cancel_event[s] \ {id} : events[x] = cancel_event[s][x]
  BY Zenon DEF Put
<1>. HIDE DEF outputs, events, s, id
<1>4. /\ req_output'[s] = outputs /\ cancel_event'[s] = events
      /\ DOMAIN req_output' = Servers /\ DOMAIN cancel_event' = Servers
      /\ \A t \in Servers \ {s} : req_output'[t] = req_output[t] /\ cancel_event'[t] = cancel_event[t]
  BY <1>1, <1>2 DEF ServerTypes
<1>5. None \in Seq(Tokens)
  BY DEF None
<1>6. ASSUME NEW t \in Servers
      PROVE  /\ DOMAIN req_output'[t] = DOMAIN cancel_event'[t]
             /\ DOMAIN req_output'[t] \subseteq RequestIds
             /\ \A x \in DOMAIN req_output'[t] : /\ req_output'[t][x] \in Seq(Tokens)
                                                 /\ cancel_event'[t][x] \in BOOLEAN
  <2>1. CASE t = s
    <3>1. /\ DOMAIN req_output[s] = DOMAIN cancel_event[s]
          /\ DOMAIN req_output[s] \subseteq RequestIds
          /\ \A x \in DOMAIN req_output[s] : /\ req_output[s][x] \in Seq(Tokens)
                                             /\ cancel_event[s][x] \in BOOLEAN
      BY <1>1 DEF ServerTypes
    <3>2. DOMAIN outputs = DOMAIN events /\ DOMAIN outputs \subseteq RequestIds
      BY <1>1, <1>3, <3>1
    <3>3. \A x \in DOMAIN outputs : outputs[x] \in Seq(Tokens)
      BY <1>3, <1>5, <3>1
    <3>4. \A x \in DOMAIN outputs : events[x] \in BOOLEAN
      BY <1>3, <3>1, Zenon
    <3>. QED
      BY <1>4, <2>1, <3>2, <3>3, <3>4, Zenon
  <2>2. CASE t # s
    BY <1>1, <1>4, <2>2, Zenon DEF ServerTypes
  <2>. QED
    BY <2>1, <2>2
<1>7. ServerTypes'
  BY <1>1, <1>2, <1>4, <1>6 DEF ServerTypes
<1>8. \A t \in Servers : \A x : t # s \/ x # id =>
          /\ x \in DOMAIN req_output'[t] <=> x \in DOMAIN req_output[t]
          /\ x \in DOMAIN req_output[t] => /\ req_output'[t][x] = req_output[t][x]
                                           /\ cancel_event'[t][x] = cancel_event[t][x]
  <2>1. DOMAIN req_output[s] = DOMAIN cancel_event[s]
    BY <1>1 DEF ServerTypes
  <2>. QED
    BY <1>3, <1>4, <2>1
<1>. QED
  BY <1>1, <1>3, <1>4, <1>7, <1>8 DEF s, id

\* What the engine's output does to the tables: one token more for its request.
LEMMA EngineOutputTables ==
    ASSUME Types, NEW r \in JobRows, EngineOutput(r),
           RequestId(r) \in DOMAIN req_output[run[r].server]
    PROVE  /\ ServerTypes'
           /\ \E kind \in TurnTokens(saved[r].ids \o Output(r)) :
                 req_output'[run[r].server][RequestId(r)] =
                    Append(Output(r), Token(run[r].base + Len(Output(r)) + 1,
                                            engine_version, kind))
           /\ cancel_event' = cancel_event
           /\ \A s \in Servers : DOMAIN req_output'[s] = DOMAIN req_output[s]
           /\ \A s \in Servers : \A id \in DOMAIN req_output[s] :
                 s # run[r].server \/ id # RequestId(r) => req_output'[s][id] = req_output[s][id]
<1>. DEFINE s == run[r].server
            id == RequestId(r)
<1>1. /\ s \in Servers /\ id \in RequestIds /\ ServerTypes /\ id \in DOMAIN req_output[s]
      /\ run[r] \in Runs /\ engine_version \in Nat
  BY RunFields, RequestIdType DEF Types, RowTypes, SyncTypes
<1>2. Output(r) \in Seq(Tokens) /\ Len(Output(r)) \in Nat
  BY OutputType
<1>3. run[r].base \in Nat
  BY <1>1, RunFields
<1>4. PICK kind \in TurnTokens(saved[r].ids \o Output(r)) :
        req_output' = [req_output EXCEPT ![s][id] =
                          Append(Output(r), Token(run[r].base + Len(Output(r)) + 1,
                                                  engine_version, kind))]
  BY DEF EngineOutput
<1>. DEFINE tokens == Append(Output(r), Token(run[r].base + Len(Output(r)) + 1,
                                              engine_version, kind))
<1>5. tokens \in Seq(Tokens)
  <2>1. kind \in {"text", "eos", "open", "close", "obs"}
    BY DEF TurnTokens
  <2>2. run[r].base + Len(Output(r)) + 1 \in Nat
    BY <1>2, <1>3
  <2>3. Token(run[r].base + Len(Output(r)) + 1, engine_version, kind) \in Tokens
    BY <1>1, <2>1, <2>2, TokenType
  <2>. QED
    BY <1>2, <2>3
<1>6. req_output' = [req_output EXCEPT ![s] = [req_output[s] EXCEPT ![id] = tokens]]
      /\ UNCHANGED <<serverPaused, cancel_event>>
  BY <1>1, <1>4 DEF ServerTypes, EngineOutput
<1>. HIDE DEF s, id, tokens
<1>7. /\ DOMAIN req_output' = Servers /\ req_output'[s][id] = tokens
      /\ \A t \in Servers : DOMAIN req_output'[t] = DOMAIN req_output[t]
      /\ \A t \in Servers : \A x \in DOMAIN req_output[t] :
            t # s \/ x # id => req_output'[t][x] = req_output[t][x]
  BY <1>1, <1>6 DEF ServerTypes
<1>8. \A t \in Servers : \A x \in DOMAIN req_output[t] : req_output'[t][x] \in Seq(Tokens)
  BY <1>1, <1>5, <1>7 DEF ServerTypes
<1>9. ServerTypes'
  BY <1>1, <1>6, <1>7, <1>8 DEF ServerTypes
<1>. QED
  BY <1>6, <1>7, <1>9 DEF s, id, tokens

\* What an answer with output does to the tables: the request is gone from both.
LEMMA AnswerOutputTables ==
    ASSUME Types, NEW r \in JobRows, AnswerOutput(r)
    PROVE  /\ ServerTypes'
           /\ \A s \in Servers : \A id :
                 /\ id \in DOMAIN req_output'[s] <=>
                       id \in DOMAIN req_output[s] /\ (s # run[r].server \/ id # RequestId(r))
                 /\ id \in DOMAIN req_output'[s] => /\ req_output'[s][id] = req_output[s][id]
                                                    /\ cancel_event'[s][id] = cancel_event[s][id]
<1>. DEFINE s == run[r].server
            id == RequestId(r)
            outputs == Pop(req_output[s], id)
            events == Pop(cancel_event[s], id)
<1>1. s \in Servers /\ ServerTypes
  BY RunFields DEF Types, RowTypes
<1>2. /\ req_output' = [req_output EXCEPT ![s] = outputs]
      /\ cancel_event' = [cancel_event EXCEPT ![s] = events]
      /\ serverPaused' = serverPaused
  BY <1>1 DEF AnswerOutput, PopRequest, ServerTypes
<1>3. /\ DOMAIN outputs = DOMAIN req_output[s] \ {id}
      /\ \A x \in DOMAIN req_output[s] \ {id} : outputs[x] = req_output[s][x]
      /\ DOMAIN events = DOMAIN cancel_event[s] \ {id}
      /\ \A x \in DOMAIN cancel_event[s] \ {id} : events[x] = cancel_event[s][x]
  BY PopFields, Zenon
<1>. HIDE DEF outputs, events, s, id
<1>4. /\ req_output'[s] = outputs /\ cancel_event'[s] = events
      /\ DOMAIN req_output' = Servers /\ DOMAIN cancel_event' = Servers
      /\ \A t \in Servers \ {s} : req_output'[t] = req_output[t] /\ cancel_event'[t] = cancel_event[t]
  BY <1>1, <1>2 DEF ServerTypes
<1>5. DOMAIN req_output[s] = DOMAIN cancel_event[s]
  BY <1>1 DEF ServerTypes
<1>6. \A t \in Servers : \A x :
          /\ x \in DOMAIN req_output'[t] <=> x \in DOMAIN req_output[t] /\ (t # s \/ x # id)
          /\ x \in DOMAIN req_output'[t] => /\ req_output'[t][x] = req_output[t][x]
                                            /\ cancel_event'[t][x] = cancel_event[t][x]
  BY <1>3, <1>4, <1>5
<1>7. \A t \in Servers : DOMAIN req_output'[t] = DOMAIN cancel_event'[t]
  BY <1>1, <1>3, <1>4, <1>5 DEF ServerTypes
<1>8. ASSUME NEW t \in Servers
      PROVE  /\ DOMAIN req_output'[t] \subseteq RequestIds
             /\ \A x \in DOMAIN req_output'[t] : /\ req_output'[t][x] \in Seq(Tokens)
                                                 /\ cancel_event'[t][x] \in BOOLEAN
  <2>1. /\ DOMAIN req_output[t] \subseteq RequestIds
        /\ \A x \in DOMAIN req_output[t] : /\ req_output[t][x] \in Seq(Tokens)
                                           /\ cancel_event[t][x] \in BOOLEAN
    BY <1>1 DEF ServerTypes
  <2>. QED
    BY <1>6, <2>1, Zenon
<1>9. ServerTypes'
  BY <1>1, <1>2, <1>4, <1>7, <1>8 DEF ServerTypes
<1>. QED
  BY <1>6, <1>9 DEF s, id

\* A step of a server is a step of one response, and keeps the types.
LEMMA ServeStep ==
    ASSUME Types, NEW r \in JobRows, Served(r), Serve(r)
    PROVE  Types' /\ RowStep(r)
<1>1. UNCHANGED <<job, syncVars, serverPaused, cancellation_event, managerVars, saved>>
  BY DEF Serve, Refuse, Register, EngineOutput, AnswerEmpty, AnswerOutput, serverVars,
         rowVars
<1>2. SyncTypes' /\ ManagerTypes' /\ JobRows' = JobRows
  BY <1>1 DEF Types, SyncTypes, ManagerTypes, syncVars, managerVars, JobRows
<1>3. RequestId(r)[1] = r
  BY RequestIdType
<1>4. RowTypes
  BY DEF Types, RowTypes
<1>. DEFINE Rest == \A q \in JobRows \ {r} : pc'[q] = pc[q] /\ run'[q] = run[q]
            Tables == \A s \in Servers : \A id : id[1] # r =>
                         /\ id \in DOMAIN req_output'[s] <=> id \in DOMAIN req_output[s]
                         /\ id \in DOMAIN req_output[s] =>
                               /\ req_output'[s][id] = req_output[s][id]
                               /\ cancel_event'[s][id] = cancel_event[s][id]
<1>5. RowTypes' /\ ServerTypes' /\ Rest /\ Tables
  <2>1. UNCHANGED serverVars => ServerTypes' /\ Tables
    BY TablesKept DEF serverVars
  <2>2. <<>> \in Seq(Tokens)
    OBVIOUS
  <2>3. CASE Refuse(r)
    <3>1. Answer(r, <<>>, TRUE) /\ UNCHANGED serverVars
      BY <2>3 DEF Refuse
    <3>2. RowTypes' /\ Rest
      BY <1>1, <2>2, <3>1, AnswerRow
    <3>. QED
      BY <2>1, <3>1, <3>2
  <2>4. CASE Register(r)
    <3>1. pc' = [pc EXCEPT ![r] = "generating"] /\ run' = run
      BY <2>4 DEF Register
    <3>2. RowTypes' /\ Rest
      BY <1>1, <1>2, <1>4, <3>1 DEF RowTypes
    <3>3. ServerTypes' /\ Tables
      BY <1>3, <2>4, RegisterTables
    <3>. QED
      BY <3>2, <3>3
  <2>5. CASE EngineOutput(r)
    <3>1. RequestId(r) \in DOMAIN req_output[run[r].server] /\ UNCHANGED rowVars
      BY <2>5 DEF EngineOutput, Served
    <3>2. RowTypes' /\ Rest
      BY <1>2, <1>4, <3>1 DEF RowTypes, rowVars
    <3>3. ServerTypes' /\ Tables
      BY <1>3, <2>5, <3>1, EngineOutputTables
    <3>. QED
      BY <3>2, <3>3
  <2>6. CASE AnswerEmpty(r)
    <3>1. Answer(r, <<>>, TRUE) /\ UNCHANGED serverVars
      BY <2>6 DEF AnswerEmpty
    <3>2. RowTypes' /\ Rest
      BY <1>1, <2>2, <3>1, AnswerRow
    <3>. QED
      BY <2>1, <3>1, <3>2
  <2>7. CASE AnswerOutput(r)
    <3>1. RequestId(r) \in DOMAIN req_output[run[r].server] /\ Answer(r, Output(r), ~Generated(r))
      BY <2>7 DEF AnswerOutput, Served
    <3>2. Output(r) \in Seq(Tokens) /\ (~Generated(r)) \in BOOLEAN
      <4>1. Output(r) \in Seq(Tokens)
        BY <3>1, OutputType
      <4>2. (~Generated(r)) \in BOOLEAN
        BY Zenon DEF Generated
      <4>. QED
        BY <4>1, <4>2
    <3>3. RowTypes' /\ Rest
      BY <1>1, <3>1, <3>2, AnswerRow
    <3>4. ServerTypes' /\ Tables
      BY <1>3, <2>7, AnswerOutputTables
    <3>. QED
      BY <3>3, <3>4
  <2>. QED
    BY <2>3, <2>4, <2>5, <2>6, <2>7 DEF Serve
<1>6. RowStep(r)
  BY <1>1, <1>5 DEF RowStep
<1>. QED
  BY <1>2, <1>5, <1>6 DEF Types

-----------------------------------------------------------------------------
(* The synchronization *)

\* A step of a synchronization leaves the responses, the manager and the outputs alone.
LEMMA SynchronizeFrame ==
    ASSUME Synchronize
    PROVE  UNCHANGED <<job, pc, run, saved, load, session, req_output>>
BY DEF Synchronize, Pause, Cancelled, WeightsWritten, StartResume, DeliverCancel, DeliverResume,
       CancelServer, serverVars, managerVars, rowVars

\* A cancelled server marks the requests it has.
LEMMA CancelTables ==
    ASSUME Types, NEW t \in Servers, CancelServer(t)
    PROVE  /\ ServerTypes' /\ serverPaused' = [serverPaused EXCEPT ![t] = TRUE]
           /\ req_output' = req_output
           /\ \A s \in Servers \ {t} : cancel_event'[s] = cancel_event[s]
<1>1. ServerTypes
  BY DEF Types
<1>. DEFINE events == [id \in DOMAIN cancel_event[t] |-> TRUE]
<1>2. /\ serverPaused' = [serverPaused EXCEPT ![t] = TRUE]
      /\ cancel_event' = [cancel_event EXCEPT ![t] = events]
      /\ req_output' = req_output
  BY <1>1 DEF CancelServer, ServerTypes
<1>3. DOMAIN events = DOMAIN cancel_event[t] /\ \A id \in DOMAIN events : events[id] \in BOOLEAN
  BY Zenon
<1>. HIDE DEF events
<1>4. /\ DOMAIN cancel_event' = Servers /\ cancel_event'[t] = events
      /\ \A s \in Servers \ {t} : cancel_event'[s] = cancel_event[s]
  BY <1>1, <1>2 DEF ServerTypes
<1>5. ASSUME NEW s \in Servers
      PROVE  /\ DOMAIN req_output'[s] = DOMAIN cancel_event'[s]
             /\ DOMAIN req_output'[s] \subseteq RequestIds
             /\ \A id \in DOMAIN req_output'[s] : /\ req_output'[s][id] \in Seq(Tokens)
                                                  /\ cancel_event'[s][id] \in BOOLEAN
  <2>1. CASE s = t
    <3>1. DOMAIN req_output[t] = DOMAIN cancel_event[t]
      BY <1>1 DEF ServerTypes
    <3>2. /\ DOMAIN req_output'[t] \subseteq RequestIds
          /\ \A id \in DOMAIN req_output'[t] : req_output'[t][id] \in Seq(Tokens)
      BY <1>1, <1>2 DEF ServerTypes
    <3>. QED
      BY <1>2, <1>3, <1>4, <2>1, <3>1, <3>2, Zenon
  <2>2. CASE s # t
    BY <1>1, <1>2, <1>4, <2>2, Zenon DEF ServerTypes
  <2>. QED
    BY <2>1, <2>2
<1>6. serverPaused' \in [Servers -> BOOLEAN]
  BY <1>1, <1>2 DEF ServerTypes
<1>7. ServerTypes'
  BY <1>1, <1>2, <1>4, <1>5, <1>6 DEF ServerTypes
<1>. QED
  BY <1>2, <1>4, <1>7

\* A synchronization keeps the types.
LEMMA SynchronizeTypes ==
    ASSUME Types, Synchronize
    PROVE  Types'
<1>1. UNCHANGED <<job, pc, run, saved, load, session, req_output>>
  BY SynchronizeFrame
<1>2. RowTypes' /\ ManagerTypes'
  BY <1>1 DEF Types, RowTypes, ManagerTypes, JobRows
<1>3. SyncTypes'
  <2>1. SyncTypes
    BY DEF Types
  <2>2. cancellation_event' \in BOOLEAN
    BY <2>1 DEF SyncTypes, Synchronize, Pause, Cancelled, WeightsWritten, StartResume,
                DeliverCancel, DeliverResume
  <2>3. /\ phase' \in {"run", "cancel", "write", "written", "resume"}
        /\ undelivered' \subseteq Targets
        /\ engine_version' \in Nat /\ current_param_version' \in Nat
    BY <2>1 DEF SyncTypes, Synchronize, Pause, Cancelled, WeightsWritten, StartResume,
                DeliverCancel, DeliverResume
  <2>. QED
    BY <1>1, <2>1, <2>2, <2>3 DEF SyncTypes
<1>4. ServerTypes'
  <2>1. CASE serverPaused' = serverPaused /\ cancel_event' = cancel_event
    BY <1>1, <2>1, TablesKept
  <2>2. ASSUME NEW t \in Servers, CancelServer(t)
        PROVE  ServerTypes'
    BY <2>2, CancelTables
  <2>3. ASSUME NEW t \in Servers, serverPaused' = [serverPaused EXCEPT ![t] = FALSE],
               cancel_event' = cancel_event
        PROVE  ServerTypes'
    BY <1>1, <2>3 DEF Types, ServerTypes
  <2>4. \/ serverPaused' = serverPaused /\ cancel_event' = cancel_event
        \/ \E t \in Servers : CancelServer(t)
        \/ \E t \in Servers : serverPaused' = [serverPaused EXCEPT ![t] = FALSE]
                              /\ cancel_event' = cancel_event
    BY DEF Synchronize, Pause, Cancelled, WeightsWritten, StartResume, DeliverCancel,
           DeliverResume, serverVars, Targets
  <2>. QED
    BY <2>1, <2>2, <2>3, <2>4
<1>. QED
  BY <1>2, <1>3, <1>4 DEF Types

\* Who has been told of a synchronization is right after each of its steps.
LEMMA SynchronizeSyncInv ==
    ASSUME Types, SyncInv, Synchronize
    PROVE  SyncInv'
<1>1. /\ phase \in {"run", "cancel", "write", "written", "resume"} /\ undelivered \subseteq Targets
      /\ engine_version \in Nat /\ current_param_version \in Nat
      /\ serverPaused \in [Servers -> BOOLEAN] /\ job.syncs \in Nat
  BY JobFacts DEF Types, SyncTypes, ServerTypes
<1>2. Servers \subseteq Targets /\ Worker \in Targets /\ Worker \notin Servers
  BY DEF Targets, Worker, Servers
<1>3. job' = job
  BY SynchronizeFrame
<1>4. \A s \in Servers : serverPaused'[s] <=> Told(s)'
  <2>1. CASE Pause \/ Cancelled \/ WeightsWritten \/ StartResume
    BY <1>1, <1>2, <2>1 DEF Pause, Cancelled, WeightsWritten, StartResume, serverVars, SyncInv, Told
  <2>2. ASSUME NEW t \in Targets, DeliverCancel(t)
        PROVE  \A s \in Servers : serverPaused'[s] <=> Told(s)'
    BY <1>1, <1>2, <2>2 DEF DeliverCancel, CancelServer, serverVars, SyncInv, Told, Targets
  <2>3. ASSUME NEW t \in Targets, DeliverResume(t)
        PROVE  \A s \in Servers : serverPaused'[s] <=> Told(s)'
    BY <1>1, <1>2, <2>3 DEF DeliverResume, SyncInv, Told, Targets
  <2>. QED
    BY <2>1, <2>2, <2>3 DEF Synchronize
<1>5. cancellation_event' <=> Told(Worker)'
  <2>1. CASE Pause \/ Cancelled \/ WeightsWritten \/ StartResume
    BY <1>1, <1>2, <2>1 DEF Pause, Cancelled, WeightsWritten, StartResume, SyncInv, Told
  <2>2. ASSUME NEW t \in Targets, DeliverCancel(t)
        PROVE  cancellation_event' <=> Told(Worker)'
    BY <1>1, <1>2, <2>2 DEF DeliverCancel, SyncInv, Told
  <2>3. ASSUME NEW t \in Targets, DeliverResume(t)
        PROVE  cancellation_event' <=> Told(Worker)'
    BY <1>1, <1>2, <2>3 DEF DeliverResume, SyncInv, Told
  <2>. QED
    BY <2>1, <2>2, <2>3 DEF Synchronize
<1>6. /\ engine_version' = current_param_version' + (IF phase' = "written" THEN 1 ELSE 0)
      /\ engine_version' <= job.syncs
      /\ phase' \in {"cancel", "write"} => engine_version' < job.syncs
  BY <1>1 DEF Synchronize, Pause, Cancelled, WeightsWritten, StartResume, DeliverCancel,
              DeliverResume, SyncInv
<1>. QED
  BY <1>3, <1>4, <1>5, <1>6 DEF SyncInv

\* Under a synchronization a response's request is cancelled with its server, and none
\* is served from when the weights are about to be written to when its server resumes.
LEMMA SynchronizeRowInv ==
    ASSUME Types, SyncInv, NEW r \in JobRows, RowInv(r), Synchronize
    PROVE  RowInv(r)'
<1>1. UNCHANGED <<job, pc, run, saved, load, session, req_output>>
  BY SynchronizeFrame
<1>2. /\ phase \in {"run", "cancel", "write", "written", "resume"}
      /\ engine_version \in Nat /\ current_param_version \in Nat
  BY DEF Types, SyncTypes
<1>3. Servers \subseteq Targets /\ Worker \notin Servers
  BY DEF Targets, Worker, Servers
<1>4. saved[r] \in Responses /\ run[r] \in Runs
  BY DEF Types, RowTypes
<1>5. /\ saved[r].ids \in Seq(Tokens) /\ saved[r].start \in Nat /\ saved[r].end \in Nat
      /\ run[r].stamp \in Nat /\ run[r].server \in Servers
  BY <1>4, RunFields, ResponseFields
<1>6. /\ saved'[r] = saved[r] /\ pc'[r] = pc[r] /\ run'[r] = run[r] /\ RequestId(r)' = RequestId(r)
      /\ Over(r)' = Over(r) /\ Output(r)' = Output(r)
  BY <1>1 DEF RequestId, Over, Output
<1>7. Served(r)'
  <2>1. ASSUME pc[r] = "generating"
        PROVE  /\ RequestId(r) \in DOMAIN req_output[run[r].server]
               /\ OfRequest(Output(r), Len(saved[r].ids), engine_version)
               /\ IsCancelled(r) => serverPaused[run[r].server]
               /\ serverPaused[run[r].server] => phase = "cancel"
    BY <2>1 DEF RowInv, Served
  <2>2. ASSUME pc[r] = "generating"
        PROVE  engine_version' = engine_version
    BY <1>5, <2>1, <2>2 DEF SyncInv, Told, Synchronize, Pause, Cancelled, WeightsWritten,
                            StartResume, DeliverCancel, DeliverResume
  <2>3. ASSUME pc[r] = "generating"
        PROVE  /\ IsCancelled(r)' => serverPaused'[run[r].server]
               /\ serverPaused'[run[r].server] => phase' = "cancel"
    <3>1. CASE Pause
      BY <1>5, <1>6, <2>1, <2>3, <3>1 DEF Pause, serverVars, IsCancelled
    <3>2. CASE Cancelled \/ WeightsWritten \/ StartResume
      BY <1>5, <1>6, <2>1, <2>3, <3>2
         DEF SyncInv, Told, Cancelled, Over, WeightsWritten, StartResume
    <3>3. ASSUME NEW t \in Targets, DeliverCancel(t)
          PROVE  /\ IsCancelled(r)' => serverPaused'[run[r].server]
                 /\ serverPaused'[run[r].server] => phase' = "cancel"
      <4>1. phase' = "cancel"
        BY <3>3 DEF DeliverCancel
      <4>2. CASE t = run[r].server
        <5>1. CancelServer(t) /\ t \in Servers
          BY <1>3, <1>5, <3>3, <4>2 DEF DeliverCancel
        <5>2. serverPaused'[t] = TRUE
          BY <5>1, CancelTables DEF Types, ServerTypes
        <5>. QED
          BY <4>1, <4>2, <5>2
      <4>3. CASE t \in Servers \ {run[r].server}
        <5>1. CancelServer(t)
          BY <1>3, <3>3, <4>3 DEF DeliverCancel
        <5>2. /\ serverPaused' = [serverPaused EXCEPT ![t] = TRUE]
              /\ cancel_event'[run[r].server] = cancel_event[run[r].server]
          BY <1>5, <4>3, <5>1, CancelTables
        <5>3. serverPaused'[run[r].server] = serverPaused[run[r].server]
          BY <1>5, <4>3, <5>2 DEF Types, ServerTypes
        <5>. QED
          BY <1>6, <2>1, <2>3, <4>1, <5>2, <5>3 DEF IsCancelled
      <4>4. CASE t = Worker
        BY <1>6, <2>1, <2>3, <3>3, <4>1, <4>4 DEF DeliverCancel, serverVars, IsCancelled
      <4>. QED
        BY <4>2, <4>3, <4>4 DEF Targets
    <3>4. ASSUME NEW t \in Targets, DeliverResume(t)
          PROVE  /\ IsCancelled(r)' => serverPaused'[run[r].server]
                 /\ serverPaused'[run[r].server] => phase' = "cancel"
      <4>1. phase = "resume" /\ cancel_event' = cancel_event
        BY <3>4 DEF DeliverResume
      <4>2. ~serverPaused[run[r].server] /\ ~IsCancelled(r)
        BY <2>1, <2>3, <4>1
      <4>3. ~serverPaused'[run[r].server]
        BY <1>5, <3>4, <4>2 DEF DeliverResume, Types, ServerTypes
      <4>. QED
        BY <1>6, <4>1, <4>2, <4>3 DEF IsCancelled
    <3>. QED
      BY <3>1, <3>2, <3>3, <3>4 DEF Synchronize
  <2>. QED
    BY <1>1, <1>6, <2>1, <2>2, <2>3 DEF Served
<1>8. Answered(r)'
  <2>1. ASSUME pc[r] = "answered"
        PROVE  /\ OfRequest(run[r].reply, Len(saved[r].ids), engine_version)
               /\ run[r].reply = <<>> => run[r].is_cancel
               /\ phase = "write" => run[r].reply = <<>>
    BY <2>1 DEF RowInv, Answered
  <2>2. CASE WeightsWritten
    <3>1. ASSUME pc[r] = "answered"
          PROVE  run[r].reply = <<>>
      BY <2>1, <2>2, <3>1 DEF WeightsWritten
    <3>2. Len(<<>>) = 0
      OBVIOUS
    <3>3. ASSUME pc[r] = "answered"
          PROVE  OfRequest(run[r].reply, Len(saved[r].ids), engine_version')
      BY <3>1, <3>2, <3>3 DEF OfRequest
    <3>. QED
      BY <1>6, <2>1, <3>1, <3>3 DEF Answered
  <2>3. CASE ~WeightsWritten
    <3>1. engine_version' = engine_version
      BY <2>3 DEF Synchronize, Pause, Cancelled, StartResume, DeliverCancel, DeliverResume
    <3>2. ASSUME pc[r] = "answered"
          PROVE  phase' # "write"
      BY <2>1, <2>3, <3>2 DEF Synchronize, Pause, Cancelled, Over, StartResume, DeliverCancel,
                              DeliverResume
    <3>. QED
      BY <1>6, <2>1, <3>1, <3>2 DEF Answered
  <2>. QED
    BY <2>2, <2>3
<1>9. Running(r)'
  <2>1. Running(r)
    BY DEF RowInv
  <2>2. multi_turn' = multi_turn
    BY <1>1 DEF multi_turn
  <2>3. pc[r] = "tools" => phase' # "write"
    BY <2>1 DEF Running, Synchronize, Pause, Cancelled, Over, WeightsWritten, StartResume,
                DeliverCancel, DeliverResume
  <2>4. ~Over(r) => /\ engine_version' <= run[r].stamp + 1
                    /\ phase' = "write" => engine_version' <= run[r].stamp
    BY <1>2, <1>5, <2>1 DEF Running, Synchronize, Pause, Cancelled, WeightsWritten,
                            StartResume, DeliverCancel, DeliverResume
  <2>5. saved[r].start <= current_param_version'
    BY <1>2, <1>5, <2>1 DEF SyncInv, Running, Synchronize, Pause, Cancelled, WeightsWritten,
                            StartResume, DeliverCancel, DeliverResume
  <2>. QED
    BY <1>1, <1>6, <2>1, <2>2, <2>3, <2>4, <2>5 DEF Running
<1>10. Versions(r)'
  <2>1. engine_version' \in Nat /\ engine_version <= engine_version'
    BY <1>2 DEF Synchronize, Pause, Cancelled, WeightsWritten, StartResume, DeliverCancel,
                DeliverResume
  <2>2. \A i \in 1..Len(saved[r].ids) : saved[r].ids[i].ver \in Nat
    BY <1>5, TokenFields
  <2>. QED
    BY <1>2, <1>6, <2>1, <2>2 DEF RowInv, Versions
<1>11. CallsAndAnswers(r)'
  BY <1>6 DEF RowInv, CallsAndAnswers
<1>. QED
  BY <1>7, <1>8, <1>9, <1>10, <1>11 DEF RowInv

\* A step of one response leaves what is known of the others.
LEMMA OthersRowInv ==
    ASSUME Types, NEW r \in JobRows, RowStep(r), NEW q \in JobRows, q # r, RowInv(q)
    PROVE  RowInv(q)'
<1>1. /\ pc'[q] = pc[q] /\ run'[q] = run[q] /\ saved'[q] = saved[q]
      /\ UNCHANGED <<job, syncVars, serverPaused, cancellation_event>>
  BY DEF RowStep
<1>2. RequestId(q)[1] = q /\ RequestId(q)' = RequestId(q) /\ run[q].server \in Servers
  BY <1>1, RequestIdType, RunFields DEF Types, RowTypes, RequestId
<1>3. Served(q)'
  <2>1. ASSUME pc[q] = "generating"
        PROVE  /\ RequestId(q) \in DOMAIN req_output'[run[q].server]
               /\ req_output'[run[q].server][RequestId(q)] = Output(q)
               /\ cancel_event'[run[q].server][RequestId(q)] = IsCancelled(q)
    BY <1>2, <2>1 DEF RowInv, Served, RowStep, Output, IsCancelled
  <2>2. ASSUME pc[q] = "generating"
        PROVE  Output(q)' = Output(q) /\ IsCancelled(q)' = IsCancelled(q)
    BY <1>1, <1>2, <2>1, <2>2 DEF Output, IsCancelled
  <2>. QED
    BY <1>1, <1>2, <2>1, <2>2 DEF RowInv, Served, syncVars
<1>4. Answered(q)'
  BY <1>1 DEF RowInv, Answered, syncVars
<1>5. Running(q)'
  BY <1>1 DEF RowInv, Running, syncVars, multi_turn, Over
<1>6. Versions(q)'
  BY <1>1 DEF RowInv, Versions, syncVars
<1>7. CallsAndAnswers(q)'
  BY <1>1 DEF RowInv, CallsAndAnswers
<1>. QED
  BY <1>3, <1>4, <1>5, <1>6, <1>7 DEF RowInv

\* The entries of r's own requests.
OwnEntries(r) ==
    \A s \in Servers : \A id \in DOMAIN req_output[s] :
        id[1] = r => \/ Serving(r, s) /\ RequestId(r) = id
                     \/ id[2] < Pauses /\ req_output[s][id] = None

\* What is known of the entries, when a response's own are as they should be.
LEMMA EntriesFromOwn ==
    ASSUME Types, IdsInv, LeftoversAreEmpty, NEW r \in JobRows, RowStep(r),
           saved'[r].uuid = saved[r].uuid, OwnEntries(r)'
    PROVE  IdsInv' /\ LeftoversAreEmpty'
<1>1. /\ \A q \in JobRows \ {r} : pc'[q] = pc[q] /\ run'[q] = run[q] /\ saved'[q] = saved[q]
      /\ JobRows' = JobRows /\ Pauses' = Pauses /\ phase' = phase
  BY DEF RowStep, JobRows, Pauses, syncVars
<1>2. ASSUME NEW q \in JobRows
      PROVE  saved'[q].uuid <= Pauses' /\ (phase' = "cancel" => saved'[q].uuid < Pauses')
  <2>1. saved'[q].uuid = saved[q].uuid
    BY <1>1
  <2>. QED
    BY <1>1, <2>1 DEF IdsInv
<1>3. ASSUME NEW s \in Servers, NEW id \in DOMAIN req_output'[s], id[1] # r
      PROVE  /\ id[2] < Pauses' \/ \E q \in JobRows : Serving(q, s)' /\ RequestId(q)' = id
             /\ \/ req_output'[s][id] = None
                \/ \E q \in JobRows : Serving(q, s)' /\ RequestId(q)' = id
  <2>1. id \in DOMAIN req_output[s] /\ req_output'[s][id] = req_output[s][id]
    BY <1>3 DEF RowStep
  <2>2. ASSUME NEW q \in JobRows, Serving(q, s), RequestId(q) = id
        PROVE  Serving(q, s)' /\ RequestId(q)' = id
    <3>1. q # r
      BY <1>3, <2>2, RequestIdType
    <3>. QED
      BY <1>1, <2>2, <3>1 DEF Serving, RequestId
  <2>3. id[2] < Pauses \/ \E q \in JobRows : Serving(q, s) /\ RequestId(q) = id
    BY <2>1 DEF IdsInv
  <2>4. req_output[s][id] = None \/ \E q \in JobRows : Serving(q, s) /\ RequestId(q) = id
    BY <2>1 DEF LeftoversAreEmpty
  <2>. QED
    BY <1>1, <2>1, <2>2, <2>3, <2>4
<1>4. ASSUME NEW s \in Servers, NEW id \in DOMAIN req_output'[s], id[1] = r
      PROVE  /\ id[2] < Pauses' \/ \E q \in JobRows : Serving(q, s)' /\ RequestId(q)' = id
             /\ \/ req_output'[s][id] = None
                \/ \E q \in JobRows : Serving(q, s)' /\ RequestId(q)' = id
  BY <1>4 DEF OwnEntries
<1>. QED
  BY <1>1, <1>2, <1>3, <1>4 DEF IdsInv, LeftoversAreEmpty

\* A response's own entries, of what is known of all.
LEMMA OwnFromEntries ==
    ASSUME Types, IdsInv, LeftoversAreEmpty, NEW r \in JobRows
    PROVE  OwnEntries(r)
<1>1. ASSUME NEW s \in Servers, NEW id \in DOMAIN req_output[s], id[1] = r,
             ~(Serving(r, s) /\ RequestId(r) = id)
      PROVE  id[2] < Pauses /\ req_output[s][id] = None
  <2>1. ASSUME NEW q \in JobRows, Serving(q, s), RequestId(q) = id
        PROVE  FALSE
    BY <1>1, <2>1, RequestIdType
  <2>. QED
    BY <2>1 DEF IdsInv, LeftoversAreEmpty
<1>. QED
  BY <1>1 DEF OwnEntries

\* A synchronization only counts a pause more.
LEMMA SynchronizeEntries ==
    ASSUME Types, IdsInv, LeftoversAreEmpty, Synchronize
    PROVE  IdsInv' /\ LeftoversAreEmpty'
<1>1. UNCHANGED <<job, pc, run, saved, load, session, req_output>>
  BY SynchronizeFrame
<1>2. /\ JobRows' = JobRows /\ \A q \in JobRows : RequestId(q)' = RequestId(q)
      /\ \A q \in JobRows, s \in Servers : Serving(q, s)' <=> Serving(q, s)
  BY <1>1 DEF JobRows, RequestId, Serving
<1>3. engine_version \in Nat /\ phase \in {"run", "cancel", "write", "written", "resume"}
  BY DEF Types, SyncTypes
<1>4. /\ Pauses \in Nat /\ Pauses' \in Nat /\ Pauses <= Pauses'
      /\ phase' = "cancel" => phase = "cancel" \/ Pauses < Pauses'
  BY <1>3 DEF Pauses, Synchronize, Pause, Cancelled, WeightsWritten, StartResume, DeliverCancel,
              DeliverResume
<1>5. \A q \in JobRows : saved[q].uuid \in Nat
  BY ResponseFields DEF Types, RowTypes
<1>6. \A q \in JobRows : /\ saved'[q].uuid <= Pauses'
                         /\ phase' = "cancel" => saved'[q].uuid < Pauses'
  BY <1>1, <1>4, <1>5 DEF IdsInv
<1>7. ASSUME NEW s \in Servers, NEW id \in DOMAIN req_output'[s]
      PROVE  id[2] < Pauses' \/ \E q \in JobRows : Serving(q, s)' /\ RequestId(q)' = id
  <2>1. id \in DOMAIN req_output[s] /\ id[2] \in Nat
    BY <1>1 DEF Types, ServerTypes, RequestIds
  <2>. QED
    BY <1>2, <1>4, <2>1 DEF IdsInv
<1>8. LeftoversAreEmpty'
  BY <1>1, <1>2 DEF LeftoversAreEmpty
<1>. QED
  BY <1>2, <1>6, <1>7, <1>8 DEF IdsInv

-----------------------------------------------------------------------------
(* A sample is submitted *)

\* A response of the sample that was interrupted, or is new, is begun.
Begins(r) ==
    /\ pc[r] = "idle" /\ pc'[r] = "begin"
    /\ run'[r] \in Runs /\ run'[r].stamp = current_param_version
    /\ saved'[r] \in Responses
    /\ saved'[r].ids = saved[r].ids /\ saved'[r].called = saved[r].called
    /\ saved'[r].uuid = saved[r].uuid \/ (saved'[r].uuid \in Nat /\ saved'[r].uuid <= Pauses)
    /\ \/ saved'[r].state = saved[r].state /\ saved[r].state # "new"
                                           /\ saved'[r].start = saved[r].start
       \/ saved[r].state = "new" /\ saved'[r].state = "pending"
                                 /\ saved'[r].start = current_param_version

\* Every other response stays as it is.
LEMMA SubmitEffect ==
    ASSUME Types, SyncInv, IdsInv, NEW s, Submit(s), NEW r \in JobRows
    PROVE  Begins(r) \/ (pc'[r] = pc[r] /\ run'[r] = run[r] /\ saved'[r] = saved[r])
<1>. DEFINE again == {q \in RowsOf(s) : pc[q] = "idle"}
            Begun(q, data) == IF data.state = "new"
                              THEN [data EXCEPT !.state = "pending", !.uuid = FreshId(q),
                                                !.start = current_param_version]
                              ELSE IF multi_turn THEN data ELSE [data EXCEPT !.uuid = FreshId(q)]
<1>1. /\ pc' = [q \in JobRows |-> IF q \in again THEN "begin" ELSE pc[q]]
      /\ run' = [q \in JobRows |-> IF q \in again
                                   THEN [NoRun EXCEPT !.stamp = current_param_version]
                                   ELSE run[q]]
      /\ saved' = [q \in JobRows |-> IF q \in again THEN Begun(q, saved[q]) ELSE saved[q]]
      /\ phase \in {"run", "write", "written"}
  BY DEF Submit
<1>2. CASE r \notin again
  BY <1>1, <1>2
<1>3. CASE r \in again
  <2>1. /\ pc[r] = "idle" /\ pc'[r] = "begin" /\ saved'[r] = Begun(r, saved[r])
        /\ run'[r] = [NoRun EXCEPT !.stamp = current_param_version]
    BY <1>1, <1>3
  <2>2. current_param_version \in Nat
    BY DEF Types, SyncTypes
  <2>3. run'[r] \in Runs /\ run'[r].stamp = current_param_version
    <3>1. [NoRun EXCEPT !.stamp = current_param_version] \in Runs
      BY <2>2, NoRunType, RunFields
    <3>. QED
      BY <2>1, <3>1 DEF NoRun
  <2>4. FreshId(r) \in Nat /\ FreshId(r) <= Pauses
    BY <1>1, <2>1, FreshIdIsNew
  <2>5. saved[r] \in Responses
    BY DEF Types, RowTypes
  <2>6. CASE saved[r].state = "new"
    <3>. DEFINE new == [saved[r] EXCEPT !.state = "pending", !.uuid = FreshId(r),
                                        !.start = current_param_version]
    <3>1. saved'[r] = new
      BY <2>1, <2>6
    <3>2. /\ new \in Responses /\ new.ids = saved[r].ids /\ new.called = saved[r].called
          /\ new.uuid = FreshId(r) /\ new.state = "pending" /\ new.start = current_param_version
      BY <2>2, <2>4, <2>5, Zenon DEF Responses
    <3>. QED
      BY <2>1, <2>3, <2>4, <2>6, <3>1, <3>2 DEF Begins
  <2>7. CASE saved[r].state # "new" /\ multi_turn
    BY <2>1, <2>3, <2>5, <2>7 DEF Begins
  <2>8. CASE saved[r].state # "new" /\ ~multi_turn
    <3>. DEFINE new == [saved[r] EXCEPT !.uuid = FreshId(r)]
    <3>1. saved'[r] = new
      BY <2>1, <2>8
    <3>2. /\ new \in Responses /\ new.ids = saved[r].ids /\ new.called = saved[r].called
          /\ new.uuid = FreshId(r) /\ new.state = saved[r].state /\ new.start = saved[r].start
      BY <2>4, <2>5, Zenon DEF Responses
    <3>. QED
      BY <2>1, <2>3, <2>4, <2>8, <3>1, <3>2 DEF Begins
  <2>. QED
    BY <2>6, <2>7, <2>8
<1>. QED
  BY <1>2, <1>3

\* Submitting keeps the types.
LEMMA SubmitTypes ==
    ASSUME Types, SyncInv, IdsInv, NEW s, Submit(s)
    PROVE  Types'
<1>1. UNCHANGED <<job, syncVars, serverVars, cancellation_event, load>> /\ JobRows' = JobRows
  BY DEF Submit, JobRows
<1>2. SyncTypes' /\ ServerTypes'
  BY <1>1, TablesKept DEF Types, SyncTypes, syncVars, serverVars
<1>3. ManagerTypes'
  <2>1. session' \in [JobRows -> SUBSET Servers]
    BY DEF Submit, Types, ManagerTypes
  <2>. QED
    BY <1>1, <2>1 DEF Types, ManagerTypes
<1>4. RowTypes'
  <2>1. RowTypes
    BY DEF Types
  <2>2. ASSUME NEW r \in JobRows
        PROVE  /\ pc'[r] \in {"idle", "begin", "sent", "generating", "answered", "tools", "complete"}
               /\ run'[r] \in Runs /\ saved'[r] \in Responses
    BY <2>1, SubmitEffect DEF Begins, RowTypes
  <2>3. /\ pc' = [r \in JobRows |-> pc'[r]] /\ run' = [r \in JobRows |-> run'[r]]
        /\ saved' = [r \in JobRows |-> saved'[r]]
    BY DEF Submit
  <2>4. /\ pc' \in [JobRows -> {"idle", "begin", "sent", "generating", "answered", "tools",
                                "complete"}]
        /\ run' \in [JobRows -> Runs] /\ saved' \in [JobRows -> Responses]
    BY <2>2, <2>3
  <2>. QED
    BY <1>1, <2>4 DEF RowTypes
<1>. QED
  BY <1>2, <1>3, <1>4 DEF Types

\* What is begun is as a run expects it.
LEMMA SubmitRowInv ==
    ASSUME Types, SyncInv, IdsInv, NEW s, Submit(s), NEW r \in JobRows, RowInv(r)
    PROVE  RowInv(r)'
<1>1. /\ UNCHANGED <<job, syncVars, serverVars, cancellation_event>> /\ multi_turn' = multi_turn
      /\ phase \in {"run", "write", "written"}
  BY DEF Submit, multi_turn
<1>2. CASE pc'[r] = pc[r] /\ run'[r] = run[r] /\ saved'[r] = saved[r]
  <2>1. Served(r)'
    BY <1>1, <1>2 DEF RowInv, Served, RequestId, Output, IsCancelled, syncVars, serverVars
  <2>2. Answered(r)'
    BY <1>1, <1>2 DEF RowInv, Answered, syncVars
  <2>3. Running(r)'
    BY <1>1, <1>2 DEF RowInv, Running, syncVars, Over
  <2>4. Versions(r)'
    BY <1>1, <1>2 DEF RowInv, Versions, syncVars
  <2>5. CallsAndAnswers(r)'
    BY <1>1, <1>2 DEF RowInv, CallsAndAnswers
  <2>. QED
    BY <2>1, <2>2, <2>3, <2>4, <2>5 DEF RowInv
<1>3. CASE Begins(r)
  <2>1. pc[r] = "idle" /\ pc'[r] = "begin" /\ saved'[r].ids = saved[r].ids
    BY <1>3 DEF Begins
  <2>2. Served(r)' /\ Answered(r)'
    BY <2>1 DEF Served, Answered
  <2>3. current_param_version \in Nat /\ engine_version \in Nat
    BY DEF Types, SyncTypes
  <2>4. Running(r)'
    <3>1. Len(saved'[r].ids) < job.response_length
      BY <2>1 DEF RowInv, Running
    <3>2. saved'[r].state # "new"
      BY <1>3 DEF Begins
    <3>3. saved'[r].state = "processing_tools" => multi_turn
      BY <1>3 DEF Begins, RowInv, Running
    <3>4. /\ engine_version <= run'[r].stamp + 1
          /\ phase = "write" => engine_version <= run'[r].stamp
      BY <1>3, <2>3 DEF Begins, SyncInv
    <3>5. saved'[r].start <= current_param_version
      BY <1>3, <2>3 DEF Begins, RowInv, Running
    <3>. QED
      BY <1>1, <2>1, <3>1, <3>2, <3>3, <3>4, <3>5 DEF Running, syncVars
  <2>5. Versions(r)'
    <3>1. CASE saved[r].state = "new"
      <4>1. saved'[r].ids = <<>> /\ Len(<<>>) = 0
        BY <2>1, <3>1 DEF RowInv, Running
      <4>. QED
        BY <4>1 DEF Versions
    <3>2. CASE saved[r].state # "new"
      <4>1. saved'[r].start = saved[r].start
        BY <1>3, <3>2 DEF Begins
      <4>. QED
        BY <1>1, <2>1, <4>1 DEF RowInv, Versions, syncVars
    <3>. QED
      BY <3>1, <3>2
  <2>6. CallsAndAnswers(r)'
    <3>1. /\ saved'[r].called = saved[r].called
          /\ saved'[r].state = "processing_tools" => saved[r].state = "processing_tools"
      BY <1>3 DEF Begins
    <3>. QED
      BY <2>1, <3>1 DEF RowInv, CallsAndAnswers
  <2>. QED
    BY <2>2, <2>4, <2>5, <2>6 DEF RowInv
<1>. QED
  BY <1>2, <1>3, SubmitEffect

\* Nothing is served yet of what is begun.
LEMMA SubmitEntries ==
    ASSUME Types, SyncInv, IdsInv, LeftoversAreEmpty, NEW s, Submit(s)
    PROVE  IdsInv' /\ LeftoversAreEmpty'
<1>1. /\ UNCHANGED <<job, syncVars, serverVars, cancellation_event>>
      /\ phase \in {"run", "write", "written"} /\ JobRows' = JobRows /\ Pauses' = Pauses
  BY DEF Submit, JobRows, Pauses, syncVars
<1>2. ASSUME NEW q \in JobRows
      PROVE  saved'[q].uuid <= Pauses'
  <2>1. saved[q].uuid <= Pauses
    BY DEF IdsInv
  <2>. QED
    BY <1>1, <2>1, SubmitEffect DEF Begins
<1>3. ASSUME NEW q \in JobRows, NEW t \in Servers, Serving(q, t)
      PROVE  Serving(q, t)' /\ RequestId(q)' = RequestId(q)
  <2>1. pc'[q] = pc[q] /\ run'[q] = run[q] /\ saved'[q] = saved[q]
    BY <1>3, SubmitEffect DEF Begins, Serving
  <2>. QED
    BY <1>3, <2>1 DEF Serving, RequestId
<1>4. IdsInv'
  BY <1>1, <1>2, <1>3 DEF IdsInv, serverVars, syncVars
<1>5. LeftoversAreEmpty'
  BY <1>1, <1>3 DEF LeftoversAreEmpty, serverVars
<1>. QED
  BY <1>4, <1>5

-----------------------------------------------------------------------------
(* A server serves a request *)

\* While a response is generated its server is not past the cancellation.
LEMMA GeneratingPhase ==
    ASSUME Types, SyncInv, NEW r \in JobRows, Served(r), pc[r] = "generating"
    PROVE  phase \notin {"write", "written"}
<1>1. run[r].server \in Servers
  BY RunFields DEF Types, RowTypes
<1>. QED
  BY <1>1 DEF Served, SyncInv, Told

\* The engine's next token is of the request, at the place that follows, and ends a
\* turn only as its last.
LEMMA ExtendedOutput ==
    ASSUME NEW old \in Seq(Tokens), NEW n \in Nat, NEW v \in Nat, OfRequest(old, n, v),
           old # <<>> => ~EndsTurn(Last(old).kind), NEW kind \in {"text", "eos", "open", "close"}
    PROVE  LET new == Append(old, Token(n + Len(old) + 1, v, kind))
           IN  OfRequest(new, n, v) /\ new # <<>>
<1>. DEFINE token == Token(n + Len(old) + 1, v, kind)
            new == Append(old, token)
<1>1. Len(old) \in Nat /\ (Len(old) > 0 => old # <<>> /\ Last(old) = old[Len(old)])
  BY DEF Last
<1>2. /\ token.pos = n + (Len(old) + 1) /\ token.ver = v /\ token.kind = kind /\ token \in Tokens
  BY <1>1 DEF Token, Tokens
<1>. HIDE DEF token
<1>3. /\ Len(new) = Len(old) + 1 /\ new[Len(old) + 1] = token
      /\ \A i \in 1..Len(old) : new[i] = old[i]
  BY <1>1, <1>2
<1>. HIDE DEF new
<1>4. ASSUME NEW i \in 1..Len(new)
      PROVE  /\ new[i].pos = n + i /\ new[i].ver = v /\ new[i].kind # "obs"
             /\ EndsTurn(new[i].kind) => i = Len(new)
  <2>1. CASE i = Len(old) + 1
    BY <1>2, <1>3, <2>1
  <2>2. CASE i \in 1..Len(old)
    <3>1. /\ new[i] = old[i] /\ new[i].pos = n + i /\ new[i].ver = v /\ new[i].kind # "obs"
          /\ EndsTurn(new[i].kind) => i = Len(old)
      BY <1>3, <2>2 DEF OfRequest
    <3>2. ~EndsTurn(new[i].kind)
      BY <1>1, <2>2, <3>1
    <3>. QED
      BY <3>1, <3>2
  <2>. QED
    BY <1>1, <1>3, <2>1, <2>2
<1>5. new # <<>>
  BY <1>1, <1>3
<1>. QED
  BY <1>4, <1>5 DEF OfRequest, new, token

\* A step of a server keeps what is known of the response it serves.
LEMMA ServeRowInv ==
    ASSUME Types, SyncInv, NEW r \in JobRows, RowInv(r), Serve(r), Types'
    PROVE  RowInv(r)'
<1>1. /\ UNCHANGED <<job, syncVars, serverPaused, cancellation_event, saved>>
      /\ multi_turn' = multi_turn /\ pc[r] \in {"sent", "generating"}
  BY DEF Serve, Refuse, Register, EngineOutput, AnswerEmpty, AnswerOutput, serverVars, rowVars,
         multi_turn
<1>2. engine_version \in Nat /\ run[r].server \in Servers /\ run[r].base \in Nat
  BY RunFields DEF Types, SyncTypes, RowTypes
<1>3. RowTypes
  BY DEF Types
<1>4. <<>> \in Seq(Tokens) /\ Len(<<>>) = 0 /\ TRUE \in BOOLEAN
  OBVIOUS
<1>5. OfRequest(<<>>, Len(saved[r].ids), engine_version)
  BY <1>4 DEF OfRequest
<1>6. /\ pc'[r] \in {"generating", "answered"}
      /\ run'[r].stamp = run[r].stamp
      /\ pc'[r] = "generating" => run'[r] = run[r]
  <2>1. CASE Refuse(r) \/ AnswerEmpty(r)
    <3>1. Answer(r, <<>>, TRUE) /\ UNCHANGED <<job, saved>>
      BY <1>1, <2>1 DEF Refuse, AnswerEmpty
    <3>. QED
      BY <1>4, <3>1, AnswerRow
  <2>2. CASE Register(r)
    BY <1>3, <2>2 DEF Register, RowTypes
  <2>3. CASE EngineOutput(r)
    BY <2>3 DEF EngineOutput, rowVars
  <2>4. CASE AnswerOutput(r)
    <3>1. RequestId(r) \in DOMAIN req_output[run[r].server] /\ Answer(r, Output(r), ~Generated(r))
          /\ UNCHANGED <<job, saved>>
      BY <2>4 DEF AnswerOutput, RowInv, Served
    <3>2. Output(r) \in Seq(Tokens)
      BY <3>1, OutputType
    <3>3. (~Generated(r)) \in BOOLEAN
      BY Zenon DEF Generated
    <3>. QED
      BY <3>1, <3>2, <3>3, AnswerRow
  <2>. QED
    BY <2>1, <2>2, <2>3, <2>4 DEF Serve
<1>7. Running(r)'
  BY <1>1, <1>6 DEF RowInv, Running, Over, syncVars
<1>8. Versions(r)'
  BY <1>1, <1>6 DEF RowInv, Versions, syncVars
<1>9. CallsAndAnswers(r)'
  BY <1>1, <1>6 DEF RowInv, CallsAndAnswers
<1>10. RequestId(r)' = RequestId(r)
  BY <1>1 DEF RequestId
<1>11. pc[r] = "generating" =>
         /\ RequestId(r) \in DOMAIN req_output[run[r].server]
         /\ OfRequest(Output(r), Len(saved[r].ids), engine_version)
         /\ IsCancelled(r) => serverPaused[run[r].server]
         /\ serverPaused[run[r].server] => phase = "cancel"
  BY DEF RowInv, Served
<1>12. Served(r)' /\ Answered(r)'
  <2>1. CASE Refuse(r) \/ AnswerEmpty(r)
    <3>1. Answer(r, <<>>, TRUE) /\ UNCHANGED <<job, saved>>
      BY <1>1, <2>1 DEF Refuse, AnswerEmpty
    <3>2. pc'[r] = "answered" /\ run'[r].reply = <<>> /\ run'[r].is_cancel = TRUE
      BY <1>4, <3>1, AnswerRow
    <3>. QED
      BY <1>1, <1>5, <3>2 DEF Served, Answered, syncVars
  <2>2. CASE Register(r)
    <3>1. pc'[r] = "generating" /\ run' = run /\ ~serverPaused[run[r].server]
      BY <1>3, <2>2 DEF Register, RowTypes
    <3>2. /\ RequestId(r) \in DOMAIN req_output'[run[r].server]
          /\ Output(r)' = None /\ IsCancelled(r)' = FALSE
      BY <1>10, <2>2, <3>1, RegisterTables DEF Output, IsCancelled
    <3>3. Served(r)'
      BY <1>1, <1>5, <1>10, <3>1, <3>2 DEF Served, None, syncVars
    <3>. QED
      BY <3>1, <3>3 DEF Answered
  <2>3. CASE EngineOutput(r)
    <3>1. pc[r] = "generating" /\ pc' = pc /\ run' = run /\ ~Generated(r)
      BY <2>3 DEF EngineOutput, rowVars
    <3>2. Output(r) \in Seq(Tokens) /\ Len(Output(r)) \in Nat /\ run[r].base = Len(saved[r].ids)
      BY <1>11, <3>1, OutputType DEF RowInv, Running
    <3>3. PICK kind \in TurnTokens(saved[r].ids \o Output(r)) :
            req_output'[run[r].server][RequestId(r)] =
                Append(Output(r), Token(run[r].base + Len(Output(r)) + 1, engine_version, kind))
      BY <1>11, <2>3, <3>1, EngineOutputTables
    <3>4. kind \in {"text", "eos", "open", "close"}
      BY DEF TurnTokens
    <3>5. Output(r) # <<>> => ~EndsTurn(Last(Output(r)).kind)
      BY <3>1 DEF Generated, HasOutput, None
    <3>6. OfRequest(Append(Output(r), Token(run[r].base + Len(Output(r)) + 1,
                                            engine_version, kind)),
                    run[r].base, engine_version)
      BY <1>2, <1>11, <3>1, <3>2, <3>4, <3>5, ExtendedOutput
    <3>7. OfRequest(Output(r)', Len(saved[r].ids), engine_version)
      BY <1>10, <3>1, <3>2, <3>3, <3>6 DEF Output
    <3>8. DOMAIN req_output'[run[r].server] = DOMAIN req_output[run[r].server]
          /\ cancel_event' = cancel_event
      BY <1>2, <1>11, <2>3, <3>1, EngineOutputTables
    <3>9. IsCancelled(r)' = IsCancelled(r)
      BY <1>10, <3>1, <3>8 DEF IsCancelled
    <3>10. Served(r)'
      BY <1>1, <1>10, <1>11, <3>1, <3>7, <3>8, <3>9 DEF Served, syncVars
    <3>. QED
      BY <3>1, <3>10 DEF Answered
  <2>4. CASE AnswerOutput(r)
    <3>1. /\ pc[r] = "generating" /\ Answer(r, Output(r), ~Generated(r)) /\ UNCHANGED <<job, saved>>
          /\ Output(r) # <<>>
      BY <2>4 DEF AnswerOutput, HasOutput, None
    <3>2. Output(r) \in Seq(Tokens)
      BY <1>11, <3>1, OutputType
    <3>3. (~Generated(r)) \in BOOLEAN
      BY Zenon DEF Generated
    <3>4. pc'[r] = "answered" /\ run'[r].reply = Output(r)
      BY <3>1, <3>2, <3>3, AnswerRow
    <3>5. phase # "write"
      BY <3>1, GeneratingPhase DEF RowInv
    <3>. QED
      BY <1>1, <1>11, <3>1, <3>4, <3>5 DEF Served, Answered, syncVars
  <2>. QED
    BY <2>1, <2>2, <2>3, <2>4 DEF Serve
<1>. QED
  BY <1>7, <1>8, <1>9, <1>12 DEF RowInv

\* An entry is left only by a request cancelled before its first output.
LEMMA ServeOwnEntries ==
    ASSUME Types, SyncInv, IdsInv, NEW r \in JobRows, Served(r), OwnEntries(r), Serve(r)
    PROVE  OwnEntries(r)'
<1>1. /\ UNCHANGED <<job, syncVars, serverPaused, cancellation_event, saved>>
      /\ Pauses' = Pauses /\ RequestId(r)' = RequestId(r)
  BY DEF Serve, Refuse, Register, EngineOutput, AnswerEmpty, AnswerOutput, serverVars, rowVars,
         RequestId, Pauses, syncVars
<1>2. RowTypes /\ run[r].server \in Servers
  BY RunFields DEF Types, RowTypes
<1>3. ASSUME NEW s \in Servers, NEW id \in DOMAIN req_output'[s], id[1] = r
      PROVE  \/ Serving(r, s)' /\ RequestId(r)' = id
             \/ id[2] < Pauses' /\ req_output'[s][id] = None
  <2>. DEFINE Old == Serving(r, s) /\ RequestId(r) = id
  <2>1. id \in DOMAIN req_output[s] => Old \/ (id[2] < Pauses /\ req_output[s][id] = None)
    BY <1>3 DEF OwnEntries
  <2>2. CASE Refuse(r)
    <3>1. req_output' = req_output /\ ~Old
      BY <2>2 DEF Refuse, serverVars, Serving
    <3>. QED
      BY <1>1, <1>3, <2>1, <3>1
  <2>3. CASE Register(r)
    <3>1. /\ pc'[r] = "generating" /\ run' = run /\ ~Old
      BY <1>2, <2>3 DEF Register, RowTypes, Serving
    <3>2. CASE s = run[r].server /\ id = RequestId(r)
      BY <1>1, <3>1, <3>2 DEF Serving
    <3>3. CASE s # run[r].server \/ id # RequestId(r)
      <4>1. id \in DOMAIN req_output[s] /\ req_output'[s][id] = req_output[s][id]
        BY <1>3, <2>3, <3>3, RegisterTables
      <4>. QED
        BY <1>1, <2>1, <3>1, <4>1
    <3>. QED
      BY <3>2, <3>3
  <2>4. CASE EngineOutput(r)
    <3>1. /\ pc[r] = "generating" /\ pc' = pc /\ run' = run
          /\ RequestId(r) \in DOMAIN req_output[run[r].server]
      BY <2>4 DEF EngineOutput, rowVars, Served
    <3>2. id \in DOMAIN req_output[s]
      BY <1>3, <2>4, <3>1, EngineOutputTables
    <3>3. CASE Old
      BY <1>1, <3>1, <3>3 DEF Serving
    <3>4. CASE ~Old
      <4>1. s # run[r].server \/ id # RequestId(r)
        BY <3>1, <3>4 DEF Serving
      <4>2. req_output'[s][id] = req_output[s][id]
        BY <2>4, <3>1, <3>2, <4>1, EngineOutputTables
      <4>. QED
        BY <1>1, <2>1, <3>2, <3>4, <4>2
    <3>. QED
      BY <3>3, <3>4
  <2>5. CASE AnswerEmpty(r)
    <3>1. /\ pc[r] = "generating" /\ req_output' = req_output /\ phase = "cancel"
          /\ Output(r) = None
      BY <2>5 DEF AnswerEmpty, serverVars, HasOutput, Served
    <3>2. Old => id[2] < Pauses /\ req_output[s][id] = None
      BY <3>1, RequestIdType DEF IdsInv, Serving, Output
    <3>. QED
      BY <1>1, <1>3, <2>1, <3>1, <3>2
  <2>6. CASE AnswerOutput(r)
    <3>1. /\ id \in DOMAIN req_output[s] /\ (s # run[r].server \/ id # RequestId(r))
          /\ req_output'[s][id] = req_output[s][id]
      BY <1>3, <2>6, AnswerOutputTables
    <3>2. ~Old
      BY <3>1 DEF Serving
    <3>. QED
      BY <1>1, <2>1, <3>1, <3>2
  <2>. QED
    BY <2>2, <2>3, <2>4, <2>5, <2>6 DEF Serve
<1>. QED
  BY <1>3 DEF OwnEntries

-----------------------------------------------------------------------------
(* A run goes on with its response *)

\* new goes on where old ends.
Prolongs(old, new) == Len(old) <= Len(new) /\ \A i \in 1..Len(old) : new[i] = old[i]

\* The tokens of a kind can be counted.
LEMMA KindsFinite ==
    ASSUME NEW ids \in Seq(Tokens), NEW kind
    PROVE  /\ IsFiniteSet(Kinds(ids, kind)) /\ Cardinality(Kinds(ids, kind)) \in Nat
           /\ Kinds(ids, kind) \subseteq 1..Len(ids) /\ Len(ids) \in Nat
<1>1. Len(ids) \in Nat
  OBVIOUS
<1>2. IsFiniteSet(1..Len(ids))
  BY <1>1, FS_Interval
<1>3. Kinds(ids, kind) \subseteq 1..Len(ids)
  BY DEF Kinds
<1>4. IsFiniteSet(Kinds(ids, kind))
  BY <1>2, <1>3, FS_Subset
<1>. QED
  BY <1>1, <1>3, <1>4, FS_CardinalityType

\* A response that grows has no fewer tokens of a kind, and one more by each new place.
LEMMA KindsGrow ==
    ASSUME NEW old \in Seq(Tokens), NEW new \in Seq(Tokens), Prolongs(old, new), NEW kind
    PROVE  /\ Cardinality(Kinds(old, kind)) <= Cardinality(Kinds(new, kind))
           /\ \A n \in Kinds(new, kind) : n > Len(old) =>
                 Cardinality(Kinds(old, kind)) + 1 <= Cardinality(Kinds(new, kind))
<1>1. /\ IsFiniteSet(Kinds(old, kind)) /\ IsFiniteSet(Kinds(new, kind))
      /\ Cardinality(Kinds(old, kind)) \in Nat /\ Len(old) \in Nat
      /\ Kinds(old, kind) \subseteq 1..Len(old) /\ Len(new) \in Nat
  BY KindsFinite
<1>2. Kinds(old, kind) \subseteq Kinds(new, kind)
  BY <1>1 DEF Kinds, Prolongs
<1>3. Cardinality(Kinds(old, kind)) <= Cardinality(Kinds(new, kind))
  BY <1>1, <1>2, FS_Subset
<1>4. ASSUME NEW n \in Kinds(new, kind), n > Len(old)
      PROVE  Cardinality(Kinds(old, kind)) + 1 <= Cardinality(Kinds(new, kind))
  <2>1. n \notin Kinds(old, kind)
    BY <1>1, <1>4
  <2>2. Cardinality(Kinds(old, kind) \union {n}) = Cardinality(Kinds(old, kind)) + 1
    BY <1>1, <2>1, FS_AddElement
  <2>3. Kinds(old, kind) \union {n} \subseteq Kinds(new, kind)
    BY <1>2, <1>4
  <2>4. Cardinality(Kinds(old, kind) \union {n}) <= Cardinality(Kinds(new, kind))
    BY <1>1, <2>3, FS_Subset
  <2>. QED
    BY <2>2, <2>4
<1>. QED
  BY <1>3, <1>4

\* Without a new answer of a tool, the answers are those there were.
LEMMA KindsStay ==
    ASSUME NEW old \in Seq(Tokens), NEW new \in Seq(Tokens), Prolongs(old, new), NEW kind,
           \A i \in (Len(old) + 1)..Len(new) : new[i].kind # kind
    PROVE  Kinds(new, kind) = Kinds(old, kind)
<1>1. Len(old) \in Nat /\ Len(new) \in Nat /\ Len(old) <= Len(new)
  BY DEF Prolongs
<1>2. ASSUME NEW i \in 1..Len(new)
      PROVE  i \in 1..Len(old) \/ i \in (Len(old) + 1)..Len(new)
  BY <1>1
<1>. QED
  BY <1>1, <1>2 DEF Kinds, Prolongs

\* One token more is at most one more of a kind.
LEMMA KindsOneMore ==
    ASSUME NEW old \in Seq(Tokens), NEW new \in Seq(Tokens), Prolongs(old, new), NEW kind,
           Len(new) = Len(old) + 1
    PROVE  Cardinality(Kinds(new, kind)) <= Cardinality(Kinds(old, kind)) + 1
<1>. DEFINE more == Kinds(old, kind) \union {Len(new)}
<1>1. /\ IsFiniteSet(Kinds(old, kind)) /\ Cardinality(Kinds(old, kind)) \in Nat
      /\ Len(old) \in Nat /\ Kinds(old, kind) \subseteq 1..Len(old)
  BY KindsFinite
<1>2. Len(new) \notin Kinds(old, kind)
  BY <1>1
<1>3. IsFiniteSet(more) /\ Cardinality(more) = Cardinality(Kinds(old, kind)) + 1
  BY <1>1, <1>2, FS_AddElement
<1>4. Kinds(new, kind) \subseteq more
  BY <1>1 DEF Kinds, Prolongs
<1>. HIDE DEF more
<1>. QED
  BY <1>3, <1>4, FS_Subset

\* A run that hands on data: the response keeps what it had, grows by tokens of the
\* weights of the moment, and stays within its limit until it is complete.
LEMMA HandsOnRow ==
    ASSUME Types, Types', SyncInv, NEW r \in JobRows, RowInv(r), NEW data \in Responses,
           HandsOn(r, data), UNCHANGED <<job, syncVars>>, ~Over(r),
           Prolongs(saved[r].ids, data.ids), data.start = saved[r].start,
           \A i \in (Len(saved[r].ids) + 1)..Len(data.ids) : data.ids[i].ver = engine_version,
           pc'[r] # "complete" => Len(data.ids) < job.response_length,
           data.state # "new", data.state = "processing_tools" => multi_turn
    PROVE  Running(r)' /\ Versions(r)' /\ Prolongs(saved[r].ids, saved'[r].ids)
<1>1. /\ saved[r].ids \in Seq(Tokens) /\ saved'[r].ids \in Seq(Tokens) /\ data.ids \in Seq(Tokens)
      /\ saved[r].start \in Nat /\ run[r].stamp \in Nat
      /\ engine_version \in Nat /\ current_param_version \in Nat /\ JobRows' = JobRows
  <2>1. JobRows' = JobRows
    BY DEF JobRows
  <2>2. saved[r] \in Responses /\ saved'[r] \in Responses /\ run[r] \in Runs
    BY <2>1 DEF Types, RowTypes
  <2>. QED
    BY <2>1, <2>2, ResponseFields, RunFields DEF Types, SyncTypes
<1>2. job.response_length \in Nat
  BY JobFacts
<1>3. Len(saved[r].ids) \in Nat /\ Len(saved'[r].ids) \in Nat /\ Len(data.ids) \in Nat
  BY <1>1
<1>4. /\ multi_turn' = multi_turn /\ engine_version' = engine_version /\ phase' = phase
      /\ current_param_version' = current_param_version
  BY DEF multi_turn, syncVars
<1>5. Len(saved[r].ids) < job.response_length
  BY DEF RowInv, Running, Over
<1>6. Running(r)'
  <2>1. pc'[r] # "complete" => Len(saved'[r].ids) < job.response_length
    BY DEF HandsOn
  <2>2. pc'[r] \in {"idle", "begin", "complete"} /\ saved'[r].state = data.state
    BY DEF HandsOn
  <2>3. Over(r)' \/ (pc'[r] = "begin" /\ run'[r].stamp = run[r].stamp)
    BY DEF HandsOn, Over
  <2>4. ~Over(r)' => /\ engine_version <= run'[r].stamp + 1
                     /\ phase = "write" => engine_version <= run'[r].stamp
    BY <2>3 DEF RowInv, Running
  <2>5. saved'[r].start <= current_param_version
    BY DEF HandsOn, RowInv, Running
  <2>. QED
    BY <1>4, <2>1, <2>2, <2>4, <2>5 DEF Running
<1>7. Prolongs(saved[r].ids, saved'[r].ids)
  BY <1>2, <1>3, <1>5, SMTT(30) DEF Prolongs, HandsOn
<1>8. ASSUME NEW i \in 1..Len(data.ids)
      PROVE  /\ data.ids[i].ver >= saved[r].start /\ data.ids[i].ver <= engine_version
  <2>1. CASE i \in 1..Len(saved[r].ids)
    BY <2>1 DEF Prolongs, RowInv, Versions
  <2>2. CASE i \in (Len(saved[r].ids) + 1)..Len(data.ids)
    <3>1. saved[r].start <= current_param_version /\ current_param_version <= engine_version
      BY <1>1 DEF RowInv, Running, SyncInv
    <3>. QED
      BY <1>1, <2>2, <3>1
  <2>. QED
    BY <1>3, <2>1, <2>2
<1>9. pc'[r] = "complete" => engine_version <= saved'[r].end + 1
  BY DEF HandsOn, RowInv, Running
<1>10. Versions(r)'
  <2>1. ASSUME NEW i \in 1..Len(saved'[r].ids)
        PROVE  /\ saved'[r].ids[i].ver >= saved'[r].start
               /\ saved'[r].ids[i].ver <= engine_version
               /\ pc'[r] = "complete" => saved'[r].ids[i].ver <= saved'[r].end + 1
    <3>1. /\ i \in 1..Len(data.ids) /\ saved'[r].ids[i] = data.ids[i]
          /\ saved'[r].start = saved[r].start
      BY DEF HandsOn
    <3>2. saved'[r].ids[i].ver \in Nat
      BY <1>1, TokenFields
    <3>3. pc'[r] = "complete" => saved'[r].end \in Nat
      BY <1>1 DEF HandsOn
    <3>. QED
      BY <1>1, <1>8, <1>9, <3>1, <3>2, <3>3
  <2>. QED
    BY <1>4, <2>1 DEF Versions
<1>. QED
  BY <1>6, <1>7, <1>10

\* The answer goes on where the response ends, by the weights of the moment, and is no
\* answer of a tool; a call in it is its end.
LEMMA JoinedFacts ==
    ASSUME Types, NEW r \in JobRows, Answered(r), pc[r] = "answered"
    PROVE  /\ Prolongs(saved[r].ids, Joined(r)) /\ Len(Joined(r)) \in Nat
           /\ \A i \in (Len(saved[r].ids) + 1)..Len(Joined(r)) :
                 /\ Joined(r)[i].pos = i /\ Joined(r)[i].ver = engine_version
                 /\ Joined(r)[i].kind # "obs"
           /\ HasCall(run[r].reply) =>
                 /\ Len(Joined(r)) >= 2 /\ Len(Joined(r)) > Len(saved[r].ids)
                 /\ Joined(r)[Len(Joined(r))].kind = "close"
<1>. DEFINE old == saved[r].ids
            reply == run[r].reply
<1>1. old \in Seq(Tokens) /\ reply \in Seq(Tokens)
  BY JoinedData
<1>2. OfRequest(reply, Len(old), engine_version)
  BY DEF Answered
<1>3. Joined(r) = old \o reply
  BY DEF Joined
<1>. HIDE DEF old, reply
<1>4. /\ Len(old) \in Nat /\ Len(reply) \in Nat /\ Len(old \o reply) = Len(old) + Len(reply)
      /\ \A i \in 1..Len(old) : (old \o reply)[i] = old[i]
      /\ \A i \in 1..Len(reply) : (old \o reply)[Len(old) + i] = reply[i]
      /\ \A i \in (Len(old) + 1)..Len(old \o reply) :
            i - Len(old) \in 1..Len(reply) /\ (old \o reply)[i] = reply[i - Len(old)]
  BY <1>1, Concatenated
<1>5. Prolongs(old, Joined(r)) /\ Len(Joined(r)) \in Nat
  BY <1>3, <1>4 DEF Prolongs
<1>6. ASSUME NEW i \in (Len(old) + 1)..Len(Joined(r))
      PROVE  /\ Joined(r)[i].pos = i /\ Joined(r)[i].ver = engine_version
             /\ Joined(r)[i].kind # "obs"
  <2>1. i - Len(old) \in 1..Len(reply) /\ Joined(r)[i] = reply[i - Len(old)]
    BY <1>3, <1>4
  <2>2. /\ reply[i - Len(old)].pos = Len(old) + (i - Len(old))
        /\ reply[i - Len(old)].ver = engine_version /\ reply[i - Len(old)].kind # "obs"
    BY <1>2, <2>1 DEF OfRequest
  <2>3. Len(old) + (i - Len(old)) = i
    BY <1>4
  <2>. QED
    BY <2>1, <2>2, <2>3
<1>7. ASSUME HasCall(reply)
      PROVE  /\ Len(Joined(r)) >= 2 /\ Len(Joined(r)) > Len(old)
             /\ Joined(r)[Len(Joined(r))].kind = "close"
  <2>1. PICK i, j \in 1..Len(reply) : i < j /\ reply[j].kind = "close"
    BY <1>1, <1>7 DEF HasCall
  <2>2. j = Len(reply)
    BY <1>2, <2>1 DEF OfRequest, EndsTurn
  <2>3. Len(reply) >= 2 /\ Len(Joined(r)) = Len(old) + Len(reply)
    BY <1>3, <1>4, <2>1, <2>2
  <2>4. Joined(r)[Len(Joined(r))] = reply[Len(reply)]
    BY <1>3, <1>4, <2>1, <2>2, <2>3
  <2>. QED
    BY <1>4, <2>1, <2>2, <2>3, <2>4
<1>. QED
  BY <1>5, <1>6, <1>7 DEF old, reply

\* An answer adds no answer of a tool, and a call that waits for its tool is its end.
LEMMA AnswerCalls ==
    ASSUME Types, Types', NEW r \in JobRows, RowInv(r), pc[r] = "answered", job' = job,
           NEW data \in Responses, HandsOn(r, data), data.ids = Joined(r),
           data.called = saved[r].called, Prolongs(saved[r].ids, saved'[r].ids),
           data.state = "processing_tools" => HasCall(run[r].reply)
    PROVE  CallsAndAnswers(r)'
<1>. DEFINE old == saved[r].ids
            new == saved'[r].ids
<1>1. /\ old \in Seq(Tokens) /\ new \in Seq(Tokens) /\ saved[r].called \in Nat
  <2>1. JobRows' = JobRows
    BY DEF JobRows
  <2>2. saved[r] \in Responses /\ saved'[r] \in Responses
    BY <2>1 DEF Types, RowTypes
  <2>. QED
    BY <2>2, ResponseFields
<1>2. /\ saved'[r].called = saved[r].called /\ saved'[r].state = data.state
      /\ \A i \in 1..Len(new) : i \in 1..Len(Joined(r)) /\ new[i] = Joined(r)[i]
      /\ pc'[r] # "complete" => new = Joined(r)
  BY DEF HandsOn
<1>3. /\ saved[r].called <= Cardinality(Kinds(old, "close"))
      /\ Cardinality(Kinds(old, "obs")) <= saved[r].called
      /\ \A i \in Kinds(old, "obs") : i > 2 /\ old[i - 1].kind = "close"
  BY DEF RowInv, CallsAndAnswers
<1>4. /\ \A i \in (Len(old) + 1)..Len(Joined(r)) : Joined(r)[i].kind # "obs"
      /\ HasCall(run[r].reply) => /\ Len(Joined(r)) >= 2 /\ Len(Joined(r)) > Len(old)
                                  /\ Joined(r)[Len(Joined(r))].kind = "close"
  BY JoinedFacts DEF RowInv
<1>5. Prolongs(old, new)
  OBVIOUS
<1>. HIDE DEF old, new
<1>6. /\ Len(old) \in Nat /\ Len(new) \in Nat
      /\ Cardinality(Kinds(old, "close")) \in Nat /\ Cardinality(Kinds(new, "close")) \in Nat
      /\ Kinds(old, "obs") \subseteq 1..Len(old)
  BY <1>1, KindsFinite
<1>7. \A i \in (Len(old) + 1)..Len(new) : new[i].kind # "obs"
  BY <1>2, <1>4, <1>6
<1>8. Kinds(new, "obs") = Kinds(old, "obs")
  BY <1>1, <1>5, <1>7, KindsStay
<1>9. Cardinality(Kinds(old, "close")) <= Cardinality(Kinds(new, "close"))
  BY <1>1, <1>5, KindsGrow
<1>10. ASSUME NEW i \in Kinds(new, "obs")
       PROVE  i > 2 /\ new[i - 1].kind = "close"
  <2>1. i \in 1..Len(old) /\ i > 2 /\ old[i - 1].kind = "close"
    BY <1>3, <1>6, <1>8
  <2>2. i - 1 \in 1..Len(old)
    BY <1>6, <2>1
  <2>. QED
    BY <1>5, <2>1, <2>2 DEF Prolongs
<1>11. ASSUME saved'[r].state = "processing_tools", pc'[r] # "complete"
       PROVE  /\ saved[r].called + 1 <= Cardinality(Kinds(new, "close"))
              /\ Len(new) >= 2 /\ new[Len(new)].kind = "close"
  <2>1. Len(new) >= 2 /\ Len(new) > Len(old) /\ new[Len(new)].kind = "close"
    BY <1>2, <1>4, <1>11
  <2>2. Len(new) \in Kinds(new, "close")
    BY <1>6, <2>1 DEF Kinds
  <2>3. Cardinality(Kinds(old, "close")) + 1 <= Cardinality(Kinds(new, "close"))
    BY <1>1, <1>5, <2>1, <2>2, KindsGrow
  <2>. QED
    BY <1>1, <1>3, <1>6, <2>1, <2>3
<1>12. saved[r].called <= Cardinality(Kinds(new, "close"))
  BY <1>1, <1>3, <1>6, <1>9
<1>. QED
  BY <1>2, <1>3, <1>8, <1>10, <1>11, <1>12 DEF CallsAndAnswers, new

\* A tool's answer follows the call it answers.
LEMMA ToolCalls ==
    ASSUME Types, Types', NEW r \in JobRows, RowInv(r), pc[r] = "tools", job' = job,
           HandsOn(r, AfterTools(r)), Prolongs(saved[r].ids, saved'[r].ids),
           pc'[r] = IF AfterTools(r).state = "terminated" THEN "complete" ELSE "begin"
    PROVE  CallsAndAnswers(r)'
<1>. DEFINE old == saved[r].ids
            new == saved'[r].ids
            data == AfterTools(r)
<1>1. /\ old \in Seq(Tokens) /\ new \in Seq(Tokens) /\ saved[r].called \in Nat
  <2>1. JobRows' = JobRows
    BY DEF JobRows
  <2>2. saved[r] \in Responses /\ saved'[r] \in Responses
    BY <2>1 DEF Types, RowTypes
  <2>. QED
    BY <2>2, ResponseFields
<1>2. /\ saved'[r].called = saved[r].called + 1 /\ saved'[r].state # "processing_tools"
      /\ Len(new) = Len(old) \/ Len(new) = Len(old) + 1
  <2>1. /\ data.called = saved[r].called + 1 /\ Len(old) \in Nat
        /\ IF Len(old) + 1 >= job.response_length
           THEN data.state = "terminated" /\ data.ids = old
           ELSE data.state = "generating" /\ Len(data.ids) = Len(old) + 1
    BY AfterToolsData
  <2>2. saved'[r].called = saved[r].called + 1 /\ saved'[r].state # "processing_tools"
    BY <2>1 DEF HandsOn
  <2>3. CASE Len(old) + 1 >= job.response_length
    <3>1. Len(old) < job.response_length /\ job.response_length \in Nat
      BY JobFacts DEF RowInv, Running
    <3>2. pc'[r] = "complete"
      BY <2>1, <2>3
    <3>. QED
      BY <2>1, <2>2, <2>3, <3>1, <3>2 DEF HandsOn
  <2>4. CASE ~(Len(old) + 1 >= job.response_length)
    <3>1. pc'[r] # "complete"
      BY <2>1, <2>4
    <3>. QED
      BY <2>1, <2>2, <2>4, <3>1 DEF HandsOn
  <2>. QED
    BY <2>3, <2>4
<1>3. /\ saved[r].called + 1 <= Cardinality(Kinds(old, "close"))
      /\ Cardinality(Kinds(old, "obs")) <= saved[r].called
      /\ \A i \in Kinds(old, "obs") : i > 2 /\ old[i - 1].kind = "close"
      /\ Len(old) >= 2 /\ old[Len(old)].kind = "close"
  BY DEF RowInv, CallsAndAnswers, Running
<1>4. Prolongs(old, new)
  OBVIOUS
<1>. HIDE DEF old, new, data
<1>5. /\ Len(old) \in Nat /\ Len(new) \in Nat
      /\ Cardinality(Kinds(old, "close")) \in Nat /\ Cardinality(Kinds(new, "close")) \in Nat
      /\ Cardinality(Kinds(old, "obs")) \in Nat /\ Cardinality(Kinds(new, "obs")) \in Nat
      /\ Kinds(new, "obs") \subseteq 1..Len(new)
  BY <1>1, KindsFinite
<1>6. Cardinality(Kinds(old, "close")) <= Cardinality(Kinds(new, "close"))
  BY <1>1, <1>4, KindsGrow
<1>7. Cardinality(Kinds(new, "obs")) <= Cardinality(Kinds(old, "obs")) + 1
  <2>1. CASE Len(new) = Len(old) + 1
    BY <1>1, <1>4, <2>1, KindsOneMore
  <2>2. CASE Len(new) = Len(old)
    <3>1. \A i \in (Len(old) + 1)..Len(new) : new[i].kind # "obs"
      BY <1>5, <2>2
    <3>2. Kinds(new, "obs") = Kinds(old, "obs")
      BY <1>1, <1>4, <3>1, KindsStay
    <3>. QED
      BY <1>5, <3>2
  <2>. QED
    BY <1>2, <2>1, <2>2
<1>8. ASSUME NEW i \in Kinds(new, "obs")
      PROVE  i > 2 /\ new[i - 1].kind = "close"
  <2>1. i \in 1..Len(new) /\ new[i].kind = "obs"
    BY DEF Kinds
  <2>2. CASE i \in 1..Len(old)
    <3>1. i \in Kinds(old, "obs")
      BY <1>4, <2>1, <2>2 DEF Prolongs, Kinds
    <3>2. i > 2 /\ old[i - 1].kind = "close" /\ i - 1 \in 1..Len(old)
      BY <1>3, <1>5, <2>2, <3>1
    <3>. QED
      BY <1>4, <3>2 DEF Prolongs
  <2>3. CASE i = Len(old) + 1
    <3>1. i - 1 = Len(old) /\ Len(old) \in 1..Len(old) /\ i > 2
      BY <1>3, <1>5, <2>3
    <3>. QED
      BY <1>3, <1>4, <3>1 DEF Prolongs
  <2>. QED
    BY <1>2, <1>5, <2>1, <2>2, <2>3
<1>9. /\ saved[r].called + 1 <= Cardinality(Kinds(new, "close"))
      /\ Cardinality(Kinds(new, "obs")) <= saved[r].called + 1
  BY <1>1, <1>3, <1>5, <1>6, <1>7
<1>. QED
  BY <1>2, <1>8, <1>9 DEF CallsAndAnswers, new

\* What the answer of the engine leaves, in the loop with tools and in the other.
LEMMA AnsweredRow ==
    ASSUME Types, Types', SyncInv, NEW r \in JobRows, RowInv(r), pc[r] = "answered",
           NEW data \in Responses, HandsOn(r, data), UNCHANGED <<job, syncVars>>,
           data.ids = Joined(r), data.start = saved[r].start, data.called = saved[r].called,
           pc'[r] # "complete" => Len(Joined(r)) < job.response_length, data.state # "new",
           data.state = "processing_tools" => multi_turn /\ HasCall(run[r].reply)
    PROVE  RowInv(r)'
<1>1. /\ Prolongs(saved[r].ids, data.ids)
      /\ \A i \in (Len(saved[r].ids) + 1)..Len(data.ids) : data.ids[i].ver = engine_version
  BY JoinedFacts DEF RowInv
<1>2. ~Over(r)
  BY DEF Over
<1>3. Running(r)' /\ Versions(r)' /\ Prolongs(saved[r].ids, saved'[r].ids)
  BY <1>1, <1>2, HandsOnRow
<1>4. CallsAndAnswers(r)'
  BY <1>3, AnswerCalls
<1>5. Served(r)' /\ Answered(r)'
  BY DEF HandsOn, Served, Answered
<1>. QED
  BY <1>3, <1>4, <1>5 DEF RowInv

\* A step that leaves the response as it is, and waits neither for the engine nor for
\* a tool.
LEMMA WaitingRow ==
    ASSUME Types, NEW r \in JobRows, RowInv(r), UNCHANGED <<job, syncVars>>, pc[r] = "begin",
           saved'[r].ids = saved[r].ids, saved'[r].start = saved[r].start,
           saved'[r].called = saved[r].called,
           \/ saved'[r].state = saved[r].state
           \/ saved'[r].state = "generating",
           \/ pc'[r] \in {"idle", "begin"}
           \/ pc'[r] = "sent" /\ run'[r].base = Len(saved[r].ids)
                              /\ saved[r].state # "processing_tools"
           \/ pc'[r] = "tools" /\ saved'[r].state = "processing_tools" /\ phase # "write",
           pc'[r] # "idle" => run'[r].stamp = run[r].stamp
    PROVE  RowInv(r)'
<1>1. /\ multi_turn' = multi_turn /\ engine_version' = engine_version /\ phase' = phase
      /\ current_param_version' = current_param_version
  BY DEF multi_turn, syncVars
<1>2. Served(r)' /\ Answered(r)'
  BY DEF Served, Answered
<1>3. Running(r)'
  BY <1>1 DEF RowInv, Running, Over
<1>4. Versions(r)'
  BY <1>1 DEF RowInv, Versions
<1>5. CallsAndAnswers(r)'
  BY DEF RowInv, CallsAndAnswers
<1>. QED
  BY <1>2, <1>3, <1>4, <1>5 DEF RowInv

\* A step of a run keeps what is known of its response.
LEMMA AgentLoopRowInv ==
    ASSUME Types, SyncInv, NEW r \in JobRows, RowInv(r), AgentLoop(r), Types'
    PROVE  RowInv(r)'
<1>1. UNCHANGED <<job, syncVars, serverVars, cancellation_event>>
  BY DEF AgentLoop, SingleCall, SingleReturn, ToolInterrupted, ToolPending, ToolCall,
         ToolAnswered, ToolProcess, ToolsReturn
<1>2. RowTypes /\ saved[r] \in Responses
  BY DEF Types, RowTypes
<1>3. CASE SingleCall(r) \/ ToolCall(r)
  <2>1. Call(r) /\ UNCHANGED <<job, saved>> /\ pc[r] = "begin"
    BY <1>3 DEF SingleCall, ToolCall, InState
  <2>2. pc'[r] = "sent" /\ run'[r].base = Len(saved[r].ids) /\ run'[r].stamp = run[r].stamp
    BY <2>1, CallRow
  <2>3. saved[r].state # "processing_tools"
    BY <1>3 DEF SingleCall, ToolCall, InState, RowInv, Running
  <2>. QED
    BY <1>1, <2>1, <2>2, <2>3, WaitingRow
<1>4. CASE SingleReturn(r)
  <2>. DEFINE data == [saved[r] EXCEPT !.ids = Joined(r)]
  <2>1. data \in Responses
    BY JoinedData
  <2>2. /\ data.ids = Joined(r) /\ data.start = saved[r].start /\ data.called = saved[r].called
        /\ data.state = saved[r].state
    BY <1>2, Zenon DEF Responses
  <2>3. HandsOn(r, data) /\ (pc'[r] # "complete" => Len(Joined(r)) < job.response_length)
    BY <1>4, SingleReturnEffect
  <2>. HIDE DEF data
  <2>4. pc[r] = "answered"
    BY <1>4 DEF SingleReturn
  <2>5. data.state # "new" /\ data.state # "processing_tools"
    BY <2>2, <2>4 DEF RowInv, Running
  <2>. QED
    BY <1>1, <2>1, <2>2, <2>3, <2>4, <2>5, AnsweredRow
<1>5. CASE ToolInterrupted(r)
  BY <1>1, <1>2, <1>5, WaitingRow DEF ToolInterrupted, RowTypes
<1>6. CASE ToolPending(r)
  <2>. DEFINE new == [saved[r] EXCEPT !.state = "generating"]
  <2>1. saved'[r] = new /\ pc' = pc /\ run' = run /\ pc[r] = "begin"
    BY <1>2, <1>6 DEF ToolPending, InState, RowTypes
  <2>2. /\ new.ids = saved[r].ids /\ new.start = saved[r].start /\ new.called = saved[r].called
        /\ new.state = "generating"
    BY <1>2, Zenon DEF Responses
  <2>. HIDE DEF new
  <2>. QED
    BY <1>1, <2>1, <2>2, WaitingRow
<1>7. CASE ToolAnswered(r)
  <2>. DEFINE data == [saved[r] EXCEPT !.ids = Joined(r), !.state = NextState(r)]
  <2>1. /\ data \in Responses /\ data.state = NextState(r) /\ data.ids = Joined(r)
        /\ data.start = saved[r].start /\ data.called = saved[r].called
    BY AnsweredData
  <2>2. Proceed(r, data) /\ multi_turn /\ pc[r] = "answered"
    BY <1>7 DEF ToolAnswered
  <2>. HIDE DEF data
  <2>3. HandsOn(r, data) /\ pc'[r] = IF data.state = "terminated" THEN "complete" ELSE "begin"
    BY <1>1, <2>1, <2>2, ProceedEffect
  <2>4. /\ data.state # "terminated" => ~(Len(Joined(r)) >= job.response_length)
        /\ data.state # "new"
        /\ data.state = "processing_tools" => HasCall(run[r].reply)
    BY <2>1 DEF NextState
  <2>5. pc'[r] # "complete" => Len(Joined(r)) < job.response_length
    <3>1. Len(Joined(r)) \in Nat /\ job.response_length \in Nat
      BY <2>2, JoinedFacts, JobFacts DEF RowInv
    <3>. QED
      BY <2>3, <2>4, <3>1
  <2>. QED
    BY <1>1, <2>1, <2>2, <2>3, <2>4, <2>5, AnsweredRow
<1>8. CASE ToolProcess(r)
  <2>1. pc'[r] = "tools" /\ saved' = saved /\ run' = run /\ pc[r] = "begin"
    BY <1>2, <1>8 DEF ToolProcess, InState, RowTypes
  <2>2. saved[r].state = "processing_tools" /\ phase # "write"
    BY <1>8 DEF ToolProcess, InState, SyncInv, Told
  <2>. QED
    BY <1>1, <2>1, <2>2, WaitingRow
<1>9. CASE ToolsReturn(r)
  <2>. DEFINE data == AfterTools(r)
              ids == saved[r].ids
  <2>1. /\ data \in Responses /\ data.start = saved[r].start
        /\ Len(ids) \in Nat
        /\ IF Len(ids) + 1 >= job.response_length
           THEN data.state = "terminated" /\ data.ids = ids
           ELSE /\ data.state = "generating" /\ Len(data.ids) = Len(ids) + 1
                /\ \A i \in 1..Len(ids) : data.ids[i] = ids[i]
                /\ data.ids[Len(ids) + 1] = Token(Len(ids) + 1, engine_version, "obs")
    BY AfterToolsData
  <2>2. Proceed(r, data) /\ pc[r] = "tools"
    BY <1>9 DEF ToolsReturn
  <2>. HIDE DEF data, ids
  <2>3. HandsOn(r, data) /\ pc'[r] = IF data.state = "terminated" THEN "complete" ELSE "begin"
    BY <1>1, <2>1, <2>2, ProceedEffect
  <2>4. Prolongs(ids, data.ids)
    BY <2>1 DEF Prolongs
  <2>5. \A i \in (Len(ids) + 1)..Len(data.ids) : data.ids[i].ver = engine_version
    BY <2>1 DEF Token
  <2>6. pc'[r] # "complete" => Len(data.ids) < job.response_length
    <3>1. job.response_length \in Nat
      BY JobFacts
    <3>. QED
      BY <2>1, <2>3, <3>1
  <2>7. data.state # "new" /\ data.state # "processing_tools"
    BY <2>1
  <2>8. ~Over(r)
    BY <2>2 DEF Over
  <2>9. Running(r)' /\ Versions(r)' /\ Prolongs(ids, saved'[r].ids)
    BY <1>1, <2>1, <2>3, <2>4, <2>5, <2>6, <2>7, <2>8, HandsOnRow DEF ids
  <2>10. CallsAndAnswers(r)'
    BY <1>1, <2>2, <2>3, <2>9, ToolCalls DEF data, ids
  <2>11. Served(r)' /\ Answered(r)'
    BY <2>3 DEF HandsOn, Served, Answered
  <2>. QED
    BY <2>9, <2>10, <2>11 DEF RowInv
<1>. QED
  BY <1>3, <1>4, <1>5, <1>6, <1>7, <1>8, <1>9 DEF AgentLoop

\* A run does nothing to the tables of the servers while its request is not there.
LEMMA AgentLoopOwnEntries ==
    ASSUME Types, NEW r \in JobRows, OwnEntries(r), AgentLoop(r)
    PROVE  OwnEntries(r)' /\ saved'[r].uuid = saved[r].uuid
<1>1. /\ UNCHANGED <<job, syncVars, serverVars>> /\ pc[r] # "generating"
      /\ Pauses' = Pauses
  BY DEF AgentLoop, SingleCall, SingleReturn, ToolInterrupted, ToolPending, ToolCall,
         ToolAnswered, ToolProcess, ToolsReturn, InState, Pauses, syncVars
<1>2. OwnEntries(r)'
  BY <1>1 DEF OwnEntries, Serving, serverVars
<1>3. saved[r] \in Responses
  BY DEF Types, RowTypes
<1>4. saved'[r].uuid = saved[r].uuid
  <2>1. CASE SingleCall(r) \/ ToolCall(r) \/ ToolInterrupted(r) \/ ToolProcess(r)
    BY <2>1 DEF SingleCall, ToolCall, ToolInterrupted, ToolProcess
  <2>2. CASE SingleReturn(r)
    <3>1. HandsOn(r, [saved[r] EXCEPT !.ids = Joined(r)])
      BY <2>2, SingleReturnEffect
    <3>. QED
      BY <1>3, <3>1 DEF HandsOn, Responses
  <2>3. CASE ToolPending(r)
    BY <1>3, <2>3 DEF ToolPending, Responses, Types, RowTypes
  <2>4. CASE ToolAnswered(r)
    <3>. DEFINE data == [saved[r] EXCEPT !.ids = Joined(r), !.state = NextState(r)]
    <3>1. data \in Responses /\ data.uuid = saved[r].uuid
      BY AnsweredData
    <3>2. Proceed(r, data)
      BY <2>4 DEF ToolAnswered
    <3>. HIDE DEF data
    <3>. QED
      BY <1>1, <3>1, <3>2, ProceedEffect DEF HandsOn
  <2>5. CASE ToolsReturn(r)
    <3>1. AfterTools(r) \in Responses /\ AfterTools(r).uuid = saved[r].uuid
      BY AfterToolsData
    <3>2. Proceed(r, AfterTools(r))
      BY <2>5 DEF ToolsReturn
    <3>. QED
      BY <1>1, <3>1, <3>2, ProceedEffect DEF HandsOn
  <2>. QED
    BY <2>1, <2>2, <2>3, <2>4, <2>5 DEF AgentLoop
<1>. QED
  BY <1>2, <1>4

-----------------------------------------------------------------------------
(* The invariant and what it gives *)

\* No response is begun, and no server has a request.
LEMMA GenInit == Init => GenInv
<1>. SUFFICES ASSUME Init PROVE GenInv
  OBVIOUS
<1>1. job \in Jobs /\ JobRows \subseteq Rows /\ job.response_length \in Nat \ {0} /\ job.syncs \in Nat
  BY GenerationAssumption, Zenon DEF Init, JobRows
<1>. DEFINE fresh == [ids |-> <<>>, state |-> "new", uuid |-> 0, start |-> 0, end |-> 0, called |-> 0]
<1>2. fresh \in Responses
  BY DEF Responses
<1>3. /\ pc = [r \in JobRows |-> "idle"] /\ run = [r \in JobRows |-> NoRun]
      /\ saved = [r \in JobRows |-> fresh]
  BY DEF Init
<1>4. RowTypes
  BY <1>2, <1>3, NoRunType DEF RowTypes
<1>5. ServerTypes
  <2>1. \A s \in Servers : req_output[s] = <<>> /\ cancel_event[s] = <<>>
    BY DEF Init
  <2>2. DOMAIN <<>> = {}
    OBVIOUS
  <2>3. serverPaused \in [Servers -> BOOLEAN]
    <3>1. FALSE \in BOOLEAN
      OBVIOUS
    <3>. QED
      BY <3>1, Zenon DEF Init
  <2>. QED
    BY <2>1, <2>2, <2>3 DEF Init, ServerTypes
<1>6. ManagerTypes
  BY DEF Init, ManagerTypes
<1>7. SyncTypes
  BY DEF Init, SyncTypes
<1>8. SyncInv
  BY <1>1 DEF Init, SyncInv, Told
<1>9. IdsInv /\ LeftoversAreEmpty
  <2>1. \A s \in Servers : DOMAIN req_output[s] = {}
    BY DEF Init
  <2>2. \A r \in JobRows : saved[r].uuid = 0
    BY <1>3
  <2>. QED
    BY <2>1, <2>2 DEF Init, IdsInv, LeftoversAreEmpty, Pauses
<1>10. ASSUME NEW r \in JobRows
       PROVE  RowInv(r)
  <2>1. /\ pc[r] = "idle" /\ saved[r].ids = <<>> /\ saved[r].state = "new" /\ saved[r].start = 0
        /\ saved[r].called = 0
    BY <1>3
  <2>2. Len(<<>>) = 0
    OBVIOUS
  <2>3. Kinds(saved[r].ids, "close") = {} /\ Kinds(saved[r].ids, "obs") = {}
    BY <2>1, <2>2 DEF Kinds
  <2>4. /\ Cardinality(Kinds(saved[r].ids, "close")) = 0
        /\ Cardinality(Kinds(saved[r].ids, "obs")) = 0
    BY <2>3, FS_EmptySet
  <2>5. Served(r) /\ Answered(r) /\ Versions(r)
    BY <2>1, <2>2 DEF Served, Answered, Versions
  <2>6. Running(r)
    BY <1>1, <2>1, <2>2 DEF Running, Over, Init
  <2>7. CallsAndAnswers(r)
    BY <2>1, <2>3, <2>4 DEF CallsAndAnswers
  <2>. QED
    BY <2>5, <2>6, <2>7 DEF RowInv
<1>. QED
  BY <1>4, <1>5, <1>6, <1>7, <1>8, <1>9, <1>10 DEF GenInv, Types

\* Every step keeps the invariant.
LEMMA GenNext == GenInv /\ [Next]_vars => GenInv'
<1>. SUFFICES ASSUME GenInv, [Next]_vars PROVE GenInv'
  OBVIOUS
<1>1. Types /\ SyncInv /\ IdsInv /\ LeftoversAreEmpty /\ \A r \in JobRows : RowInv(r)
  BY DEF GenInv
<1>2. ASSUME NEW s \in Samples, Submit(s)
      PROVE  GenInv'
  <2>1. JobRows' = JobRows /\ SyncInv'
    BY <1>1, <1>2 DEF Submit, JobRows, SyncInv, Told, syncVars, serverVars
  <2>. QED
    BY <1>1, <1>2, <2>1, SubmitTypes, SubmitRowInv, SubmitEntries DEF GenInv
<1>3. CASE Synchronize
  <2>1. JobRows' = JobRows
    BY <1>3, SynchronizeFrame DEF JobRows
  <2>. QED
    BY <1>1, <1>3, <2>1, SynchronizeTypes, SynchronizeSyncInv, SynchronizeRowInv, SynchronizeEntries
       DEF GenInv
<1>4. ASSUME NEW r \in JobRows, Serve(r) \/ AgentLoop(r)
      PROVE  GenInv'
  <2>1. Served(r) /\ OwnEntries(r)
    BY <1>1, OwnFromEntries DEF RowInv
  <2>2. Types' /\ RowStep(r)
    BY <1>1, <1>4, <2>1, ServeStep, AgentLoopStep
  <2>3. RowInv(r)'
    BY <1>1, <1>4, <2>2, ServeRowInv, AgentLoopRowInv
  <2>4. \A q \in JobRows : RowInv(q)'
    BY <1>1, <2>2, <2>3, OthersRowInv
  <2>5. OwnEntries(r)' /\ saved'[r].uuid = saved[r].uuid
    <3>1. CASE Serve(r)
      <4>1. saved' = saved
        BY <3>1 DEF Serve, Refuse, Register, EngineOutput, AnswerEmpty, AnswerOutput, rowVars
      <4>. QED
        BY <1>1, <2>1, <3>1, <4>1, ServeOwnEntries
    <3>2. CASE AgentLoop(r)
      BY <1>1, <2>1, <3>2, AgentLoopOwnEntries
    <3>. QED
      BY <1>4, <3>1, <3>2
  <2>6. IdsInv' /\ LeftoversAreEmpty'
    BY <1>1, <2>2, <2>5, EntriesFromOwn
  <2>7. JobRows' = JobRows /\ SyncInv'
    BY <1>1, <2>2 DEF RowStep, JobRows, SyncInv, Told, syncVars
  <2>. QED
    BY <2>2, <2>4, <2>6, <2>7 DEF GenInv
<1>5. CASE UNCHANGED vars
  <2>1. UNCHANGED <<job, syncVars, serverVars, cancellation_event, managerVars, rowVars>>
    BY <1>5 DEF vars
  <2>2. /\ JobRows' = JobRows /\ Pauses' = Pauses /\ multi_turn' = multi_turn
        /\ UNCHANGED <<job, phase, undelivered, current_param_version, engine_version,
                       serverPaused, req_output, cancel_event, cancellation_event, load, session,
                       pc, run, saved>>
    BY <2>1 DEF JobRows, Pauses, multi_turn, syncVars, serverVars, managerVars, rowVars
  <2>3. Types'
    BY <1>1, <2>2 DEF Types, RowTypes, ServerTypes, ManagerTypes, SyncTypes
  <2>4. SyncInv'
    BY <1>1, <2>2 DEF SyncInv, Told
  <2>5. IdsInv' /\ LeftoversAreEmpty'
    BY <1>1, <2>2 DEF IdsInv, LeftoversAreEmpty, Serving, RequestId
  <2>6. ASSUME NEW r \in JobRows
        PROVE  RowInv(r)'
    <3>1. RowInv(r)
      BY <1>1
    <3>2. Served(r)' /\ Answered(r)'
      BY <2>2, <3>1 DEF RowInv, Served, Answered, RequestId, Output, IsCancelled
    <3>3. Running(r)' /\ Versions(r)' /\ CallsAndAnswers(r)'
      BY <2>2, <3>1 DEF RowInv, Running, Over, Versions, CallsAndAnswers
    <3>. QED
      BY <3>2, <3>3 DEF RowInv
  <2>. QED
    BY <2>2, <2>3, <2>4, <2>5, <2>6 DEF GenInv
<1>. QED
  BY <1>2, <1>3, <1>4, <1>5 DEF Next, Ended

\* The invariant holds of every behaviour.
LEMMA GenInvariant == Spec => []GenInv
BY GenInit, GenNext, PTL DEF Spec

\* Every variable holds a value of its kind, and the two tables of a server have the
\* same requests.
THEOREM GenTypesCorrect == Spec => []GenTypeOK
<1>1. GenInv => GenTypeOK
  <2>. SUFFICES ASSUME GenInv PROVE GenTypeOK
    OBVIOUS
  <2>1. Types /\ SyncInv
    BY DEF GenInv
  <2>2. /\ job \in Jobs /\ cancellation_event \in BOOLEAN
        /\ phase \in {"run", "cancel", "write", "written", "resume"} /\ undelivered \subseteq Targets
    BY <2>1 DEF Types, SyncTypes
  <2>3. engine_version \in 0..job.syncs /\ current_param_version \in 0..engine_version
    BY <2>1, JobFacts DEF Types, SyncTypes, SyncInv
  <2>4. /\ serverPaused \in [Servers -> BOOLEAN]
        /\ \A s \in Servers : /\ DOMAIN req_output[s] = DOMAIN cancel_event[s]
                              /\ DOMAIN req_output[s] \subseteq RequestIds
                              /\ \A id \in DOMAIN cancel_event[s] : cancel_event[s][id] \in BOOLEAN
    BY <2>1, Zenon DEF Types, ServerTypes
  <2>5. load \in [Servers -> Nat] /\ session \in [JobRows -> SUBSET Servers]
    BY <2>1 DEF Types, ManagerTypes
  <2>6. /\ pc \in [JobRows -> {"idle", "begin", "sent", "generating", "answered", "tools", "complete"}]
        /\ \A r \in JobRows : saved[r].state \in {"new", "pending", "generating",
                                                  "processing_tools", "terminated"}
    BY <2>1, ResponseFields DEF Types, RowTypes
  <2>. QED
    BY <2>2, <2>3, <2>4, <2>5, <2>6, Zenon DEF GenTypeOK
<1>. QED
  BY <1>1, GenInvariant, PTL

\* What a pause leaves in the tables of a server takes no part in what it serves after
\* the next resume: an event that is set means that the pause goes on, and an entry
\* nobody serves is empty.
THEOREM NothingIsStale == Spec => []NothingStale
<1>1. GenInv => NothingStale
  <2>. SUFFICES ASSUME GenInv PROVE NothingStale
    OBVIOUS
  <2>1. ASSUME NEW r \in JobRows, NEW s \in Servers, Serving(r, s), IsCancelled(r)
        PROVE  serverPaused[s]
    BY <2>1 DEF GenInv, RowInv, Served, Serving
  <2>. QED
    BY <2>1 DEF GenInv, NothingStale, NoStaleCancel
<1>. QED
  BY <1>1, GenInvariant, PTL

\* While weights are written no server generates and no tool runs.
THEOREM WritingIsQuiet == Spec => []QuietWhileWriting
<1>1. GenInv => QuietWhileWriting
  <2>. SUFFICES ASSUME GenInv, phase = "write", NEW r \in JobRows
                PROVE  pc[r] \notin {"generating", "tools"}
    BY DEF QuietWhileWriting
  <2>1. pc[r] # "generating"
    BY GeneratingPhase DEF GenInv, RowInv
  <2>2. pc[r] # "tools"
    BY DEF GenInv, RowInv, Running
  <2>. QED
    BY <2>1, <2>2
<1>. QED
  BY <1>1, GenInvariant, PTL

\* The stamps bracket the weights that made a response, however often it was cut off.
THEOREM StampsAreBrackets == Spec => []StampsBracket
<1>1. GenInv => StampsBracket
  <2>. SUFFICES ASSUME GenInv, NEW r \in JobRows, NEW i \in DOMAIN saved[r].ids
                PROVE  /\ saved[r].ids[i].ver >= saved[r].start
                       /\ pc[r] = "complete" => saved[r].ids[i].ver <= saved[r].end + 1
    BY DEF StampsBracket
  <2>1. saved[r].ids \in Seq(Tokens)
    BY JoinedData DEF GenInv
  <2>2. i \in 1..Len(saved[r].ids)
    BY <2>1
  <2>. QED
    BY <2>2 DEF GenInv, RowInv, Versions
<1>. QED
  BY <1>1, GenInvariant, PTL

\* No interruption makes a tool run twice for a call, or its answer miss its place.
THEOREM ToolsRunOnce == Spec => []ToolRunsOnce
<1>1. GenInv => ToolRunsOnce
  <2>. SUFFICES ASSUME GenInv PROVE ToolRunsOnce
    OBVIOUS
  <2>1. ASSUME NEW r \in JobRows
        PROVE  /\ saved[r].called <= Cardinality({i \in DOMAIN saved[r].ids :
                                                     saved[r].ids[i].kind = "close"})
               /\ Cardinality({i \in DOMAIN saved[r].ids : saved[r].ids[i].kind = "obs"})
                     <= saved[r].called
               /\ \A i \in DOMAIN saved[r].ids :
                     saved[r].ids[i].kind = "obs" => i > 2 /\ saved[r].ids[i - 1].kind = "close"
    <3>1. saved[r].ids \in Seq(Tokens)
      BY JoinedData DEF GenInv
    <3>2. DOMAIN saved[r].ids = 1..Len(saved[r].ids)
      BY <3>1
    <3>3. CallsAndAnswers(r)
      <4>1. RowInv(r)
        BY DEF GenInv
      <4>. QED
        BY <4>1 DEF RowInv
    <3>. QED
      BY <3>2, <3>3 DEF CallsAndAnswers, Kinds
  <2>. QED
    BY <2>1 DEF ToolRunsOnce
<1>. QED
  BY <1>1, GenInvariant, PTL

-----------------------------------------------------------------------------
(* What is promised of partial rollout, but that responses end *)

\* A response goes on where it ended, with tokens made for their places now.
Goes(r) == /\ phase # "write" /\ pc[r] # "complete"
           /\ Abstract!Continues(saved[r].ids, saved'[r].ids, engine_version)

\* A response that prolongs another has it as a prefix.
LEMMA ProlongsIsPrefix ==
    ASSUME NEW old \in Seq(Tokens), NEW new \in Seq(Tokens), Prolongs(old, new)
    PROVE  IsPrefix(old, new)
<1>1. Len(old) \in Nat /\ Len(new) \in Nat /\ Len(old) <= Len(new)
  BY DEF Prolongs
<1>2. SubSeq(old, 1, Len(old)) = SubSeq(new, 1, Len(old))
  BY <1>1 DEF Prolongs
<1>. QED
  BY <1>1, <1>2 DEF IsPrefix

\* The steps of a run leave its response alone or prolong it so.
LEMMA AgentLoopGoes ==
    ASSUME GenInv, GenInv', NEW r \in JobRows, AgentLoop(r)
    PROVE  \/ saved'[r].ids = saved[r].ids /\ (pc'[r] = "complete" <=> pc[r] = "complete")
           \/ Goes(r)
<1>. DEFINE Same == saved'[r].ids = saved[r].ids /\ (pc'[r] = "complete" <=> pc[r] = "complete")
<1>1. Types /\ Types' /\ SyncInv /\ RowInv(r) /\ saved[r] \in Responses
  BY DEF GenInv, Types, RowTypes
<1>2. saved[r].ids \in Seq(Tokens) /\ saved'[r].ids \in Seq(Tokens)
  <2>1. JobRows' = JobRows
    BY <1>1, AgentLoopStep DEF RowStep, JobRows
  <2>2. saved'[r] \in Responses
    BY <1>1, <2>1 DEF Types, RowTypes
  <2>. QED
    BY <1>1, <2>2, ResponseFields
<1>3. Len(saved[r].ids) \in Nat /\ Len(saved'[r].ids) \in Nat
  BY <1>2
<1>4. UNCHANGED <<job, syncVars>>
  BY <1>1, AgentLoopStep DEF RowStep
<1>5. ASSUME NEW data \in Responses, HandsOn(r, data), ~Over(r), phase # "write",
             Prolongs(saved[r].ids, data.ids), data.start = saved[r].start,
             \A i \in (Len(saved[r].ids) + 1)..Len(data.ids) :
                 data.ids[i].pos = i /\ data.ids[i].ver = engine_version,
             pc'[r] # "complete" => Len(data.ids) < job.response_length,
             data.state # "new", data.state = "processing_tools" => multi_turn
      PROVE  Goes(r)
  <2>1. Prolongs(saved[r].ids, saved'[r].ids)
    BY <1>1, <1>4, <1>5, HandsOnRow
  <2>2. IsPrefix(saved[r].ids, saved'[r].ids)
    BY <1>2, <2>1, ProlongsIsPrefix
  <2>3. Len(data.ids) \in Nat
    <3>1. data.ids \in Seq(Tokens)
      BY <1>5, ResponseFields
    <3>. QED
      BY <3>1
  <2>4. \A i \in (Len(saved[r].ids) + 1)..Len(saved'[r].ids) :
            saved'[r].ids[i].pos = i /\ saved'[r].ids[i].ver = engine_version
    BY <1>3, <1>5, <2>3 DEF HandsOn
  <2>5. pc[r] # "complete"
    BY <1>5 DEF Over
  <2>6. Abstract!IsPrefix(saved[r].ids, saved'[r].ids)
    BY <2>2 DEF IsPrefix, Abstract!IsPrefix
  <2>. QED
    BY <1>5, <2>4, <2>5, <2>6 DEF Goes, Abstract!Continues
<1>6. ASSUME pc[r] = "answered"
      PROVE  /\ Prolongs(saved[r].ids, Joined(r)) /\ Len(Joined(r)) \in Nat
             /\ \A i \in (Len(saved[r].ids) + 1)..Len(Joined(r)) :
                    Joined(r)[i].pos = i /\ Joined(r)[i].ver = engine_version
             /\ ~Over(r) /\ saved[r].state # "new" /\ saved[r].state # "processing_tools"
             /\ phase = "write" => /\ Joined(r) = saved[r].ids /\ run[r].is_cancel
                                   /\ Len(Joined(r)) < job.response_length
  <2>1. /\ Prolongs(saved[r].ids, Joined(r)) /\ Len(Joined(r)) \in Nat
        /\ \A i \in (Len(saved[r].ids) + 1)..Len(Joined(r)) :
               Joined(r)[i].pos = i /\ Joined(r)[i].ver = engine_version
    BY <1>1, <1>6, JoinedFacts DEF RowInv
  <2>2. ~Over(r) /\ saved[r].state # "new" /\ saved[r].state # "processing_tools"
    BY <1>1, <1>6 DEF Over, RowInv, Running
  <2>3. ASSUME phase = "write"
        PROVE  /\ Joined(r) = saved[r].ids /\ run[r].is_cancel
               /\ Len(Joined(r)) < job.response_length
    <3>1. run[r].reply = <<>> /\ run[r].is_cancel
      BY <1>1, <1>6, <2>3 DEF RowInv, Answered
    <3>2. saved[r].ids \o <<>> = saved[r].ids
      BY <1>2
    <3>. QED
      BY <1>1, <1>6, <3>1, <3>2 DEF Joined, RowInv, Running
  <2>. QED
    BY <2>1, <2>2, <2>3
<1>7. CASE SingleCall(r) \/ ToolCall(r)
  <2>1. Call(r) /\ UNCHANGED <<job, saved>> /\ pc[r] = "begin"
    BY <1>7 DEF SingleCall, ToolCall, InState
  <2>2. pc'[r] = "sent"
    BY <1>1, <2>1, CallRow
  <2>. QED
    BY <2>1, <2>2
<1>8. CASE SingleReturn(r)
  <2>. DEFINE data == [saved[r] EXCEPT !.ids = Joined(r)]
  <2>1. data \in Responses
    BY <1>1, JoinedData
  <2>2. data.ids = Joined(r) /\ data.start = saved[r].start /\ data.state = saved[r].state
    BY <1>1, Zenon DEF Responses
  <2>3. /\ HandsOn(r, data) /\ pc[r] = "answered"
        /\ pc'[r] = IF run[r].is_cancel /\ Len(Joined(r)) < job.response_length
                    THEN "idle" ELSE "complete"
    BY <1>1, <1>8, SingleReturnEffect DEF SingleReturn
  <2>. HIDE DEF data
  <2>4. CASE phase = "write"
    BY <1>6, <2>2, <2>3, <2>4 DEF HandsOn
  <2>5. CASE phase # "write"
    BY <1>5, <1>6, <2>1, <2>2, <2>3, <2>5
  <2>. QED
    BY <2>4, <2>5
<1>9. CASE ToolInterrupted(r) \/ ToolProcess(r)
  BY <1>1, <1>9 DEF ToolInterrupted, ToolProcess, InState, Types, RowTypes
<1>10. CASE ToolPending(r)
  <2>1. saved'[r] = [saved[r] EXCEPT !.state = "generating"] /\ pc' = pc
    BY <1>1, <1>10 DEF ToolPending, Types, RowTypes
  <2>. QED
    BY <1>1, <2>1 DEF Responses
<1>11. CASE ToolAnswered(r)
  <2>. DEFINE data == [saved[r] EXCEPT !.ids = Joined(r), !.state = NextState(r)]
  <2>1. /\ data \in Responses /\ data.state = NextState(r) /\ data.ids = Joined(r)
        /\ data.start = saved[r].start
    BY <1>1, AnsweredData
  <2>2. Proceed(r, data) /\ multi_turn /\ pc[r] = "answered"
    BY <1>11 DEF ToolAnswered
  <2>. HIDE DEF data
  <2>3. HandsOn(r, data) /\ pc'[r] = IF data.state = "terminated" THEN "complete" ELSE "begin"
    BY <1>1, <1>4, <2>1, <2>2, ProceedEffect
  <2>4. job.response_length \in Nat
    BY <1>1, JobFacts
  <2>5. CASE phase = "write"
    <3>1. data.state = "generating"
      BY <1>6, <2>1, <2>2, <2>4, <2>5 DEF NextState
    <3>. QED
      BY <1>6, <2>1, <2>2, <2>3, <2>5, <3>1 DEF HandsOn
  <2>6. CASE phase # "write"
    <3>1. data.state # "terminated" => Len(data.ids) < job.response_length
      BY <1>6, <2>1, <2>2, <2>4 DEF NextState
    <3>2. data.state # "new"
      BY <2>1 DEF NextState
    <3>3. /\ Prolongs(saved[r].ids, data.ids) /\ ~Over(r)
          /\ \A i \in (Len(saved[r].ids) + 1)..Len(data.ids) :
                 data.ids[i].pos = i /\ data.ids[i].ver = engine_version
      BY <1>6, <2>1, <2>2
    <3>4. pc'[r] # "complete" => Len(data.ids) < job.response_length
      BY <2>3, <3>1
    <3>. QED
      BY <1>5, <2>1, <2>2, <2>3, <2>6, <3>2, <3>3, <3>4
  <2>. QED
    BY <2>5, <2>6
<1>12. CASE ToolsReturn(r)
  <2>. DEFINE data == AfterTools(r)
              ids == saved[r].ids
  <2>1. /\ data \in Responses /\ data.start = saved[r].start
        /\ IF Len(ids) + 1 >= job.response_length
           THEN data.state = "terminated" /\ data.ids = ids
           ELSE /\ data.state = "generating" /\ Len(data.ids) = Len(ids) + 1
                /\ \A i \in 1..Len(ids) : data.ids[i] = ids[i]
                /\ data.ids[Len(ids) + 1] = Token(Len(ids) + 1, engine_version, "obs")
    BY <1>1, AfterToolsData
  <2>2. Proceed(r, data) /\ pc[r] = "tools"
    BY <1>12 DEF ToolsReturn
  <2>3. phase # "write" /\ ~Over(r)
    BY <1>1, <2>2 DEF RowInv, Running, Over
  <2>. HIDE DEF data
  <2>4. HandsOn(r, data) /\ pc'[r] = IF data.state = "terminated" THEN "complete" ELSE "begin"
    BY <1>1, <1>4, <2>1, <2>2, ProceedEffect
  <2>5. job.response_length \in Nat
    BY <1>1, JobFacts
  <2>6. Prolongs(ids, data.ids)
    BY <1>3, <2>1 DEF Prolongs
  <2>7. \A i \in (Len(ids) + 1)..Len(data.ids) :
            data.ids[i].pos = i /\ data.ids[i].ver = engine_version
    BY <1>3, <2>1 DEF Token
  <2>8. /\ pc'[r] # "complete" => Len(data.ids) < job.response_length
        /\ data.state # "new" /\ data.state # "processing_tools"
    BY <1>3, <2>1, <2>4, <2>5
  <2>. QED
    BY <1>5, <2>1, <2>3, <2>4, <2>6, <2>7, <2>8
<1>. QED
  BY <1>7, <1>8, <1>9, <1>10, <1>11, <1>12 DEF AgentLoop

\* The responses, and which of them are complete, as the abstract specification sees them.
AbsResponse == [r \in Rows |-> IF r \in JobRows THEN saved[r].ids ELSE <<>>]
AbsFinished == {r \in Rows : r \in JobRows => pc[r] = "complete"}

\* Every step of partial generation is a step of the abstract specification, or none.
LEMMA ResumableStep ==
    ASSUME GenInv, GenInv', [Next]_vars
    PROVE  [Abstract!ResumableNext]_(Abstract!absVars)
<1>1. Types /\ SyncInv /\ JobRows \subseteq Rows
  BY JobFacts DEF GenInv
<1>. DEFINE Stutters == /\ AbsResponse' = AbsResponse /\ AbsFinished' = AbsFinished
                        /\ engine_version' = engine_version
                        /\ (phase' = "write") = (phase = "write")
<1>2. ASSUME Stutters
      PROVE  UNCHANGED Abstract!absVars
  BY <1>2 DEF Abstract!absVars, AbsResponse, AbsFinished
<1>3. ASSUME JobRows' = JobRows, \A r \in JobRows : /\ saved'[r].ids = saved[r].ids
                                                    /\ pc'[r] = "complete" <=> pc[r] = "complete"
      PROVE  AbsResponse' = AbsResponse /\ AbsFinished' = AbsFinished
  BY <1>3 DEF AbsResponse, AbsFinished
<1>4. ASSUME NEW s \in Samples, Submit(s)
      PROVE  Stutters
  <2>1. /\ JobRows' = JobRows /\ UNCHANGED syncVars
    BY <1>4 DEF Submit, JobRows
  <2>2. \A r \in JobRows : /\ saved'[r].ids = saved[r].ids
                           /\ pc'[r] = "complete" <=> pc[r] = "complete"
    BY <1>1, <1>4, SubmitEffect DEF Begins, GenInv
  <2>. QED
    BY <1>3, <2>1, <2>2 DEF syncVars
<1>5. CASE Synchronize
  <2>1. UNCHANGED <<job, pc, saved>> /\ JobRows' = JobRows
    BY <1>5, SynchronizeFrame DEF JobRows
  <2>2. AbsResponse' = AbsResponse /\ AbsFinished' = AbsFinished
    BY <1>3, <2>1
  <2>3. CASE Cancelled
    <3>1. /\ phase # "write" /\ phase' = "write" /\ engine_version' = engine_version
      BY <2>3 DEF Cancelled
    <3>2. Abstract!Write
      BY <2>2, <3>1 DEF Abstract!Write, AbsResponse, AbsFinished
    <3>. QED
      BY <3>2 DEF Abstract!ResumableNext
  <2>4. CASE WeightsWritten
    <3>1. /\ phase = "write" /\ phase' # "write" /\ engine_version' = engine_version + 1
      BY <2>4 DEF WeightsWritten
    <3>2. Abstract!Written
      BY <2>2, <3>1 DEF Abstract!Written, AbsResponse, AbsFinished
    <3>. QED
      BY <3>2 DEF Abstract!ResumableNext
  <2>5. CASE ~Cancelled /\ ~WeightsWritten
    <3>1. /\ engine_version' = engine_version /\ phase # "write" /\ phase' # "write"
      BY <1>5, <2>5 DEF Synchronize, Pause, StartResume, DeliverCancel, DeliverResume
    <3>. QED
      BY <1>2, <2>2, <3>1
  <2>. QED
    BY <2>3, <2>4, <2>5
<1>6. ASSUME NEW r \in JobRows, Serve(r)
      PROVE  Stutters
  <2>1. /\ JobRows' = JobRows /\ UNCHANGED <<syncVars, saved>>
        /\ pc[r] \in {"sent", "generating"}
    BY <1>6 DEF Serve, Refuse, Register, EngineOutput, AnswerEmpty, AnswerOutput, rowVars, JobRows
  <2>2. RowStep(r) /\ pc'[r] # "complete"
    <3>1. RowInv(r)
      BY DEF GenInv
    <3>2. RowStep(r)
      BY <1>1, <1>6, <3>1, ServeStep DEF RowInv
    <3>3. pc \in [JobRows -> {"idle", "begin", "sent", "generating", "answered", "tools", "complete"}]
      BY <1>1 DEF Types, RowTypes
    <3>4. pc'[r] \in {pc[r], "generating", "answered"}
      BY <1>6, <3>3 DEF Serve, Refuse, Register, EngineOutput, AnswerEmpty, AnswerOutput, Answer,
                        rowVars
    <3>. QED
      BY <2>1, <3>2, <3>4
  <2>3. \A q \in JobRows : /\ saved'[q].ids = saved[q].ids
                           /\ pc'[q] = "complete" <=> pc[q] = "complete"
    BY <2>1, <2>2 DEF RowStep
  <2>. QED
    BY <1>3, <2>1, <2>3 DEF syncVars
<1>7. ASSUME NEW r \in JobRows, AgentLoop(r)
      PROVE  [Abstract!ResumableNext]_(Abstract!absVars)
  <2>1. RowStep(r) /\ JobRows' = JobRows
    BY <1>1, <1>7, AgentLoopStep DEF RowStep, JobRows
  <2>2. \A q \in JobRows \ {r} : saved'[q] = saved[q] /\ pc'[q] = pc[q]
    BY <2>1 DEF RowStep
  <2>3. engine_version' = engine_version /\ phase' = phase
    BY <2>1 DEF RowStep, syncVars
  <2>4. CASE saved'[r].ids = saved[r].ids /\ (pc'[r] = "complete" <=> pc[r] = "complete")
    <3>1. AbsResponse' = AbsResponse /\ AbsFinished' = AbsFinished
      BY <1>3, <2>1, <2>2, <2>4
    <3>. QED
      BY <1>2, <2>3, <3>1
  <2>5. CASE Goes(r)
    <3>1. r \in Rows /\ phase # "write" /\ r \notin AbsFinished
      BY <1>1, <2>5 DEF Goes, AbsFinished
    <3>2. AbsResponse[r] = saved[r].ids /\ AbsResponse'[r] = saved'[r].ids
      BY <2>1, <3>1 DEF AbsResponse
    <3>3. \A q \in Rows \ {r} : AbsResponse'[q] = AbsResponse[q]
      BY <2>1, <2>2 DEF AbsResponse
    <3>4. DOMAIN AbsResponse' = Rows
      BY DEF AbsResponse
    <3>5. AbsFinished' \in {AbsFinished, AbsFinished \union {r}}
      <4>1. \A q \in Rows \ {r} : q \in AbsFinished' <=> q \in AbsFinished
        BY <2>1, <2>2 DEF AbsFinished
      <4>2. AbsFinished \subseteq Rows /\ AbsFinished' \subseteq Rows
        BY DEF AbsFinished
      <4>. QED
        BY <3>1, <4>1, <4>2
    <3>6. Abstract!Continues(AbsResponse[r], AbsResponse'[r], engine_version)
      BY <2>5, <3>2 DEF Goes
    <3>7. Abstract!Extend(r)
      BY <2>3, <3>1, <3>3, <3>4, <3>5, <3>6 DEF Abstract!Extend, AbsResponse, AbsFinished
    <3>. QED
      BY <3>1, <3>7 DEF Abstract!ResumableNext
  <2>. QED
    BY <1>7, <2>4, <2>5, AgentLoopGoes
<1>8. CASE UNCHANGED vars
  <2>1. UNCHANGED <<job, syncVars, rowVars>>
    BY <1>8 DEF vars
  <2>2. UNCHANGED <<job, pc, saved, engine_version, phase>> /\ JobRows' = JobRows
    BY <2>1 DEF syncVars, rowVars, JobRows
  <2>3. AbsResponse' = AbsResponse /\ AbsFinished' = AbsFinished
    BY <1>3, <2>2
  <2>. QED
    BY <1>2, <2>2, <2>3
<1>. QED
  BY <1>2, <1>4, <1>5, <1>6, <1>7, <1>8 DEF Next, Ended

\* Whatever is interrupted, a response only grows, by tokens made for the places they
\* take by the weights of the moment, and neither grows nor ends while weights are
\* written.
THEOREM ResumableRefinement ==
    Spec => Abstract!ResumableInit /\ [][Abstract!ResumableNext]_(Abstract!absVars)
<1>1. Init => Abstract!ResumableInit
  BY DEF Init, Abstract!ResumableInit
<1>2. GenInv /\ GenInv' /\ [Next]_vars => [Abstract!ResumableNext]_(Abstract!absVars)
  BY ResumableStep
<1>. QED
  BY <1>1, <1>2, GenInvariant, PTL DEF Spec

=============================================================================
