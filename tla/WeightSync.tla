----------------------------- MODULE WeightSync -----------------------------
(***************************************************************************)
(* What a weight synchronization promises, whatever the processes do:      *)
(* weights are written only while nothing generates, so a generation runs  *)
(* on one version from its start to its end.  A request is stamped when it *)
(* is made and begun later: those made since a synchronization began may   *)
(* be begun by the version after their stamp, and by no later one, because *)
(* none of them is left when the next write begins.                        *)
(***************************************************************************)
EXTENDS Naturals

CONSTANT Requests

VARIABLES asked,       \* <<request, version it is stamped with>>, of those under way
          generating,  \* the same, of those being generated
          told,        \* the version requests are stamped with
          writing,     \* weights are being written into the engines
          version      \* the version of the weights the engines hold

wsVars == <<asked, generating, told, writing, version>>

Init == asked = {} /\ generating = {} /\ told = 0 /\ writing = FALSE /\ version = 0

Ask(r) ==
    /\ asked' = asked \union {<<r, told>>}
    /\ UNCHANGED <<generating, told, writing, version>>

Start ==
    /\ ~writing
    /\ \E q \in asked : asked' = asked \ {q} /\ generating' = generating \union {q}
    /\ UNCHANGED <<told, writing, version>>

\* some requests are refused, some generations end or are interrupted
Stop ==
    /\ asked' \in SUBSET asked
    /\ generating' \in SUBSET generating
    /\ UNCHANGED <<told, writing, version>>

BeginWrite ==
    /\ ~writing /\ generating = {}
    /\ told = version
    /\ \A q \in asked : q[2] = version
    /\ writing' = TRUE
    /\ UNCHANGED <<asked, generating, told, version>>

EndWrite ==
    /\ writing
    /\ writing' = FALSE
    /\ version' = version + 1
    /\ UNCHANGED <<asked, generating, told>>

Tell ==
    /\ told' = version
    /\ UNCHANGED <<asked, generating, writing, version>>

Next == (\E r \in Requests : Ask(r)) \/ Start \/ Stop \/ BeginWrite \/ EndWrite \/ Tell

Spec == Init /\ [][Next]_wsVars
=============================================================================
