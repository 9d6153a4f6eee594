-------------------------- MODULE ResumableGeneration --------------------------
(***************************************************************************)
(* What partial rollout promises of a response, whatever the weights do    *)
(* meanwhile: it only grows, each token generated by the weights of the    *)
(* moment for the very place it takes; it neither grows nor ends while     *)
(* weights are written; and it ends.                                       *)
(***************************************************************************)
EXTENDS Integers, SequencesExt

CONSTANT Rows       \* one response each

VARIABLES response, finished, version, writing

absVars == <<response, finished, version, writing>>

ResumableInit == /\ response = [r \in Rows |-> <<>>]
                 /\ finished \in SUBSET Rows /\ version = 0 /\ writing = FALSE

\* new goes on where old ends, with tokens made for these places by version v
Continues(old, new, v) ==
    /\ IsPrefix(old, new)
    /\ \A i \in (Len(old) + 1)..Len(new) : new[i].pos = i /\ new[i].ver = v

Extend(r) ==
    /\ ~writing /\ r \notin finished
    /\ Continues(response[r], response'[r], version)
    /\ \A q \in Rows \ {r} : response'[q] = response[q]
    /\ DOMAIN response' = Rows
    /\ finished' \in {finished, finished \union {r}}
    /\ UNCHANGED <<version, writing>>

Write == ~writing /\ writing' = TRUE /\ UNCHANGED <<response, finished, version>>

Written == /\ writing /\ writing' = FALSE
           /\ version' = version + 1
           /\ UNCHANGED <<response, finished>>

ResumableNext == (\E r \in Rows : Extend(r)) \/ Write \/ Written

ResumableSpec == /\ ResumableInit /\ [][ResumableNext]_absVars
                 /\ <>(finished = Rows)
=============================================================================
