----------------------------- MODULE MCFullyAsync -----------------------------
(* The runs of FullyAsync: every cfg gives the constants small values. *)
EXTENDS FullyAsync

\* the stamps that are still read: a sample that was trained on is not stamped again,
\* and no guard, assignment or property looks at its stamp
LiveStamps == [s \in Samples |-> IF s \in trained THEN 0 ELSE started_version[s]]

\* what tells two states apart
StateView == <<ready, lock, sampleVars, procVars, callVars, flagVars, versionVars, queueVars,
               loopVars, created, stage, finished, raised, LiveStamps, serversPaused, failed,
               trainerVars, engineVars>>
=============================================================================
