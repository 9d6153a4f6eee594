------------------------- MODULE MCPerturbedTraining -------------------------
(* The configurations give every constant a number or a Boolean. *)
EXTENDS PerturbedTraining
=============================================================================
