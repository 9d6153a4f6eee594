-------------------------- MODULE MCPartialGeneration --------------------------
(* Jobs with one or two responses of one sample or of two samples, with tools *)
(* and without.                                                              *)
EXTENDS PartialGeneration

Job(tools, sampleOf, length, syncs) ==
    [multi_turn |-> tools, sampleOf |-> sampleOf, response_length |-> length, syncs |-> syncs]

SmallJobs == {Job(TRUE, <<"s">>, 5, 2), Job(FALSE, <<"s">>, 4, 3),
              Job(TRUE, <<"s", "s">>, 4, 1), Job(FALSE, <<"s", "s">>, 3, 1),
              Job(FALSE, <<"s", "t">>, 2, 1)}
=============================================================================
