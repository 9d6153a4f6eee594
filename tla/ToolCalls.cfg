\* Two servers; a response alone is interrupted more often than two are.
SPECIFICATION Spec
CONSTANTS
    NumServers = 2
    Rows = {1, 2}
    Room = 1
    Jobs <- SmallJobs
INVARIANT CallsAreExecuted
