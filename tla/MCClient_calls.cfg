\* Both threads of the client over the same pool of connections.
SPECIFICATION ClientSpec
CONSTANTS
    Nodes = {"n1", "n2"}
    Fds = {1, 2, 3}
    MaxSpare = 1
    PipelineMax = 1
    Calls <- MCCalls
    Owners <- MCOwners
    MaxCalls = 2
    MaxJobs = 1
 
INVARIANT OwnAnswer
INVARIANT SpareBound
 
CHECK_DEADLOCK FALSE
