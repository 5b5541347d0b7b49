\* Every kind of job, among them files with a timeout above the job's.
CONSTANTS
    JobInputs <- AllInputs
    JobTimeout = 2
    MaxTime = 3
    MaxStoreFaults = 0
SPECIFICATION RunSpec
INVARIANT RaisedTimeoutIsInForce
CHECK_DEADLOCK FALSE
