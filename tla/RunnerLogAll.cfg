\* One job, a restart, failed and lost calls to GitHub, failed SQL statements.  Caps
\* below, at and above what a job prints; the cap changes while the job runs; one
\* read or write that fails.
CONSTANTS
    Jobs = {j1}
    Callers = {h1}
    NoJob = NoJob
    MaxConcurrentJobs = 1
    Endings <- AllEndings
    MaxChecks = 3
    MaxBoots = 2
    MaxApiFaults = 1
    MaxStoreFaults = 1
    Caps = {1, 2}
    MarkerBytes = 1
    Chunk = 2
    BufferBytes = 1
    MaxOutput = 3
    MaxPatches = 1
    MaxFaults = 1
SPECIFICATION RunnerLogSpec
INVARIANTS
    CapHolds
    FinishedStreamIsComplete
    PageShowsAPrefix
PROPERTIES
    QueuedJobsEnd
    ShutdownEnds
    PageGetsTheLog
