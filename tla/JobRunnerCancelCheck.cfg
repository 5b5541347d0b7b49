\* One job that is cancelled while it runs.
CONSTANTS
    Jobs = {j1}
    Callers = {h1}
    NoJob = NoJob
    MaxConcurrentJobs = 1
    Endings <- FewEndings
    MaxChecks = 2
    MaxBoots = 1
    MaxApiFaults = 0
    MaxStoreFaults = 0
SPECIFICATION Spec
INVARIANTS
    CancelledJobsSettleTheirCheck
