\* Two jobs, one slot, one request at a time, a crash or a shutdown; two requests and
\* two runs over the settings.
CONSTANTS
    Jobs = {j1, j2}
    Callers = {h1}
    NoJob = NoJob
    MaxConcurrentJobs = 1
    Endings <- FewEndings
    MaxChecks = 3
    MaxBoots = 2
    MaxApiFaults = 0
    MaxStoreFaults = 0
    Requests = {q1, q2}
    Runs = {r1, r2}
    Slots = {0}
    Forms <- TwoForms
    MaxWrites = 2
SPECIFICATION RunnerSettingsSpec
SYMMETRY AllSymmetry
INVARIANTS
    BoundedConcurrency
    OwnedJobsAreNotQueued
    ClaimedRowsAreOwned
    NoWakeUpIsLost
    PatchesAreKept
    ForkRunsAsDecided
PROPERTIES
    RecordedCheckIsReused
    ImplementsPool
    ImplementsTable
