\* Two requests at once: over three bindings of two repositories, and a job; or over an
\* App and a Coolify instance, both of them or one that is saved twice, with one job and
\* two keys, over three boots.
CONSTANTS
    app = app
    App = App
    lib = lib
    repo1 = repo1
    repo2 = repo2
    Spellings = {app, App, lib}
    Repos = {repo1, repo2}
    RepoOf <- TwoRepos
    Handlers = {h1, h2}
    Requests = {q1, q2}
    Jobs = {j1}
    MaxWrites = 3
    Apps = {a1}
    Instances = {i1}
    Keys = {k1, k2}
    NoKey = NoKey
    Workers = {w1}
    NoId = NoId
    MaxSaves = 4
    MaxClock = 1
    MaxBoots = 3
    MaxBusy = 2
    MaxFields = 1
SPECIFICATION ConsoleSpec
SYMMETRY Symmetry
INVARIANTS
    OverridesAreKept
    JobsKeepTheirBinding
    SecretsOpen
    TrustedBootsServe
    SecretsAreKept
    ClientsAreOfTheRow
    TeamsAreOfTheToken
CHECK_DEADLOCK FALSE
