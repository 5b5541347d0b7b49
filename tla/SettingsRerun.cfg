\* A fork's commit, and the Re-run button.
CONSTANTS
    Requests = {h1}
    Runs = {j1, j2}
    Slots = {0}
    Forms <- RunnerForm
    MaxWrites = 1
SPECIFICATION SettingsSpec
INVARIANTS
    ForkCodeRunsInDocker
CHECK_DEADLOCK FALSE
