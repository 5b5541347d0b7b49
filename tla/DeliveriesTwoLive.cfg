\* One request at a time, no button of the console, two jobs.
CONSTANTS
    Handlers = {h1}
    Jobs = {j1, j2}
    Events <- AllEvents
    Endings = {"success", "cancelled"}
    NoEvent = NoEvent
    NoDelivery = NoDelivery
    NoJob = NoJob
    ManualActions = {}
    MaxStoreFaults = 0
SPECIFICATION Spec
INVARIANT NeverTwoLiveRuns
CHECK_DEADLOCK FALSE
