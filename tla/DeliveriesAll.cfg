\* Three jobs: two requests that cross, or one at a time with both buttons of the
\* Jobs page and a failed SQL statement.  It stops when the job ids are used up.
CONSTANTS
    Handlers = {h1, h2}
    Jobs = {j1, j2, j3}
    Events <- AllEvents
    Endings = {"success", "cancelled"}
    NoEvent = NoEvent
    NoDelivery = NoDelivery
    NoJob = NoJob
    ManualActions = {"cancel", "rerun"}
    MaxStoreFaults = 1
SPECIFICATION Spec
SYMMETRY Symmetry
INVARIANTS
    OneLiveRunPerCommit
    SupersededRunsAreStopped
    DeliveryIsHeldOnce
PROPERTIES
    TakenEventsHaveARow
CHECK_DEADLOCK FALSE
