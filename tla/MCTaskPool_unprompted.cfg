\* Lite restarts between a launch and its prompt.
SPECIFICATION Spec
CONSTANTS
    Tasks = {t1}
    Workers = {w1, w2}
    NoWorker = NoWorker
    NoTask = NoTask
    Existing = {w1}
    MaxSessions = 1
    MaxFaults = 1
    Faults = {"restart"}
    Clicks = {}
    AcceptCommand = TRUE
    DropCommand = TRUE
    Interactive = TRUE
    ReviewStop = TRUE
    DelayedPark = FALSE
    MaxJobs = 2
INVARIANTS RunningHasWork
CHECK_DEADLOCK FALSE
