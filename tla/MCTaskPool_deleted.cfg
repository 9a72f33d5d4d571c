\* The machine of a running task is deleted.
SPECIFICATION FairSpec
CONSTANTS
    Tasks = {t1}
    Workers = {w1, w2}
    NoWorker = NoWorker
    NoTask = NoTask
    Existing = {w1}
    MaxSessions = 1
    MaxFaults = 1
    Faults = {"delete"}
    Clicks = {}
    AcceptCommand = TRUE
    DropCommand = TRUE
    Interactive = TRUE
    ReviewStop = TRUE
    DelayedPark = FALSE
    MaxJobs = 2
PROPERTIES RunningEnds
CHECK_DEADLOCK FALSE
