\* A task dropped before its run has a machine.
SPECIFICATION FairSpec
CONSTANTS
    Tasks = {t1}
    Workers = {w1, w2}
    NoWorker = NoWorker
    NoTask = NoTask
    Existing = {w1}
    MaxSessions = 1
    MaxFaults = 0
    Faults = {}
    Clicks = {"drop"}
    AcceptCommand = TRUE
    DropCommand = TRUE
    Interactive = TRUE
    ReviewStop = TRUE
    DelayedPark = FALSE
    MaxJobs = 2
PROPERTIES HandedBackParked
CHECK_DEADLOCK FALSE
