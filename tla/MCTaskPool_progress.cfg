\* What must come to an end, whatever fails twice.
SPECIFICATION FairSpec
CONSTANTS
    Tasks = {t1}
    Workers = {w1, w2}
    NoWorker = NoWorker
    NoTask = NoTask
    Existing = {w1}
    MaxSessions = 3
    MaxFaults = 2
    Faults = {"restart", "fall", "die", "setup", "prune"}
    Clicks = {"accept", "drop"}
    AcceptCommand = TRUE
    DropCommand = TRUE
    Interactive = TRUE
    ReviewStop = TRUE
    DelayedPark = FALSE
    MaxJobs = 2
PROPERTIES QueuedLeaves RunningEnds PendingClears
CHECK_DEADLOCK FALSE
