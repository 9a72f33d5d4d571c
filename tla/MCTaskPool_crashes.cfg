\* Accept and Drop against restarts of Lite, dead agents, broken and deleted machines.
SPECIFICATION Spec
CONSTANTS
    Tasks = {t1, t2}
    Workers = {w1, w2}
    NoWorker = NoWorker
    NoTask = NoTask
    Existing = {w1}
    MaxSessions = 1
    MaxFaults = 1
    Faults = {"restart", "die", "setup", "delete", "edit"}
    Clicks = {"accept", "drop"}
    AcceptCommand = TRUE
    DropCommand = TRUE
    Interactive = FALSE
    ReviewStop = TRUE
    DelayedPark = FALSE
    MaxJobs = 2
CONSTRAINT FewJobs
SYMMETRY Symmetry
INVARIANTS QueuedHasRun PendingHasJob
PROPERTIES PoolSpec
CHECK_DEADLOCK FALSE
