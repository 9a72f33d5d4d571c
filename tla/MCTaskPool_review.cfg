\* A review: every way to park, keep and wake, with a machine that misbehaves.
SPECIFICATION Spec
CONSTANTS
    Tasks = {t1, t2}
    Workers = {w1, w2}
    NoWorker = NoWorker
    NoTask = NoTask
    Existing = {w1}
    MaxSessions = 1
    MaxFaults = 1
    Faults = {"fall", "stopfails", "prune", "slow"}
    Clicks = {"accept", "park", "keep", "wake"}
    AcceptCommand = TRUE
    DropCommand = TRUE
    Interactive = TRUE
    ReviewStop = TRUE
    DelayedPark = TRUE
    MaxJobs = 2
CONSTRAINT FewJobs
SYMMETRY Symmetry
INVARIANTS LockHasHolder ReleaseSparesNextTask RunningHasWork
CHECK_DEADLOCK FALSE
