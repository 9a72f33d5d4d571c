\* Replies, by job and to the live session, against Accept and parking.
SPECIFICATION Spec
CONSTANTS
    Tasks = {t1, t2}
    Workers = {w1}
    NoWorker = NoWorker
    NoTask = NoTask
    Existing = {w1}
    MaxSessions = 2
    MaxFaults = 0
    Faults = {}
    Clicks = {"accept", "reply"}
    AcceptCommand = FALSE
    DropCommand = TRUE
    Interactive = TRUE
    ReviewStop = FALSE
    DelayedPark = FALSE
    MaxJobs = 2
CONSTRAINT FewJobs
SYMMETRY Symmetry
INVARIANTS TypeOK ExclusiveHold
PROPERTIES ReviewedWorkspaceKept OnlyPeopleReopen
CHECK_DEADLOCK FALSE
