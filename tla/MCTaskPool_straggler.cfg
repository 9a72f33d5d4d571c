\* A task dropped while its run is on its way to a machine.
SPECIFICATION Spec
CONSTANTS
    Tasks = {t1, t2}
    Workers = {w1, w2}
    NoWorker = NoWorker
    NoTask = NoTask
    Existing = {w1}
    MaxSessions = 1
    MaxFaults = 0
    Faults = {}
    Clicks = {"drop"}
    AcceptCommand = TRUE
    DropCommand = FALSE
    Interactive = TRUE
    ReviewStop = TRUE
    DelayedPark = FALSE
    MaxJobs = 3
CONSTRAINT FewJobs
SYMMETRY Symmetry
PROPERTIES OwnedUntilOver
CHECK_DEADLOCK FALSE
