\* A reply to a running task, over the end of turn nobody has read yet.
SPECIFICATION Spec
CONSTANTS
    Watchers = {w1}
    Pollers = {}
    Drain = Drain
    MaxCommands = 2
    MaxUnits = 3
    MaxTurns = 2
    Kinds = {"ended"}
    Pieces = FALSE
    MAX_READ = 1
    MAX_LINE = 2
    MAX_CHUNKS = 6
    Interactive = TRUE
    OutOfBand = FALSE
    Clicks = {"interject"}
    ReviewStop = TRUE
    Faults = {}
PROPERTY NotReviewedAtWork
CHECK_DEADLOCK FALSE
