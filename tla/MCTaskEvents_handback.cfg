\* Two readers and a drain; replies between turns, background work, restarts.
SPECIFICATION Spec
CONSTANTS
    Watchers = {w1}
    Pollers = {p1}
    Drain = Drain
    MaxCommands = 2
    MaxUnits = 3
    MaxTurns = 2
    Kinds = {"ended", "busy"}
    Pieces = FALSE
    MAX_READ = 3
    MAX_LINE = 2
    MAX_CHUNKS = 6
    Interactive = TRUE
    OutOfBand = FALSE
    Clicks = {"live", "resume"}
    ReviewStop = TRUE
    Faults = {"restart"}
PROPERTIES LogSpec NotReviewedAtWork
CHECK_DEADLOCK FALSE
