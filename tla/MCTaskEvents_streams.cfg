\* A watcher and a reply's drain on lines in pieces; processes die, machines fall.
SPECIFICATION FairSpec
CONSTANTS
    Watchers = {w1}
    Pollers = {}
    Drain = Drain
    MaxCommands = 2
    MaxUnits = 3
    MaxTurns = 2
    Kinds = {"ended", "draft"}
    Pieces = TRUE
    MAX_READ = 1
    MAX_LINE = 2
    MAX_CHUNKS = 2
    Interactive = TRUE
    OutOfBand = TRUE
    Clicks = {"resume"}
    ReviewStop = FALSE
    Faults = {"fall", "die"}
INVARIANT TypeOK
PROPERTIES LogSpec StreamDrains
CHECK_DEADLOCK FALSE
