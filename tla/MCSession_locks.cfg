\* Two connections on two databases, a channel of one place, shutdown at any time.
SPECIFICATION FairSpec
CONSTANTS
    a = a  b = b  v = v  w = w
    Conns = {a, b}
    NumDbs = 2
    Commands <- MCCommands
    Values = {v, w}
    QueueCap = 1
    MaxNow = 2
    MaxCmds = 3
INVARIANTS TypeOK RunsOnSelected LogAgreesUnlessLost
PROPERTIES CommandsFinish StopFinishes
CHECK_DEADLOCK FALSE
