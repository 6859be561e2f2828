\* A GET that sees its value expire, and a SET in between.
SPECIFICATION Spec
CONSTANTS
    a = a  b = b  v = v  w = w
    Conns = {a, b}
    NumDbs = 1
    Commands <- LazyCommands
    Values = {v, w}
    QueueCap = 1
    MaxNow = 2
    MaxCmds = 3
PROPERTY LazyDeleteOfExpired
CHECK_DEADLOCK FALSE
