\* Two keys and one reader; lists of up to three elements, two pushes.
SPECIFICATION Spec
CONSTANTS
    k1 = k1  k2 = k2  c1 = c1  c2 = c2
    NoStr = NoStr
    Db = {0}
    Key = {k1, k2}
    Field = {}
    Word = {}
    Alias <- MCAlias
    MinInt <- MCMinInt
    MaxInt = 1
    Second = 1
    Clients = {c1}
    Writes = {0}
    Pushes <- MCPushes
    Counts <- MCCounts
    Windows <- MCWindows
    MaxLen = 3
    MaxPushes = 2
    MaxSpare = 1
INVARIANTS TypeOK KeysNeverShare RepliesExactUnlessCut GetReadsItsKey
PROPERTY ImplementsKeyspace
