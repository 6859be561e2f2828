\* Every operation without expiry, two databases: the AOF reproduces the store.
SPECIFICATION Spec
CONSTANTS
    k1 = k1  k2 = k2  f1 = f1  f2 = f2  word = word  plusOne = plusOne  c1 = c1  c2 = c2
    NoStr = NoStr
    Db <- MCTwoDbs
    Key <- MCOneKey
    Field <- MCField
    Word = {word, plusOne}
    Alias <- MCAlias
    MinInt <- MCMinInt
    MaxInt = 1
    Second = 2
    Client <- MCClient
    Ops <- UntimedOps
    Writes <- MCWrites
    OptionSets <- UntimedOptions
    Pushes <- MCPushes
    Counts <- MCCounts
    Windows <- MCWindows
    FieldMaps <- MCFieldMaps
    FieldSets <- MCFieldSets
    TTLs = {}
    MaxNow = 0
    MaxLen = 3
INVARIANTS TypeOK InSync NoEmptyHash RepliesMatchReads
