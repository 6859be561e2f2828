\* Expiry without HDEL and SETNX, PX a whole number of seconds: the log and the lock.
SPECIFICATION Spec
CONSTANTS
    k1 = k1  k2 = k2  f1 = f1  f2 = f2  word = word  plusOne = plusOne  c1 = c1  c2 = c2
    NoStr = NoStr
    Db <- MCOneDb
    Key <- MCKey
    Field <- MCField
    Word = {word, plusOne}
    Alias <- MCAlias
    MinInt <- MCMinInt
    MaxInt = 1
    Second = 2
    Client <- MCClient
    Ops <- TimedOps
    Writes <- MCOneWrite
    OptionSets <- TimedOptions
    Pushes <- MCTimedPushes
    Counts <- MCTimedCounts
    Windows <- MCTimedWindows
    FieldMaps <- MCFieldMaps
    FieldSets <- MCFieldSets
    TTLs = {0, 1}
    MaxNow = 3
    MaxLen = 2
INVARIANTS InSync AtMostOneGrant RepliesMatchReads
PROPERTY ExpiredStaysGone
