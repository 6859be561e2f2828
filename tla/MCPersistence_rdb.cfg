\* RDB only, clients that replace values.
SPECIFICATION Spec
CONSTANTS
    k1 = k1  k2 = k2  f1 = f1  word = word
    NoStr = NoStr
    Db = {0}
    Key = {k1, k2}
    Field = {f1}
    Word = {word}
    Alias <- MCAlias
    MinInt <- MCMinInt
    MaxInt = 4
    Second = 1
    UseRDB = TRUE
    UseAOF = FALSE
    Calls <- Replacing
    Signals = TRUE
    Crashes = TRUE
    ChanCap = 9
    MaxBoots = 2
    MaxOps = 3
    MaxSaves = 2
    MaxNow = 1
INVARIANT SnapshotIsAState
CHECK_DEADLOCK FALSE
