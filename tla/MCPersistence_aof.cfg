\* AOF only: a full channel, one crash or shutdown anywhere, then recovery.
SPECIFICATION FairSpec
CONSTANTS
    k1 = k1  k2 = k2  f1 = f1  word = word
    NoStr = NoStr
    Db = {0}
    Key = {k1, k2}
    Field = {f1}
    Word = {word}
    Alias <- MCAlias
    MinInt <- MCMinInt
    MaxInt = 4
    Second = 1
    UseRDB = FALSE
    UseAOF = TRUE
    Calls <- Counting
    Signals = TRUE
    Crashes = TRUE
    ChanCap = 2
    MaxBoots = 2
    MaxOps = 3
    MaxSaves = 0
    MaxNow = 1
INVARIANTS TypeOK RecoversFlushed
PROPERTIES OperationsFinish RecoveryFinishes
CHECK_DEADLOCK FALSE
