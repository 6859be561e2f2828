\* AOF switched off: nobody receives from aofChan.
SPECIFICATION FairSpec
CONSTANTS
    k1 = k1  k2 = k2  f1 = f1  word = word
    NoStr = NoStr
    Db = {0}
    Key = {k1, k2}
    Field = {f1}
    Word = {word}
    Alias <- MCAlias
    MinInt <- MCMinInt
    MaxInt = 4
    Second = 1
    UseRDB = FALSE
    UseAOF = FALSE
    Calls <- OnlyIncr
    Signals = FALSE
    Crashes = FALSE
    ChanCap = 2
    MaxBoots = 1
    MaxOps = 4
    MaxSaves = 0
    MaxNow = 0
PROPERTY OperationsFinish
CHECK_DEADLOCK FALSE
