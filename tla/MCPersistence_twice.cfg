\* Two restarts: replay re-appends what it replays.
SPECIFICATION Spec
CONSTANTS
    k1 = k1  k2 = k2  f1 = f1  word = word
    NoStr = NoStr
    Db = {0}
    Key = {k1, k2}
    Field = {f1}
    Word = {word}
    Alias <- MCAlias
    MinInt <- MCMinInt
    MaxInt = 4
    Second = 1
    UseRDB = FALSE
    UseAOF = TRUE
    Calls <- OnlyIncr
    Signals = FALSE
    Crashes = TRUE
    ChanCap = 3
    MaxBoots = 3
    MaxOps = 1
    MaxSaves = 0
    MaxNow = 0
INVARIANT RecoversFlushed
CHECK_DEADLOCK FALSE
