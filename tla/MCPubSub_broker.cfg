\* Two subscribers or publishers, re-subscription while the old channel drains.
SPECIFICATION FairSpec
CONSTANTS
    a = a  b = b  x = x  y = y  p = p  q = q
    Conn = {a, b}
    Channel = {x, y}
    Pattern = {p, q}
    Match <- MCMatch
    BufSize = 1
    SubArgs <- Lists
    UnsubArgs <- LeaveLists
    MaxGen = 2
    MaxCmds = 3
    MaxMsgs = 2
INVARIANTS TypeOK ChannelIffSubscribed ModeMatches TargetsStaySubscribed PublishCountsOnce
PROPERTIES PublishEnds WritersEnd ImplementsBroadcast
CHECK_DEADLOCK FALSE
