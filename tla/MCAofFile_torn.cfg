\* Three commands, two crashes or failing writes, each at any byte.
SPECIFICATION Spec
CONSTANTS
    Commands <- MCCommands
    Replies <- MCReplies
    MaxDepth = 2
    MaxQueue = 2
    MaxCommands = 3
    MaxFaults = 2
INVARIANTS RecoversComplete PrefixSurvives FramesAreExact
CHECK_DEADLOCK FALSE
