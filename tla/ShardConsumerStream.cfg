\* The record stream of the shard is closed once.
SPECIFICATION FairSpec
CONSTANTS
    Nodes = {n1, n2}
    NoNode = NoNode
    Workers = {w1, w2}
    Events = {e1, e2}
    BatchSize = 2
    MaxLog = 2
    MaxEpoch = 2
    MaxCrashes = 0
    MaxStreamEnds = 1
PROPERTIES
    EventuallyApplied
CHECK_DEADLOCK FALSE
