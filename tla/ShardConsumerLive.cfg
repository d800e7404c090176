\* Fair goroutines and tickers; crashes and moves end at their bounds, which
\* is the eventual stability the property needs.
SPECIFICATION FairSpec
CONSTANTS
    Nodes = {n1, n2}
    NoNode = NoNode
    Workers = {w1, w2}
    Events = {e1, e2}
    BatchSize = 2
    MaxLog = 2
    MaxEpoch = 2
    MaxCrashes = 1
    MaxStreamEnds = 0
PROPERTIES
    EventuallyApplied
CHECK_DEADLOCK FALSE
