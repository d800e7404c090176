\* Two nodes take turns at a partition of two records; three owners can
\* overlap.  With three of them the retries of a checkpoint can run out.
SPECIFICATION FairSpec
CONSTANTS
    Nodes = {n1, n2}
    NoNode = NoNode
    Workers = {w1, w2}
    EventTypes <- MCEventTypes
    LogLength = 2
    MaxSaves = 2
    MaxEpoch = 3
    MaxCrashes = 1
INVARIANTS
    TypeOK
    NoRecordPassedOver
    RefusedOnlyIfOvertaken
    Converges
PROPERTIES
    CheckpointMonotone
    EventuallyConsumed
CHECK_DEADLOCK FALSE
