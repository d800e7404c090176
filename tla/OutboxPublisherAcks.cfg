\* One publisher and no fault that the program could notice.
SPECIFICATION Spec
CONSTANTS
    Publishers = {p1}
    NoPublisher = NoPublisher
    Events = {1, 2}
    Topics = {"order-events", "match-requests", "unknown"}
    Topic <- MCTopic
    Targets = {"order-events", "match-requests"}
    BatchTargets = {"match-requests"}
    BatchSize = 2
    MaxFaults = 0
INVARIANTS
    PublishedIsDelivered
CHECK_DEADLOCK FALSE
