\* Two publishers, three topics: one target takes batches, one takes single
\* events, one topic has none.
SPECIFICATION FairSpec
CONSTANTS
    Publishers = {p1, p2}
    NoPublisher = NoPublisher
    Events = {1, 2, 3, 4}
    Topics = {"order-events", "match-requests", "unknown"}
    Topic <- MCTopic
    Targets = {"order-events", "match-requests"}
    BatchTargets = {"match-requests"}
    BatchSize = 3
    MaxFaults = 1
INVARIANTS
    TypeOK
    PublishedWasWritten
    DuplicatesNeedFaults
PROPERTIES
    EventuallyPublished
CHECK_DEADLOCK FALSE
