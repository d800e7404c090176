\* Two goroutines and three epochs: the transaction of an earlier owner can be
\* open while the current owner applies, and a node can get the shard back.
\* Two records over two event ids: with and without a duplicate, in one batch
\* or in two.
SPECIFICATION Spec
CONSTANTS
    Nodes = {n1, n2}
    NoNode = NoNode
    Workers = {w1, w2}
    Events = {e1, e2}
    BatchSize = 2
    MaxLog = 2
    MaxEpoch = 3
    MaxCrashes = 1
    MaxStreamEnds = 1
SYMMETRY Symmetry
INVARIANTS
    TypeOK
    AppliedAtMostOnce
    NothingSkipped
    AppliedInLogOrder
    OneWriter
PROPERTIES
    FencedOrder
    CheckpointEpochMonotone
    ImplementsSerialConsumer
CHECK_DEADLOCK FALSE
