\* Two controllers, three nodes, two shards whose places on the ring differ.
SPECIFICATION FairSpec
CONSTANTS
    Controllers = {c1, c2}
    NoController = NoController
    Nodes = {1, 2, 3}
    NoNode = NoNode
    Shards = {0, 1}
    NodeHash <- MCNodeHash
    ShardHash <- MCShardHash
    EarlyNodes = {1}
    MaxRetries = 2
    MaxFlips = 2
    MaxFaults = 1
INVARIANTS
    TypeOK
    MinimalMovement
PROPERTIES
    ImplementsShardOwnership
    NoNeedlessMove
    Settles
