\* One process, two shards in opposite corners of a three by three layout, three
\* riders.  Two moves of a shard are enough for a late stop hook to meet the
\* next start.
SPECIFICATION Spec
CONSTANTS
    AreaSize = 18
    CellSize = 2
    ShardCount = 9
    LoadWeight = 2
    Shards = {0, 8}
    Riders = {1, 2, 3}
    Placements <- MCPlacements
    Places <- MCPlaces
    Limits = {1, 2}
    MaxCount = 1
    MaxMoves = 2
INVARIANTS
    TypeOK
    IndexedUnlessStruck
    ForgottenWhenStopped
    OneConsumer
    NearestFirst
    TouchingCellsAreNeighbors
