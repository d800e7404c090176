----------------------------- MODULE ShardLayout -----------------------------
(***************************************************************************)
(* shard.Layout: the square area is cut into cells, the cells into a grid  *)
(* of shards.  Producers put an order into the shard of its coordinates,   *)
(* matcher workers put riders there and look for candidates in the order's *)
(* shard, in the shards around it, and then everywhere else.               *)
(***************************************************************************)
EXTENDS Integers

CeilDiv(a, b) == (a + b - 1) \div b

CeilSqrt(n) == CHOOSE c \in 1..n : c * c >= n /\ (c - 1) * (c - 1) < n

AtLeastOne(n) == IF n < 1 THEN 1 ELSE n

clampInt(v, max) == IF max < 0 \/ v < 0 THEN 0 ELSE IF v > max THEN max ELSE v

\* NewLayout, for sizes the constructor does not have to correct.
NewLayout(areaSize, cellSize, shardCount) ==
    LET cols == CeilSqrt(shardCount)
        rows == CeilDiv(shardCount, cols)
        cells == CeilDiv(areaSize, cellSize)
    IN  [cellSize |-> cellSize, shardCount |-> shardCount, cols |-> cols, rows |-> rows,
         cells |-> cells,
         perShardX |-> AtLeastOne(CeilDiv(cells, cols)),
         perShardY |-> AtLeastOne(CeilDiv(cells, rows))]

\* The cell of a point <<x, y>>; GridIndex packs the two numbers into one.
CellOf(l, p) == <<p[1] \div l.cellSize, p[2] \div l.cellSize>>

\* The place of a point in the grid of shards, counted row by row: the last
\* row can have more places than there are shards.
GridPlace(l, p) ==
    LET cell == CellOf(l, p)
        x == clampInt(clampInt(cell[1], l.cells - 1) \div l.perShardX, l.cols - 1)
        y == clampInt(clampInt(cell[2], l.cells - 1) \div l.perShardY, l.rows - 1)
    IN  y * l.cols + x

ShardID(l, p) ==
    LET id == GridPlace(l, p)
    IN  IF id >= l.shardCount THEN l.shardCount - 1 ELSE id

\* Variant: the row below is left out.
NeighborShardIDsAbove(l, s) ==
    {id \in 0..(l.shardCount - 1) :
        /\ (id % l.cols) - (s % l.cols) \in -1..1
        /\ (id \div l.cols) - (s \div l.cols) \in -1..0}

\* The shard itself and those around it.
NeighborShardIDs(l, s) ==
    {id \in 0..(l.shardCount - 1) :
        /\ (id % l.cols) - (s % l.cols) \in -1..1
        /\ (id \div l.cols) - (s \div l.cols) \in -1..1}

Abs(n) == IF n < 0 THEN -n ELSE n

\* How many cells two points are apart, in the direction that is farther.
CellDistance(l, p, q) ==
    LET c == CellOf(l, p)
        d == CellOf(l, q)
        dx == Abs(c[1] - d[1])
        dy == Abs(c[2] - d[2])
    IN  IF dx > dy THEN dx ELSE dy
=============================================================================
