-------------------------- MODULE ShardLayoutProofs --------------------------
(***************************************************************************)
(* Proofs about ShardLayout for areas, cells and numbers of shards of any  *)
(* size.                                                                   *)
(***************************************************************************)
EXTENDS ShardLayout, WellFoundedInduction, TLAPS

----------------------------------------------------------------------------
(* Division                                                                *)

LEMMA DivMod ==
    ASSUME NEW a \in Nat, NEW d \in Nat, d > 0
    PROVE  /\ a \div d \in Nat
           /\ a % d \in 0..d - 1
           /\ a = d * (a \div d) + (a % d)
<1>1. a \div d \in Nat
  OBVIOUS
<1>2. a % d \in 0..d - 1
  OBVIOUS
<1>3. a = d * (a \div d) + (a % d)
  OBVIOUS
<1> QED
  BY <1>1, <1>2, <1>3

LEMMA QuotientIs ==
    ASSUME NEW d \in Nat, d > 0, NEW q \in Nat, NEW r \in 0..d - 1
    PROVE  /\ (d * q + r) \div d = q
           /\ (d * q + r) % d = r
<1> DEFINE a == d * q + r
<1>1. a \in Nat
  OBVIOUS
<1>2. a = d * q + r
  OBVIOUS
<1> HIDE DEF a
<1>3. a \div d = q
  BY <1>1, <1>2
<1>4. a = d * q + (a % d)
  BY <1>1, <1>3, DivMod
<1>5. a % d \in Int /\ d * q \in Int
  BY <1>1, DivMod
<1>6. a % d = r
  BY <1>2, <1>4, <1>5
<1> QED
  BY <1>3, <1>6 DEF a

LEMMA ProductMonotone ==
    ASSUME NEW d \in Nat, NEW x \in Int, NEW y \in Int, x <= y
    PROVE  d * x <= d * y
OBVIOUS

\* Numbers at most one apart have quotients at most one apart.
LEMMA CloseQuotients ==
    ASSUME NEW a \in Nat, NEW b \in Nat, NEW d \in Nat, d > 0, a <= b + 1
    PROVE  a \div d <= (b \div d) + 1
<1> DEFINE p == a \div d
           q == b \div d
           dp == d * p
           dq == d * q
<1>1. /\ p \in Nat /\ a = dp + (a % d) /\ a % d \in 0..d - 1
      /\ q \in Nat /\ b = dq + (b % d) /\ b % d \in 0..d - 1
  BY DivMod
<1> HIDE DEF p, q
<1>2. dp \in Int /\ dq \in Int
  BY <1>1
<1>3. SUFFICES ASSUME q + 2 <= p PROVE FALSE
  BY <1>1 DEF p, q
<1>4. d * (q + 2) <= dp
  BY <1>1, <1>3, ProductMonotone
<1>5. d * (q + 2) = dq + 2 * d
  BY <1>1
<1> HIDE DEF dp, dq
<1>6. dq + 2 * d <= dp
  BY <1>4, <1>5
<1> QED
  BY <1>1, <1>2, <1>6

----------------------------------------------------------------------------
(* The layout                                                              *)

LEMMA CeilSqrtIs ==
    ASSUME NEW n \in Nat, n > 0
    PROVE  /\ CeilSqrt(n) \in 1..n
           /\ CeilSqrt(n) * CeilSqrt(n) >= n
<1> DEFINE S == {c \in 1..n : c * c >= n}
<1>1. S \subseteq Nat /\ n \in S
  OBVIOUS
<1>2. PICK x \in S : \A y \in S : ~(<<y, x>> \in OpToRel(<, Nat))
  BY <1>1, WFMin, NatLessThanWellFounded
<1>3. x \in 1..n /\ x * x >= n
  OBVIOUS
<1>4. (x - 1) * (x - 1) < n
  <2>1. CASE x = 1
    BY <2>1
  <2>2. CASE x # 1
    <3>1. x - 1 \in 1..n
      BY <1>3, <2>2
    <3>2. x \in Nat /\ x - 1 \in Nat /\ x - 1 < x
      BY <1>3, <3>1
    <3>3. <<x - 1, x>> \in OpToRel(<, Nat)
      BY <3>2 DEF OpToRel
    <3>4. x - 1 \notin S
      BY <1>2, <3>3
    <3>5. ~((x - 1) * (x - 1) >= n)
      BY <3>1, <3>4
    <3>6. (x - 1) * (x - 1) \in Int
      BY <3>2
    <3> QED
      BY <3>5, <3>6
  <2> QED
    BY <2>1, <2>2
<1> QED
  BY <1>3, <1>4 DEF CeilSqrt

LEMMA CeilDivIs ==
    ASSUME NEW a \in Nat, a > 0, NEW d \in Nat, d > 0
    PROVE  CeilDiv(a, d) \in Nat /\ CeilDiv(a, d) > 0
<1> DEFINE q == (a + d - 1) \div d
<1>1. /\ a + d - 1 \in Nat
      /\ q \in Nat
      /\ (a + d - 1) % d \in 0..d - 1
      /\ a + d - 1 = d * q + ((a + d - 1) % d)
  BY DivMod
<1> HIDE DEF q
<1>2. q # 0
  <2> SUFFICES ASSUME q = 0 PROVE FALSE
    OBVIOUS
  <2>1. d * q = 0
    OBVIOUS
  <2> QED
    BY <1>1, <2>1
<1> QED
  BY <1>1, <1>2 DEF CeilDiv, q

\* What NewLayout makes of sizes that are not zero.
IsLayout(l) ==
    /\ l.cellSize \in Nat /\ l.cellSize > 0
    /\ l.shardCount \in Nat /\ l.shardCount > 0
    /\ l.cols \in Nat /\ l.cols > 0
    /\ l.rows \in Nat /\ l.rows > 0
    /\ l.cells \in Nat /\ l.cells > 0
    /\ l.perShardX \in Nat /\ l.perShardX > 0
    /\ l.perShardY \in Nat /\ l.perShardY > 0

LEMMA NewLayoutIs ==
    ASSUME NEW area \in Nat, area > 0, NEW cell \in Nat, cell > 0, NEW shards \in Nat, shards > 0
    PROVE  /\ IsLayout(NewLayout(area, cell, shards))
           /\ NewLayout(area, cell, shards).shardCount = shards
<1> DEFINE l == NewLayout(area, cell, shards)
           cols == CeilSqrt(shards)
           rows == CeilDiv(shards, cols)
           cells == CeilDiv(area, cell)
           x == AtLeastOne(CeilDiv(cells, cols))
           y == AtLeastOne(CeilDiv(cells, rows))
<1>1. cols \in Nat /\ cols > 0
  BY CeilSqrtIs
<1>2. rows \in Nat /\ rows > 0
  BY <1>1, CeilDivIs
<1>3. cells \in Nat /\ cells > 0
  BY CeilDivIs
<1>4. x \in Nat /\ x > 0 /\ y \in Nat /\ y > 0
  BY <1>1, <1>2, <1>3, CeilDivIs DEF AtLeastOne
<1>5. /\ l.cellSize = cell
      /\ l.shardCount = shards
      /\ l.cols = cols
      /\ l.rows = rows
      /\ l.cells = cells
      /\ l.perShardX = x
      /\ l.perShardY = y
  BY DEF NewLayout
<1> HIDE DEF l, cols, rows, cells, x, y
<1>6. IsLayout(l) /\ l.shardCount = shards
  BY <1>1, <1>2, <1>3, <1>4, <1>5 DEF IsLayout
<1> QED
  BY <1>6 DEF l

----------------------------------------------------------------------------
(* Points and shards                                                       *)

Points == Nat \X Nat

LEMMA ClampClose ==
    ASSUME NEW a \in Nat, NEW b \in Nat, NEW m \in Nat
    PROVE  /\ clampInt(a, m) \in 0..m
           /\ a <= b + 1 => clampInt(a, m) <= clampInt(b, m) + 1
BY DEF clampInt

\* The column or row of a cell: cells to an axis, per of them to a shard.
Line(cell, cells, per, lines) == clampInt(clampInt(cell, cells - 1) \div per, lines - 1)

\* Neighbouring cells are in the same line or in neighbouring ones.
LEMMA LineClose ==
    ASSUME NEW a \in Nat, NEW b \in Nat, NEW cells \in Nat, cells > 0,
           NEW per \in Nat, per > 0, NEW lines \in Nat, lines > 0
    PROVE  /\ Line(a, cells, per, lines) \in 0..lines - 1
           /\ a <= b + 1 => Line(a, cells, per, lines) <= Line(b, cells, per, lines) + 1
<1> DEFINE c == clampInt(a, cells - 1)
           d == clampInt(b, cells - 1)
<1>0. cells - 1 \in Nat /\ lines - 1 \in Nat
  OBVIOUS
<1>1. c \in Nat /\ d \in Nat /\ (a <= b + 1 => c <= d + 1)
  <2>1. c \in 0..cells - 1 /\ (a <= b + 1 => c <= d + 1)
    BY <1>0, ClampClose
  <2>2. d \in 0..cells - 1
    BY <1>0, ClampClose
  <2> HIDE DEF c, d
  <2> QED
    BY <2>1, <2>2
<1> HIDE DEF c, d
<1>2. c \div per \in Nat /\ d \div per \in Nat
  BY <1>1, DivMod
<1>3. a <= b + 1 => c \div per <= (d \div per) + 1
  BY <1>1, CloseQuotients
<1>4. /\ clampInt(c \div per, lines - 1) \in 0..lines - 1
      /\ a <= b + 1 => clampInt(c \div per, lines - 1) <= clampInt(d \div per, lines - 1) + 1
  <2> DEFINE e == c \div per
             f == d \div per
  <2>1. e \in Nat /\ f \in Nat /\ (a <= b + 1 => e <= f + 1)
    BY <1>2, <1>3
  <2> HIDE DEF e, f
  <2>2. /\ clampInt(e, lines - 1) \in 0..lines - 1
        /\ a <= b + 1 => clampInt(e, lines - 1) <= clampInt(f, lines - 1) + 1
    BY <1>0, <2>1, ClampClose
  <2> QED
    BY <2>2 DEF e, f
<1> QED
  BY <1>4 DEF Line, c, d

Col(l, p) == Line(p[1] \div l.cellSize, l.cells, l.perShardX, l.cols)
Row(l, p) == Line(p[2] \div l.cellSize, l.cells, l.perShardY, l.rows)

LEMMA GridPlaceIs ==
    ASSUME NEW l, IsLayout(l), NEW p \in Points
    PROVE  /\ Col(l, p) \in 0..l.cols - 1
           /\ Row(l, p) \in 0..l.rows - 1
           /\ GridPlace(l, p) \in Nat
           /\ GridPlace(l, p) % l.cols = Col(l, p)
           /\ GridPlace(l, p) \div l.cols = Row(l, p)
<1>1. p[1] \in Nat /\ p[2] \in Nat
  BY DEF Points
<1>2. p[1] \div l.cellSize \in Nat /\ p[2] \div l.cellSize \in Nat
  BY <1>1, DivMod DEF IsLayout
<1>3. Col(l, p) \in 0..l.cols - 1 /\ Row(l, p) \in 0..l.rows - 1
  BY <1>2, LineClose DEF Col, Row, IsLayout
<1>4. GridPlace(l, p) = Row(l, p) * l.cols + Col(l, p)
  BY DEF GridPlace, CellOf, Row, Col, Line
<1>5. Row(l, p) \in Nat /\ Col(l, p) \in Nat /\ l.cols \in Nat /\ l.cols > 0
  BY <1>3 DEF IsLayout
<1>6. GridPlace(l, p) = l.cols * Row(l, p) + Col(l, p)
  BY <1>4, <1>5
<1>7. GridPlace(l, p) \in Nat
  BY <1>5, <1>6
<1>8. /\ (l.cols * Row(l, p) + Col(l, p)) % l.cols = Col(l, p)
      /\ (l.cols * Row(l, p) + Col(l, p)) \div l.cols = Row(l, p)
  BY <1>3, <1>5, QuotientIs
<1> QED
  BY <1>3, <1>6, <1>7, <1>8

\* Every point has a shard.
LEMMA ShardIDType ==
    ASSUME NEW l, IsLayout(l), NEW p \in Points
    PROVE  ShardID(l, p) \in 0..l.shardCount - 1
BY GridPlaceIs DEF ShardID, IsLayout

LEMMA DistanceIs ==
    ASSUME NEW l, IsLayout(l), NEW p \in Points, NEW q \in Points
    PROVE  /\ CellDistance(l, p, q) \in Nat
           /\ CellDistance(l, p, q) <= 1 =>
                /\ p[1] \div l.cellSize <= (q[1] \div l.cellSize) + 1
                /\ q[1] \div l.cellSize <= (p[1] \div l.cellSize) + 1
                /\ p[2] \div l.cellSize <= (q[2] \div l.cellSize) + 1
                /\ q[2] \div l.cellSize <= (p[2] \div l.cellSize) + 1
<1> DEFINE a == p[1] \div l.cellSize
           b == p[2] \div l.cellSize
           c == q[1] \div l.cellSize
           d == q[2] \div l.cellSize
<1>1. p[1] \in Nat /\ p[2] \in Nat /\ q[1] \in Nat /\ q[2] \in Nat
  BY DEF Points
<1>2. a \in Nat /\ b \in Nat /\ c \in Nat /\ d \in Nat
  BY <1>1, DivMod DEF IsLayout
<1>3. CellDistance(l, p, q) = IF Abs(a - c) > Abs(b - d) THEN Abs(a - c) ELSE Abs(b - d)
  BY DEF CellDistance, CellOf
<1> HIDE DEF a, b, c, d
<1>4. /\ CellDistance(l, p, q) \in Nat
      /\ CellDistance(l, p, q) <= 1 => a <= c + 1 /\ c <= a + 1 /\ b <= d + 1 /\ d <= b + 1
  BY <1>2, <1>3 DEF Abs
<1> QED
  BY <1>4 DEF a, b, c, d

\* Points in touching cells are in the same shard or in neighbouring ones, for
\* every layout, and also for points outside the area (ShardID clamps them).
\* Left out are places of the last row that have no shard of their own.
THEOREM TouchingPoints ==
    ASSUME NEW l, IsLayout(l), NEW p \in Points, NEW q \in Points,
           GridPlace(l, p) < l.shardCount, GridPlace(l, q) < l.shardCount,
           CellDistance(l, p, q) <= 1
    PROVE  ShardID(l, q) \in NeighborShardIDs(l, ShardID(l, p))
<1>1. /\ Col(l, p) \in 0..l.cols - 1 /\ Row(l, p) \in 0..l.rows - 1
      /\ GridPlace(l, p) \in Nat
      /\ GridPlace(l, p) % l.cols = Col(l, p)
      /\ GridPlace(l, p) \div l.cols = Row(l, p)
  BY GridPlaceIs
<1>2. /\ Col(l, q) \in 0..l.cols - 1 /\ Row(l, q) \in 0..l.rows - 1
      /\ GridPlace(l, q) \in Nat
      /\ GridPlace(l, q) % l.cols = Col(l, q)
      /\ GridPlace(l, q) \div l.cols = Row(l, q)
  BY GridPlaceIs
<1>3. p[1] \in Nat /\ p[2] \in Nat /\ q[1] \in Nat /\ q[2] \in Nat
  BY DEF Points
<1>4. /\ p[1] \div l.cellSize \in Nat /\ p[2] \div l.cellSize \in Nat
      /\ q[1] \div l.cellSize \in Nat /\ q[2] \div l.cellSize \in Nat
  BY <1>3, DivMod DEF IsLayout
<1>5. Col(l, p) <= Col(l, q) + 1 /\ Col(l, q) <= Col(l, p) + 1
  BY <1>4, DistanceIs, LineClose DEF Col, IsLayout
<1>6. Row(l, p) <= Row(l, q) + 1 /\ Row(l, q) <= Row(l, p) + 1
  BY <1>4, DistanceIs, LineClose DEF Row, IsLayout
<1>7. Col(l, q) - Col(l, p) \in -1..1 /\ Row(l, q) - Row(l, p) \in -1..1
  <2>1. /\ Col(l, p) \in Int /\ Col(l, q) \in Int
        /\ Row(l, p) \in Int /\ Row(l, q) \in Int
    BY <1>1, <1>2
  <2> QED
    BY <1>5, <1>6, <2>1
<1>8. l.shardCount \in Nat
  BY DEF IsLayout
<1>9. ShardID(l, p) = GridPlace(l, p) /\ ShardID(l, q) = GridPlace(l, q)
  BY <1>1, <1>2, <1>8 DEF ShardID
<1> QED
  BY <1>1, <1>2, <1>7, <1>8, <1>9 DEF NeighborShardIDs
=============================================================================
