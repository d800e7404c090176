------------------------ MODULE CandidateIndexProofs ------------------------
(***************************************************************************)
(* Proofs about CandidateIndex.  The first part is about the hooks: which  *)
(* shards are in the index, and which goroutine is in active.  The second  *)
(* is about the search, which needs of the states only their type.         *)
(***************************************************************************)
EXTENDS CandidateIndex, RankTheorems, ShardLayoutProofs

----------------------------------------------------------------------------
(* The hooks                                                               *)

\* What refreshOnce read is not newer than etcd, and is still so if the epoch
\* is still the same.
Heard ==
    \A s \in Shards :
        /\ owner[s].mine => owner[s].epoch > 0
        /\ refresh[s].epoch <= owner[s].epoch
        /\ refresh[s].pc \in {"listed", "starting"} =>
              /\ refresh[s].epoch > 0
              /\ refresh[s].epoch = owner[s].epoch => owner[s].mine
        /\ refresh[s].pc = "unlisted" /\ refresh[s].epoch = owner[s].epoch => ~owner[s].mine

\* No goroutine has an epoch that refreshOnce has not seen yet.
Bounded ==
    \A s \in Shards, e \in Epochs :
        <<s, e>> \in running =>
            /\ e <= owner[s].epoch
            /\ refresh[s].pc # "idle" => e <= refresh[s].epoch

IInv ==
    /\ TypeOK
    /\ Heard
    /\ Bounded
    /\ IndexedUnlessStruck
    /\ ForgottenWhenStopped
    /\ OneConsumer

LEMMA InitIInv == Init => IInv
<1> SUFFICES ASSUME Init PROVE IInv
  OBVIOUS
<1> USE BoundsAssumption DEF Init, NotRefreshing, Epochs
<1>1. TypeOK
  BY DEF TypeOK
<1>2. Heard /\ Bounded
  BY DEF Heard, Bounded
<1>3. IndexedUnlessStruck /\ ForgottenWhenStopped /\ OneConsumer
  BY DEF IndexedUnlessStruck, ForgottenWhenStopped, OneConsumer
<1> QED
  BY <1>1, <1>2, <1>3 DEF IInv

\* The orders of the riders of an emptied or refilled shard are forgotten, and
\* of those the other shards have nothing changes.
LEMMA ForgetType ==
    ASSUME TypeOK, NEW s \in Shards
    PROVE  /\ Forget(s) \in [Riders -> 0..MaxCount]
           /\ \A u \in Riders : Forget(s)[u] # 0 => RiderShard(u) \in indexed \ {s}
BY BoundsAssumption DEF TypeOK, Forget

LEMMA AssignStep ==
    ASSUME IInv, NEW s \in Shards, NEW mine \in BOOLEAN, Assign(s, mine)
    PROVE  IInv'
<1> USE BoundsAssumption DEF IInv, Assign, Epochs
<1>1. TypeOK'
  BY DEF TypeOK, index, RiderShard
<1>2. Heard'
  BY DEF TypeOK, Heard
<1>3. Bounded'
  BY DEF TypeOK, Bounded
<1>4. IndexedUnlessStruck' /\ ForgottenWhenStopped'
  BY DEF IndexedUnlessStruck, ForgottenWhenStopped, index
<1>5. OneConsumer'
  BY DEF TypeOK, Bounded, OneConsumer
<1> QED
  BY <1>1, <1>2, <1>3, <1>4, <1>5

LEMMA RefreshListStep ==
    ASSUME IInv, NEW s \in Shards, RefreshList(s)
    PROVE  IInv'
<1> USE BoundsAssumption DEF IInv, RefreshList, Epochs
<1>1. TypeOK'
  BY DEF TypeOK, index, RiderShard
<1>2. Heard'
  BY DEF TypeOK, Heard
<1>3. Bounded'
  BY DEF TypeOK, Bounded
<1>4. IndexedUnlessStruck' /\ ForgottenWhenStopped'
  BY DEF TypeOK, IndexedUnlessStruck, ForgottenWhenStopped, index
<1>5. OneConsumer'
  BY DEF OneConsumer
<1> QED
  BY <1>1, <1>2, <1>3, <1>4, <1>5

LEMMA RefreshKeepStep ==
    ASSUME IInv, NEW s \in Shards, RefreshKeep(s)
    PROVE  IInv'
<1> USE BoundsAssumption DEF IInv, RefreshKeep, NotRefreshing, Epochs
<1>1. TypeOK'
  BY DEF TypeOK, index, RiderShard
<1>2. Heard'
  BY DEF TypeOK, Heard
<1>3. Bounded'
  BY DEF TypeOK, Bounded
<1>4. IndexedUnlessStruck' /\ ForgottenWhenStopped'
  BY DEF TypeOK, IndexedUnlessStruck, ForgottenWhenStopped, index
<1>5. OneConsumer'
  BY DEF OneConsumer
<1> QED
  BY <1>1, <1>2, <1>3, <1>4, <1>5

\* The epoch that was listed is the newest any goroutine has: if the shard is
\* still owned under it, its goroutine would be in active.
LEMMA RefreshStartStep ==
    ASSUME IInv, NEW s \in Shards, RefreshStart(s)
    PROVE  IInv'
<1> USE BoundsAssumption DEF IInv, RefreshStart, ReplaceShard, Epochs
<1>1. TypeOK'
  BY ForgetType DEF TypeOK, RiderShard
<1>2. Heard'
  BY DEF TypeOK, Heard
<1>3. Bounded'
  BY DEF TypeOK, Bounded
<1>4. IndexedUnlessStruck' /\ ForgottenWhenStopped'
  BY DEF TypeOK, IndexedUnlessStruck, ForgottenWhenStopped
<1>5. OneConsumer'
  BY DEF TypeOK, Heard, Bounded, OneConsumer
<1> QED
  BY <1>1, <1>2, <1>3, <1>4, <1>5

LEMMA StartShardStep ==
    ASSUME IInv, NEW s \in Shards, StartShard(s)
    PROVE  IInv'
<1> USE BoundsAssumption DEF IInv, StartShard, NotRefreshing, Epochs
<1>1. TypeOK'
  BY DEF TypeOK, index, RiderShard
<1>2. Heard'
  BY DEF TypeOK, Heard
<1>3. Bounded'
  BY DEF TypeOK, Heard, Bounded
<1>4. IndexedUnlessStruck' /\ ForgottenWhenStopped'
  BY DEF TypeOK, Heard, IndexedUnlessStruck, ForgottenWhenStopped, index
<1>5. OneConsumer'
  BY DEF TypeOK, Heard, Bounded, OneConsumer
<1> QED
  BY <1>1, <1>2, <1>3, <1>4, <1>5

LEMMA RefreshStopStep ==
    ASSUME IInv, NEW s \in Shards, RefreshStop(s)
    PROVE  IInv'
<1> USE BoundsAssumption DEF IInv, RefreshStop, RemoveShard, NotRefreshing, Epochs
<1>1. TypeOK'
  BY ForgetType DEF TypeOK, RiderShard
<1>2. Heard'
  BY DEF TypeOK, Heard
<1>3. Bounded'
  BY DEF TypeOK, Bounded
<1>4. IndexedUnlessStruck' /\ ForgottenWhenStopped'
  BY DEF TypeOK, IndexedUnlessStruck, ForgottenWhenStopped
<1>5. OneConsumer'
  BY DEF TypeOK, Heard, Bounded, OneConsumer
<1> QED
  BY <1>1, <1>2, <1>3, <1>4, <1>5

LEMMA FenceLostStep ==
    ASSUME IInv, NEW s \in Shards, NEW e \in Epochs, FenceLost(s, e)
    PROVE  IInv'
<1> USE BoundsAssumption DEF IInv, FenceLost, removeActiveShard, Epochs
<1>1. TypeOK'
  BY DEF TypeOK, index, RiderShard
<1>2. Heard'
  BY DEF Heard
<1>3. Bounded'
  BY DEF Bounded
<1>4. IndexedUnlessStruck' /\ ForgottenWhenStopped'
  BY DEF TypeOK, IndexedUnlessStruck, ForgottenWhenStopped, index
<1>5. OneConsumer'
  BY DEF TypeOK, OneConsumer
<1> QED
  BY <1>1, <1>2, <1>3, <1>4, <1>5

LEMMA LateStopStep ==
    ASSUME IInv, NEW s \in Shards, LateStop(s)
    PROVE  IInv'
<1> USE BoundsAssumption DEF IInv, LateStop, RemoveShard, Epochs
<1>1. TypeOK'
  BY ForgetType DEF TypeOK, RiderShard
<1>2. Heard' /\ Bounded'
  BY DEF Heard, Bounded
<1>3. IndexedUnlessStruck'
  BY DEF TypeOK, IndexedUnlessStruck
<1>4. ForgottenWhenStopped'
  BY DEF TypeOK, ForgottenWhenStopped
<1>5. OneConsumer'
  BY DEF OneConsumer
<1> QED
  BY <1>1, <1>2, <1>3, <1>4, <1>5

LEMMA ReturnStep ==
    ASSUME IInv, NEW s \in Shards, NEW e \in Epochs, Return(s, e)
    PROVE  IInv'
<1> USE DEF IInv, Return
<1>1. TypeOK'
  BY DEF TypeOK, index, RiderShard
<1>2. Heard' /\ Bounded'
  BY DEF Heard, Bounded
<1>3. IndexedUnlessStruck' /\ ForgottenWhenStopped'
  BY DEF IndexedUnlessStruck, ForgottenWhenStopped, index
<1>4. OneConsumer'
  BY DEF OneConsumer
<1> QED
  BY <1>1, <1>2, <1>3, <1>4

LEMMA SetRiderCountStep ==
    ASSUME IInv, NEW u \in Riders, NEW n \in 1..MaxCount, SetRiderCount(u, n)
    PROVE  IInv'
<1> USE BoundsAssumption DEF IInv, SetRiderCount
<1>1. TypeOK'
  BY DEF TypeOK, RiderShard
<1>2. Heard' /\ Bounded'
  BY DEF Heard, Bounded
<1>3. IndexedUnlessStruck' /\ ForgottenWhenStopped' /\ OneConsumer'
  BY DEF IndexedUnlessStruck, ForgottenWhenStopped, OneConsumer
<1> QED
  BY <1>1, <1>2, <1>3

LEMMA NextIInv == IInv /\ [Next]_vars => IInv'
<1> SUFFICES ASSUME IInv, [Next]_vars PROVE IInv'
  OBVIOUS
<1>1. CASE UNCHANGED vars
  BY <1>1 DEF IInv, vars, index, TypeOK, RiderShard, Heard, Bounded, IndexedUnlessStruck,
              ForgottenWhenStopped, OneConsumer
<1>2. ASSUME NEW s \in Shards, NEW mine \in BOOLEAN, Assign(s, mine) PROVE IInv'
  BY <1>2, AssignStep
<1>3. ASSUME NEW s \in Shards, RefreshList(s) \/ RefreshKeep(s) PROVE IInv'
  BY <1>3, RefreshListStep, RefreshKeepStep
<1>4. ASSUME NEW s \in Shards, RefreshStart(s) \/ StartShard(s) PROVE IInv'
  BY <1>4, RefreshStartStep, StartShardStep
<1>5. ASSUME NEW s \in Shards, RefreshStop(s) \/ LateStop(s) PROVE IInv'
  BY <1>5, RefreshStopStep, LateStopStep
<1>6. ASSUME NEW s \in Shards, NEW e \in Epochs, FenceLost(s, e) \/ Return(s, e) PROVE IInv'
  BY <1>6, FenceLostStep, ReturnStep
<1>7. ASSUME NEW u \in Riders, NEW n \in 1..MaxCount, SetRiderCount(u, n) PROVE IInv'
  BY <1>7, SetRiderCountStep
<1> QED
  BY <1>1, <1>2, <1>3, <1>4, <1>5, <1>6, <1>7 DEF Next

\* The inductive invariant of the hooks.
THEOREM Invariance == Spec => []IInv
BY InitIInv, NextIInv, PTL DEF Spec

\* Every variable keeps its type; in particular the index knows orders only of
\* riders of shards it holds (SetRiderCount, RemoveShard).
THEOREM TypeCorrect == Spec => []TypeOK
<1>1. IInv => TypeOK
  BY DEF IInv
<1> QED
  BY <1>1, Invariance, PTL

\* A started shard has its riders in the index unless a late stop hook struck
\* (startShard, stopShard).
THEOREM Indexed == Spec => []IndexedUnlessStruck
<1>1. IInv => IndexedUnlessStruck
  BY DEF IInv
<1> QED
  BY <1>1, Invariance, PTL

\* For the riders of a shard that was given up there is still a stop hook to
\* come (removeActiveShard).
THEOREM Forgotten == Spec => []ForgottenWhenStopped
<1>1. IInv => ForgottenWhenStopped
  BY DEF IInv
<1> QED
  BY <1>1, Invariance, PTL

\* The goroutine of the current ownership is the one in active (the epoch
\* comparison of removeActiveShard).
THEOREM SingleConsumer == Spec => []OneConsumer
<1>1. IInv => OneConsumer
  BY DEF IInv
<1> QED
  BY <1>1, Invariance, PTL

----------------------------------------------------------------------------
(* The layout                                                              *)

\* What the model checker sees of a layout of each size holds of every layout.
LEMMA TouchingInEveryState == TouchingCellsAreNeighbors
<1> SUFFICES ASSUME NEW area \in 1..AreaSize, NEW cell \in {1, CellSize},
                    NEW shards \in 1..ShardCount,
                    NEW p \in (0..(area - 1)) \X {0, area \div 2, area - 1},
                    NEW q \in (0..(area - 1)) \X {0, area \div 2, area - 1},
                    GridPlace(NewLayout(area, cell, shards), p) < shards,
                    GridPlace(NewLayout(area, cell, shards), q) < shards,
                    CellDistance(NewLayout(area, cell, shards), p, q) <= 1
             PROVE  ShardID(NewLayout(area, cell, shards), q)
                      \in NeighborShardIDs(NewLayout(area, cell, shards),
                                           ShardID(NewLayout(area, cell, shards), p))
  BY DEF TouchingCellsAreNeighbors
<1> DEFINE l == NewLayout(area, cell, shards)
<1>1. /\ area \in Nat /\ area > 0
      /\ cell \in Nat /\ cell > 0
      /\ shards \in Nat /\ shards > 0
  BY LayoutAssumption
<1>2. IsLayout(l) /\ l.shardCount = shards
  BY <1>1, NewLayoutIs
<1>3. area \div 2 \in Nat /\ area - 1 \in Nat
  BY <1>1, DivMod
<1>4. p \in Points /\ q \in Points
  BY <1>1, <1>3 DEF Points
<1>5. GridPlace(l, p) < l.shardCount /\ GridPlace(l, q) < l.shardCount /\ CellDistance(l, p, q) <= 1
  BY <1>2
<1> HIDE DEF l
<1>6. ShardID(l, q) \in NeighborShardIDs(l, ShardID(l, p))
  BY <1>2, <1>4, <1>5, TouchingPoints
<1> QED
  BY <1>6 DEF l

\* The search of the order's shard and of those around it misses no rider in a
\* touching cell, whatever the sizes (NeighborShardIDs, ShardID).
THEOREM Touching == Spec => []TouchingCellsAreNeighbors
BY TouchingInEveryState, PTL

LEMMA LayoutIs == IsLayout(Layout) /\ Layout.shardCount = ShardCount
<1>1. /\ AreaSize \in Nat /\ AreaSize > 0
      /\ CellSize \in Nat /\ CellSize > 0
      /\ ShardCount \in Nat /\ ShardCount > 0
  BY LayoutAssumption
<1> QED
  BY <1>1, NewLayoutIs DEF Layout

\* A shard is among those around it.
LEMMA NearSelf ==
    ASSUME NEW s \in 0..(ShardCount - 1)
    PROVE  s \in Near[s]
<1>1. /\ Layout.cols \in Nat /\ Layout.cols > 0
      /\ Layout.shardCount = ShardCount
      /\ ShardCount \in Nat
  BY LayoutIs DEF IsLayout
<1>2. s \in Nat
  BY <1>1
<1>3. s % Layout.cols \in Int /\ s \div Layout.cols \in Int
  BY <1>1, <1>2, DivMod
<1>4. Near[s] = NeighborShardIDs(Layout, s)
  BY DEF Near
<1> QED
  BY <1>1, <1>3, <1>4 DEF NeighborShardIDs

----------------------------------------------------------------------------
(* The search                                                              *)

\* The riders in one ring of one group, and all riders that are near enough.
Search(p, i) == collect(Groups(ShardID(Layout, p))[(i \div 3) + 1], p, Rings[(i % 3) + 1])
Visible(p) == {u \in Riders : RiderShard(u) \in indexed /\ Distance(p, u) <= 8}

\* Every rider has a place, and so a shard and a distance.
LEMMA RiderIs ==
    ASSUME TypeOK, NEW p \in Points, NEW u \in Riders
    PROVE  /\ place[u] \in Points
           /\ RiderShard(u) \in 0..(ShardCount - 1)
           /\ ShardID(Layout, p) \in 0..(ShardCount - 1)
           /\ Distance(p, u) \in Nat
<1>1. place[u] \in Points
  BY RidersAssumption DEF TypeOK, Points
<1> QED
  BY <1>1, LayoutIs, ShardIDType, DistanceIs DEF RiderShard, Distance

\* The i-th search finds the riders of tier i.
LEMMA SearchIs ==
    ASSUME TypeOK, NEW p \in Points, NEW u \in Riders
    PROVE  /\ u \in Visible(p) => Tier(p, u) \in 0..8
           /\ \A i \in 0..8 : u \in Search(p, i) <=> u \in Visible(p) /\ Tier(p, u) = i
<1> DEFINE home == ShardID(Layout, p)
           away == Distance(p, u)
           ring == IF away <= 1 THEN 0 ELSE IF away <= 3 THEN 1 ELSE 2
           r == RiderShard(u)
           N == Near[home]
           in(shards, a, b) == away \in (a + 1)..b /\ r \in shards /\ r \in indexed
           seen == r \in indexed /\ away <= 8
<1>1. r \in 0..(ShardCount - 1) /\ home \in 0..(ShardCount - 1) /\ away \in Nat
  BY RiderIs
<1>2. home \in N
  BY <1>1, NearSelf
<1>3. u \in Visible(p) <=> seen
  BY DEF Visible
<1>4. Tier(p, u) = IF r = home THEN ring ELSE IF r \in N THEN 3 + ring ELSE 6 + ring
  BY DEF Tier
<1>5. /\ u \in Search(p, 0) <=> in({home}, -1, 1)
      /\ u \in Search(p, 1) <=> in({home}, 1, 3)
      /\ u \in Search(p, 2) <=> in({home}, 3, 8)
      /\ u \in Search(p, 3) <=> in(N \ {home}, -1, 1)
      /\ u \in Search(p, 4) <=> in(N \ {home}, 1, 3)
      /\ u \in Search(p, 5) <=> in(N \ {home}, 3, 8)
      /\ u \in Search(p, 6) <=> in((0..(ShardCount - 1)) \ N, -1, 1)
      /\ u \in Search(p, 7) <=> in((0..(ShardCount - 1)) \ N, 1, 3)
      /\ u \in Search(p, 8) <=> in((0..(ShardCount - 1)) \ N, 3, 8)
  BY DEF Search, collect, Groups, Rings
<1> HIDE DEF home, away, r, N
<1>6. \A i \in 0..8 : u \in Search(p, i) <=> seen /\ Tier(p, u) = i
  <2> SUFFICES ASSUME NEW i \in 0..8 PROVE u \in Search(p, i) <=> seen /\ Tier(p, u) = i
    OBVIOUS
  <2>1. CASE i \in 0..2
    BY <1>1, <1>4, <1>5, <2>1
  <2>2. CASE i \in 3..5
    BY <1>1, <1>4, <1>5, <2>2
  <2>3. CASE i \in 6..8
    BY <1>1, <1>2, <1>4, <1>5, <2>3
  <2> QED
    BY <2>1, <2>2, <2>3
<1> QED
  BY <1>3, <1>4, <1>6

Hits(p) == {i \in 0..8 : Search(p, i) # {}}

\* The visible riders none of which is in a closer group or ring.
Nearest(p) == {u \in Visible(p) : \A t \in {Tier(p, v) : v \in Visible(p)} : Tier(p, u) <= t}

\* The first search that finds anyone finds the nearest riders.
LEMMA FirstHit ==
    ASSUME TypeOK, NEW p \in Points
    PROVE  /\ Hits(p) = {} => Nearest(p) = {}
           /\ Hits(p) # {} => Search(p, CHOOSE i \in Hits(p) : \A j \in Hits(p) : i <= j) = Nearest(p)
<1>1. ASSUME NEW u \in Visible(p)
      PROVE  Tier(p, u) \in Hits(p) /\ u \in Search(p, Tier(p, u))
  <2>1. u \in Riders
    BY DEF Visible
  <2> QED
    BY <2>1, SearchIs DEF Hits
<1>2. Hits(p) = {} => Nearest(p) = {}
  BY <1>1 DEF Nearest
<1>3. ASSUME Hits(p) # {}
      PROVE  Search(p, CHOOSE i \in Hits(p) : \A j \in Hits(p) : i <= j) = Nearest(p)
  <2> DEFINE m == CHOOSE i \in Hits(p) : \A j \in Hits(p) : i <= j
  <2>1. Hits(p) \subseteq Nat
    BY DEF Hits
  <2>2. PICK x \in Hits(p) : \A y \in Hits(p) : ~(<<y, x>> \in OpToRel(<, Nat))
    BY <1>3, <2>1, WFMin, NatLessThanWellFounded
  <2>3. \A y \in Hits(p) : x <= y
    <3> SUFFICES ASSUME NEW y \in Hits(p), y < x PROVE FALSE
      BY <2>1
    <3>1. y \in Nat /\ x \in Nat
      BY <2>1
    <3>2. <<y, x>> \in OpToRel(<, Nat)
      BY <3>1 DEF OpToRel
    <3> QED
      BY <2>2, <3>2
  <2>4. m \in Hits(p) /\ \A j \in Hits(p) : m <= j
    BY <2>3
  <2> HIDE DEF m
  <2>5. m \in 0..8 /\ Search(p, m) # {}
    BY <2>4 DEF Hits
  <2>6. \A u \in Search(p, m) : u \in Visible(p) /\ Tier(p, u) = m
    <3>1. Search(p, m) \subseteq Riders
      BY DEF Search, collect
    <3> QED
      BY <2>5, <3>1, SearchIs
  <2>7. ASSUME NEW u \in Search(p, m) PROVE u \in Nearest(p)
    BY <1>1, <2>4, <2>6 DEF Nearest
  <2>8. ASSUME NEW u \in Nearest(p) PROVE u \in Search(p, m)
    <3>1. PICK v \in Search(p, m) : TRUE
      BY <2>5
    <3>2. v \in Visible(p) /\ Tier(p, v) = m
      BY <2>6, <3>1
    <3>3. u \in Visible(p) /\ Tier(p, u) <= m
      BY <3>2 DEF Nearest
    <3>4. Tier(p, u) \in Hits(p) /\ u \in Search(p, Tier(p, u))
      BY <1>1, <3>3
    <3>5. Tier(p, u) \in Nat /\ m \in Nat /\ m <= Tier(p, u)
      BY <2>1, <2>4, <3>4
    <3>6. Tier(p, u) = m
      BY <3>3, <3>5
    <3> QED
      BY <3>4, <3>6
  <2>9. Search(p, m) = Nearest(p)
    BY <2>7, <2>8
  <2> QED
    BY <2>9 DEF m
<1> QED
  BY <1>2, <1>3

----------------------------------------------------------------------------
(* The best of them                                                        *)

LEMMA ScoreType ==
    ASSUME TypeOK, NEW p \in Points, NEW u \in Riders
    PROVE  Score(p, u) \in Nat
<1>1. place[u] \in Points
  BY RiderIs
<1>2. p[1] \in Nat /\ p[2] \in Nat /\ place[u][1] \in Nat /\ place[u][2] \in Nat
  BY <1>1 DEF Points
<1> DEFINE sum == Abs(p[1] - place[u][1]) + Abs(p[2] - place[u][2])
<1>3. sum \in Nat
  BY <1>2 DEF Abs
<1>4. CellSize \in Nat /\ CellSize > 0
  BY LayoutAssumption
<1> HIDE DEF sum
<1>5. sum \div CellSize \in Nat
  BY <1>3, <1>4, DivMod
<1>6. count[u] \in Nat /\ LoadWeight \in Nat
  BY BoundsAssumption, OrdersAssumption DEF TypeOK
<1>7. count[u] * LoadWeight \in Nat
  BY <1>6
<1> QED
  BY <1>5, <1>7 DEF Score, sum

\* Better as a set of pairs.
Betters(p, S) == {pair \in S \X S : Better(p, pair[1], pair[2])}

\* Score and rider id leave no two riders undecided.
LEMMA BetterOrders ==
    ASSUME TypeOK, NEW p \in Points, NEW S \in SUBSET Riders
    PROVE  Orders(Betters(p, S), S)
<1>1. \A u \in S : u \in Nat /\ Score(p, u) \in Nat
  BY RidersAssumption, ScoreType
<1>2. \A u, v \in S : <<u, v>> \in Betters(p, S) <=>
                        Score(p, u) < Score(p, v) \/ (Score(p, u) = Score(p, v) /\ u < v)
  BY DEF Betters, Better
<1> QED
  BY <1>1, <1>2 DEF Orders

\* A sequence of riders of S in order, which leaves out none that is better
\* than one it has.
BestOf(found, S, p, limit) ==
    LET chosen == {found[i] : i \in 1..Len(found)}
    IN  /\ chosen \subseteq S
        /\ Len(found) = limit \/ (chosen = S /\ Len(found) < limit)
        /\ \A i, j \in 1..Len(found) : i < j => Better(p, found[i], found[j])
        /\ \A v \in chosen, u \in S : u \in chosen \/ Better(p, v, u)

LEMMA BestCandidatesIs ==
    ASSUME TypeOK, NEW p \in Points, NEW S \in SUBSET Riders, NEW limit \in Nat
    PROVE  BestOf(bestCandidates(S, p, limit), S, p, limit)
<1> DEFINE R == Betters(p, S)
           n == Cardinality(S)
           size == IF n > limit THEN limit ELSE n
           found == bestCandidates(S, p, limit)
           chosen == {found[i] : i \in 1..Len(found)}
<1>1. IsFiniteSet(S) /\ n \in Nat
  BY RidersAssumption, FS_Subset, FS_CardinalityType
<1>2. Orders(R, S)
  BY BetterOrders
<1>3. size \in Nat /\ size <= n /\ size <= limit /\ (size = limit \/ (size = n /\ size < limit))
  BY <1>1
<1>4. \A u, v \in S : <<u, v>> \in R <=> Better(p, u, v)
  BY DEF Betters
<1>5. \A u \in S : Cardinality({v \in S : Better(p, v, u)}) = Rank(R, S, u)
  <2> SUFFICES ASSUME NEW u \in S
               PROVE  Cardinality({v \in S : Better(p, v, u)}) = Rank(R, S, u)
    OBVIOUS
  <2>1. {v \in S : Better(p, v, u)} = {v \in S : <<v, u>> \in R}
    BY <1>4
  <2> QED
    BY <2>1 DEF Rank
<1>6. found = [i \in 1..size |->
                 CHOOSE u \in S : Cardinality({v \in S : Better(p, v, u)}) = i - 1]
  BY DEF bestCandidates
<1> HIDE DEF R, n, size, found
<1>7. \A i \in 1..size : found[i] \in S /\ Rank(R, S, found[i]) = i - 1
  <2> SUFFICES ASSUME NEW i \in 1..size PROVE found[i] \in S /\ Rank(R, S, found[i]) = i - 1
    OBVIOUS
  <2>1. i - 1 \in 0..Cardinality(S) - 1
    BY <1>1, <1>3 DEF n
  <2>2. \E u \in S : Rank(R, S, u) = i - 1
    BY <1>1, <1>2, <2>1, RankOnto
  <2>3. \E u \in S : Cardinality({v \in S : Better(p, v, u)}) = i - 1
    BY <1>5, <2>2
  <2>4. found[i] = CHOOSE u \in S : Cardinality({v \in S : Better(p, v, u)}) = i - 1
    BY <1>6
  <2>5. found[i] \in S /\ Cardinality({v \in S : Better(p, v, found[i])}) = i - 1
    BY <2>3, <2>4
  <2> QED
    BY <1>5, <2>5
<1>8. Len(found) = size
  BY <1>3, <1>6
<1>9. \A u \in S : Rank(R, S, u) \in 0..n - 1
  BY <1>1, <1>2, RankType DEF n
<1>10. \A u \in S : Rank(R, S, u) < size => u \in chosen
  <2> SUFFICES ASSUME NEW u \in S, Rank(R, S, u) < size PROVE u \in chosen
    OBVIOUS
  <2> DEFINE i == Rank(R, S, u) + 1
  <2>1. i \in 1..size /\ i - 1 = Rank(R, S, u)
    BY <1>1, <1>3, <1>9
  <2> HIDE DEF i
  <2>2. found[i] \in S /\ Rank(R, S, found[i]) = Rank(R, S, u)
    BY <1>7, <2>1
  <2>3. found[i] = u
    BY <1>1, <1>2, <2>2, RankOrder
  <2> QED
    BY <1>8, <2>1, <2>3
<1>11. \A v \in chosen : v \in S /\ Rank(R, S, v) < size
  BY <1>3, <1>7, <1>8
<1>12. \A i, j \in 1..size : i < j => Better(p, found[i], found[j])
  <2> SUFFICES ASSUME NEW i \in 1..size, NEW j \in 1..size, i < j
               PROVE  Better(p, found[i], found[j])
    OBVIOUS
  <2>1. /\ found[i] \in S /\ found[j] \in S
        /\ Rank(R, S, found[i]) < Rank(R, S, found[j])
    BY <1>3, <1>7
  <2>2. <<found[i], found[j]>> \in R
    BY <1>1, <1>2, <2>1, RankOrder
  <2> QED
    BY <1>4, <2>1, <2>2
<1>13. ASSUME NEW v \in chosen, NEW u \in S, u \notin chosen
       PROVE  Better(p, v, u)
  <2>1. v \in S /\ Rank(R, S, v) < size /\ Rank(R, S, v) \in Nat
    BY <1>9, <1>11
  <2>2. ~(Rank(R, S, u) < size) /\ Rank(R, S, u) \in Nat
    BY <1>9, <1>10, <1>13
  <2>3. Rank(R, S, v) < Rank(R, S, u)
    BY <1>3, <2>1, <2>2
  <2>4. <<v, u>> \in R
    BY <1>1, <1>2, <2>1, <2>3, RankOrder
  <2> QED
    BY <1>4, <2>1, <2>4
<1>14. size = n => chosen = S
  BY <1>1, <1>9, <1>10, <1>11
<1>15. /\ chosen \subseteq S
       /\ Len(found) = limit \/ (chosen = S /\ Len(found) < limit)
       /\ \A i, j \in 1..Len(found) : i < j => Better(p, found[i], found[j])
       /\ \A v \in chosen, u \in S : u \in chosen \/ Better(p, v, u)
  BY <1>3, <1>8, <1>11, <1>12, <1>13, <1>14
<1>16. BestOf(found, S, p, limit)
  BY <1>15 DEF BestOf
<1> QED
  BY <1>16 DEF found

LEMMA NearestInEveryState == TypeOK => NearestFirst
<1> SUFFICES ASSUME TypeOK, NEW p \in Places, NEW limit \in Limits
             PROVE  BestOf(FindCandidates(p, limit), Nearest(p), p, limit)
  BY DEF NearestFirst, Nearest, Visible, BestOf
<1>1. p \in Points /\ limit \in Nat
  BY OrdersAssumption DEF Points
<1>2. FindCandidates(p, limit) =
        IF limit <= 0 \/ Hits(p) = {} THEN <<>>
        ELSE bestCandidates(Search(p, CHOOSE i \in Hits(p) : \A j \in Hits(p) : i <= j), p, limit)
  BY DEF FindCandidates, Hits, Search
<1>3. CASE limit <= 0 \/ Hits(p) = {}
  <2>1. FindCandidates(p, limit) = <<>>
    BY <1>2, <1>3
  <2>2. limit = 0 \/ (Nearest(p) = {} /\ 0 < limit)
    BY <1>1, <1>3, FirstHit
  <2>3. BestOf(<<>>, Nearest(p), p, limit)
    BY <2>2 DEF BestOf
  <2> QED
    BY <2>1, <2>3
<1>4. CASE ~(limit <= 0 \/ Hits(p) = {})
  <2>1. FindCandidates(p, limit) = bestCandidates(Nearest(p), p, limit)
    BY <1>1, <1>2, <1>4, FirstHit
  <2>2. Nearest(p) \in SUBSET Riders
    BY DEF Nearest, Visible
  <2> QED
    BY <1>1, <2>1, <2>2, BestCandidatesIs
<1> QED
  BY <1>3, <1>4

\* FindCandidates offers the best of the nearest riders, in order, as many as
\* there are up to the limit (the loops of FindCandidates, bestCandidates).
THEOREM Candidates == Spec => []NearestFirst
BY TypeCorrect, NearestInEveryState, PTL
=============================================================================
