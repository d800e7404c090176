--------------------------- MODULE CandidateIndex ---------------------------
(***************************************************************************)
(* The riders a matcher worker has in memory.  matching.Index keeps a grid *)
(* per shard; the hooks of node.Runner fill a shard when it starts and     *)
(* empty it when it stops, and FindCandidates searches it for every match  *)
(* request.  One process is modelled.  Three kinds of goroutines meet in   *)
(* it: the refresh loop, the shards' consumers, and consumers that lost    *)
(* the fence and still have to call the stop hook.                         *)
(*                                                                         *)
(* No command of the repository feeds rider events to the index, so a      *)
(* rider stays where ridersForShard puts it, and the riders of a shard     *)
(* come and go together.                                                   *)
(***************************************************************************)
EXTENDS ShardLayout, Sequences, FiniteSets

CONSTANTS
    AreaSize, CellSize, ShardCount,   \* the layout of the deployment
    LoadWeight,     \* weight of a rider's orders in its score
    Shards,         \* shards the process can come to own
    Riders,         \* rider ids, integers
    Placements,     \* where a seed can put the riders: functions to points
    Places,         \* places of orders: points
    Limits,         \* values of -candidate-limit
    MaxCount,       \* bound: orders of a rider, as the index knows
    MaxMoves        \* bound: ownership changes of a shard

Layout == NewLayout(AreaSize, CellSize, ShardCount)
Near == [s \in 0..(ShardCount - 1) |-> NeighborShardIDs(Layout, s)]

ASSUME LayoutAssumption ==
    /\ AreaSize \in Nat \ {0} /\ CellSize \in Nat \ {0} /\ ShardCount \in Nat \ {0}
    /\ Shards \subseteq 0..(ShardCount - 1)
ASSUME RidersAssumption ==
    /\ Riders \subseteq Nat /\ IsFiniteSet(Riders)
    /\ Placements \subseteq [Riders -> Nat \X Nat]
ASSUME OrdersAssumption ==
    Places \subseteq Nat \X Nat /\ Limits \subseteq Nat /\ LoadWeight \in Nat
ASSUME BoundsAssumption == MaxCount \in Nat /\ MaxMoves \in Nat

VARIABLES
    place,     \* coordinates of each rider, drawn from the seed
    owner,     \* etcd: newest epoch of each shard, and whether it is ours
    refresh,   \* where refreshOnce is with each shard, and the epoch it read
    active,    \* Node.active: epoch of each shard's worker, 0 if none
    running,   \* goroutines <<shard, epoch>> that have not returned
    late,      \* goroutines that left active and have not called onShardStop yet
    indexed,   \* Index.activeShards, whose riders are in the index
    count,     \* Rider.Count of the riders in the index
    struck     \* history: shards a late onShardStop emptied after their start

index == <<indexed, count>>
vars == <<place, owner, refresh, active, running, late, index, struck>>

----------------------------------------------------------------------------
Epochs == 0..MaxMoves

RiderShard(u) == ShardID(Layout, place[u])

TypeOK ==
    /\ place \in Placements
    /\ owner \in [Shards -> [epoch : Epochs, mine : BOOLEAN]]
    /\ refresh \in [Shards -> [pc : {"idle", "listed", "unlisted", "starting"}, epoch : Epochs]]
    /\ active \in [Shards -> Epochs]
    /\ running \subseteq Shards \X Epochs
    /\ late \in [Shards -> Nat]
    /\ indexed \subseteq Shards
    /\ count \in [Riders -> 0..MaxCount]
    /\ \A u \in Riders : count[u] # 0 => RiderShard(u) \in indexed
    /\ struck \subseteq Shards

NotRefreshing == [pc |-> "idle", epoch |-> 0]

Init ==
    /\ place \in Placements
    /\ owner = [s \in Shards |-> [epoch |-> 0, mine |-> FALSE]]
    /\ refresh = [s \in Shards |-> NotRefreshing]
    /\ active = [s \in Shards |-> 0]
    /\ running = {}
    /\ late = [s \in Shards |-> 0]
    /\ indexed = {}
    /\ count = [u \in Riders |-> 0]
    /\ struck = {}

----------------------------------------------------------------------------
(* The index                                                               *)

\* Riders of shard s are new objects, or gone.
Forget(s) == [u \in Riders |-> IF RiderShard(u) = s THEN 0 ELSE count[u]]

ReplaceShard(s) == indexed' = indexed \cup {s} /\ count' = Forget(s)

\* Variant: the riders stay in the index's own map.
RemoveShardKeepsRiders(s) == indexed' = indexed \ {s} /\ UNCHANGED count

RemoveShard(s) == indexed' = indexed \ {s} /\ count' = Forget(s)

\* A match was committed: ApplyRecordWithFence hands the rider's new number
\* of orders to the index.
SetRiderCount(u, n) ==
    /\ running # {}
    /\ RiderShard(u) \in indexed
    /\ count' = [count EXCEPT ![u] = n]
    /\ UNCHANGED <<place, owner, refresh, active, running, late, indexed, struck>>

\* Variant: the shards around the order's come last.
GroupsOthersFirst(home) ==
    <<{home}, (0..(ShardCount - 1)) \ Near[home], Near[home] \ {home}>>

\* The shards FindCandidates looks at, one group after the other.
Groups(home) ==
    <<{home}, Near[home] \ {home}, (0..(ShardCount - 1)) \ Near[home]>>

\* The rings of cells it looks at in each group: inner and outer radius.
Rings == << <<-1, 1>>, <<1, 3>>, <<3, 8>> >>

Distance(p, u) == CellDistance(Layout, p, place[u])

collect(shards, p, ring) ==
    {u \in Riders : /\ Distance(p, u) \in (ring[1] + 1)..ring[2]
                    /\ RiderShard(u) \in shards \cap indexed}

Score(p, u) == (Abs(p[1] - place[u][1]) + Abs(p[2] - place[u][2])) \div CellSize
               + count[u] * LoadWeight

Better(p, u, v) == \/ Score(p, u) < Score(p, v)
                   \/ Score(p, u) = Score(p, v) /\ u < v

\* Sorted by score and rider id, and cut off.
bestCandidates(S, p, limit) ==
    LET size == IF Cardinality(S) > limit THEN limit ELSE Cardinality(S)
    IN  [i \in 1..size |-> CHOOSE u \in S : Cardinality({v \in S : Better(p, v, u)}) = i - 1]

\* The candidates of the first ring of the first group that has any.
FindCandidates(p, limit) ==
    LET groups == Groups(ShardID(Layout, p))
        search(i) == collect(groups[(i \div 3) + 1], p, Rings[(i % 3) + 1])
        hits == {i \in 0..8 : search(i) # {}}
    IN  IF limit <= 0 \/ hits = {} THEN <<>>
        ELSE bestCandidates(search(CHOOSE i \in hits : \A j \in hits : i <= j), p, limit)

----------------------------------------------------------------------------
(* The runner and its hooks                                                *)

\* The controller moves the shard, to this node or to another.
Assign(s, mine) ==
    /\ owner[s].epoch < MaxMoves
    /\ owner' = [owner EXCEPT ![s] = [epoch |-> @.epoch + 1, mine |-> mine]]
    /\ UNCHANGED <<place, refresh, active, running, late, index, struck>>

\* refreshOnce reads the ownerships; the shard is among the node's, or not.
RefreshList(s) ==
    /\ refresh[s].pc = "idle"
    /\ refresh' = [refresh EXCEPT ![s] = [pc |-> IF owner[s].mine THEN "listed" ELSE "unlisted",
                                          epoch |-> owner[s].epoch]]
    /\ UNCHANGED <<place, owner, active, running, late, index, struck>>

\* The worker runs under that epoch, or there is none and none is wanted.
RefreshKeep(s) ==
    /\ \/ refresh[s].pc = "listed" /\ active[s] = refresh[s].epoch
       \/ refresh[s].pc = "unlisted" /\ active[s] = 0
    /\ refresh' = [refresh EXCEPT ![s] = NotRefreshing]
    /\ UNCHANGED <<place, owner, active, running, late, index, struck>>

\* Variant: the old worker's stop hook comes after the start hook.
RefreshStartThenStop(s) ==
    /\ refresh[s].pc = "listed"
    /\ active[s] # refresh[s].epoch
    /\ refresh' = [refresh EXCEPT ![s].pc = "starting"]
    /\ active' = [active EXCEPT ![s] = 0]
    /\ IF active[s] # 0 THEN RemoveShard(s) ELSE ReplaceShard(s)
    /\ struck' = struck \ {s}
    /\ UNCHANGED <<place, owner, running, late>>

\* No worker, or one under another epoch, which is stopped; then the start
\* hook is called.  (An error here ends the process.)
RefreshStart(s) ==
    /\ refresh[s].pc = "listed"
    /\ active[s] # refresh[s].epoch
    /\ refresh' = [refresh EXCEPT ![s].pc = "starting"]
    /\ active' = [active EXCEPT ![s] = 0]
    /\ ReplaceShard(s)
    /\ struck' = struck \ {s}
    /\ UNCHANGED <<place, owner, running, late>>

\* The record stream is open: the worker is registered and its goroutine runs.
StartShard(s) ==
    /\ refresh[s].pc = "starting"
    /\ active' = [active EXCEPT ![s] = refresh[s].epoch]
    /\ running' = running \cup {<<s, refresh[s].epoch>>}
    /\ refresh' = [refresh EXCEPT ![s] = NotRefreshing]
    /\ UNCHANGED <<place, owner, late, index, struck>>

\* The shard was not among the node's: stopShard.
RefreshStop(s) ==
    /\ refresh[s].pc = "unlisted"
    /\ active[s] # 0
    /\ refresh' = [refresh EXCEPT ![s] = NotRefreshing]
    /\ active' = [active EXCEPT ![s] = 0]
    /\ RemoveShard(s)
    /\ UNCHANGED <<place, owner, running, late, struck>>

\* Variant: whatever entry there is.
RemoveAnyEntry(s, e) == TRUE

\* removeActiveShard finds the goroutine's own entry.
removeActiveShard(s, e) == active[s] = e

\* Variant: the goroutine that lost the fence does not call the hook.
FenceLostNoHook(s, e) ==
    /\ <<s, e>> \in running
    /\ owner[s] # [epoch |-> e, mine |-> TRUE]
    /\ removeActiveShard(s, e)
    /\ active' = [active EXCEPT ![s] = 0]
    /\ running' = running \ {<<s, e>>}
    /\ UNCHANGED <<place, owner, refresh, late, index, struck>>

\* A goroutine finds its ownership gone and leaves active ...
FenceLost(s, e) ==
    /\ <<s, e>> \in running
    /\ owner[s] # [epoch |-> e, mine |-> TRUE]
    /\ removeActiveShard(s, e)
    /\ active' = [active EXCEPT ![s] = 0]
    /\ running' = running \ {<<s, e>>}
    /\ late' = [late EXCEPT ![s] = @ + 1]
    /\ UNCHANGED <<place, owner, refresh, index, struck>>

\* ... and then calls onShardStop, whatever happened in between.
LateStop(s) ==
    /\ late[s] > 0
    /\ late' = [late EXCEPT ![s] = @ - 1]
    /\ RemoveShard(s)
    /\ struck' = IF active[s] # 0 \/ refresh[s].pc = "starting" THEN struck \cup {s} ELSE struck
    /\ UNCHANGED <<place, owner, refresh, active, running>>

\* A goroutine that was cancelled, or is not the one in active, just returns.
Return(s, e) ==
    /\ <<s, e>> \in running
    /\ ~removeActiveShard(s, e)
    /\ running' = running \ {<<s, e>>}
    /\ UNCHANGED <<place, owner, refresh, active, late, index, struck>>

Next ==
    \/ \E s \in Shards :
        \/ \E mine \in BOOLEAN : Assign(s, mine)
        \/ RefreshList(s) \/ RefreshKeep(s) \/ RefreshStart(s) \/ StartShard(s)
        \/ RefreshStop(s) \/ LateStop(s)
        \/ \E e \in Epochs : FenceLost(s, e) \/ Return(s, e)
    \/ \E u \in Riders, n \in 1..MaxCount : SetRiderCount(u, n)

Spec == Init /\ [][Next]_vars

----------------------------------------------------------------------------
(* Properties                                                              *)

\* A shard that is started or running has its riders in the index, unless the
\* late hook of a goroutine that lost the fence has emptied it since: that is
\* the only way to lose them (startShard, stopShard).
IndexedUnlessStruck ==
    \A s \in Shards \ struck :
        active[s] # 0 \/ refresh[s].pc = "starting" => s \in indexed

\* The riders of a shard the process gave up are not offered for ever: there
\* is still somebody who will call the stop hook (removeActiveShard).
ForgottenWhenStopped ==
    \A s \in indexed : active[s] # 0 \/ refresh[s].pc = "starting" \/ late[s] > 0

\* The goroutine of the current ownership is the one in active, so refreshOnce
\* never starts a second consumer beside it, and can stop it (the epoch
\* comparison of removeActiveShard).
OneConsumer ==
    \A s \in Shards, e \in Epochs :
        <<s, e>> \in running /\ owner[s] = [epoch |-> e, mine |-> TRUE] => active[s] = e

\* How close the rider's shard is, and then the rider: the order of the search.
Tier(p, u) ==
    LET home == ShardID(Layout, p)
        away == Distance(p, u)
        ring == IF away <= 1 THEN 0 ELSE IF away <= 3 THEN 1 ELSE 2
    IN  CASE RiderShard(u) = home -> ring
          [] RiderShard(u) \in Near[home] \ {home} -> 3 + ring
          [] OTHER -> 6 + ring

\* What the nested loops of FindCandidates find, said of each rider: a rider
\* is a candidate if no other one is in a closer group of shards, or in the
\* same group and a closer ring; of the candidates the best come first.
NearestFirst ==
    \A p \in Places :
        LET visible == {u \in Riders : RiderShard(u) \in indexed /\ Distance(p, u) <= 8}
            tiers == {Tier(p, u) : u \in visible}
            nearest == {u \in visible : \A t \in tiers : Tier(p, u) <= t}
        IN  \A limit \in Limits :
              LET found == FindCandidates(p, limit)
                  chosen == {found[i] : i \in 1..Len(found)}
              IN  /\ chosen \subseteq nearest
                  /\ Len(found) = limit \/ (chosen = nearest /\ Len(found) < limit)
                  /\ \A i, j \in 1..Len(found) : i < j => Better(p, found[i], found[j])
                  /\ \A v \in chosen, u \in nearest : u \in chosen \/ Better(p, v, u)

\* Points in touching cells are in the same shard or in neighbouring ones,
\* whatever the sizes and however they are rounded: the search of the order's
\* shard and of those around it misses no rider nearby (NeighborShardIDs).
\* The only exception are places of a last row that has more of them than
\* there are shards: their points all go to the last shard (ShardID).  A
\* layout never changes, so it is looked at before the first assignment.
TouchingCellsAreNeighbors ==
    (\A s \in Shards : owner[s].epoch = 0 /\ refresh[s].pc = "idle") =>
        \A area \in 1..AreaSize, cell \in {1, CellSize}, shards \in 1..ShardCount :
            LET l == NewLayout(area, cell, shards)
                points == {p \in (0..(area - 1)) \X {0, area \div 2, area - 1} :
                             GridPlace(l, p) < shards}
            IN  \A p \in points, q \in points :
                  CellDistance(l, p, q) <= 1 => ShardID(l, q) \in NeighborShardIDs(l, ShardID(l, p))
=============================================================================
