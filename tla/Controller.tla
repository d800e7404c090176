----------------------------- MODULE Controller -----------------------------
(***************************************************************************)
(* The control plane: controllers compete for a leader key in etcd, and    *)
(* the one that believes it is the leader sweeps: it gives unowned shards  *)
(* a first owner, fails over the shards of nodes that are not alive, and   *)
(* moves at most one shard to its place on the hash ring.  A sweep reads   *)
(* etcd many times and writes by compare-and-swap; nothing makes it        *)
(* atomic, and leadership is only looked at when it begins.                *)
(***************************************************************************)
EXTENDS HashRing

CONSTANTS
    Controllers,    \* controller processes
    NoController,   \* nobody holds the leader key
    NoNode,         \* in place of a node where there is none
    EarlyNodes,     \* nodes that may be members before the controllers start
    MaxRetries,     \* maxEtcdAssignRetries
    MaxFlips,       \* bound: membership keys appearing or expiring
    MaxFaults       \* bound: crashes, late lease renewals, etcd errors and timeouts

ASSUME ControllersAssumption == NoController \notin Controllers
ASSUME MembersAssumption == NoNode \notin Nodes /\ EarlyNodes \subseteq Nodes
ASSUME BoundsAssumption == /\ MaxRetries \in Nat \ {0}
                           /\ MaxFlips \in Nat
                           /\ MaxFaults \in Nat

VARIABLES
    alive,        \* etcd: membership keys, kept by heartbeats under a TTL
    ownership,    \* etcd: [node, epoch] of each shard, epoch 0 when absent
    leaderKey,    \* etcd: holder of the leader key, kept under a TTL
    late,         \* compare-and-swaps under way that nobody waits for any more
    isLeader,     \* EtcdElection.leader of each controller
    sweep,        \* where each controller's sweep is and what it has read
    disturbed,    \* history: somebody else has swept or written during a sweep
    flips,        \* membership changes so far
    faults        \* faults so far

etcd == <<alive, ownership, leaderKey>>
vars == <<etcd, late, isLeader, sweep, disturbed, flips, faults>>

----------------------------------------------------------------------------
PCs == {"idle", "init", "initAlive", "failover", "failoverAlive", "deadShards",
        "deadAlive", "rebalance", "plan", "assign", "cas"}

Sweeps == [pc    : PCs,
           phase : {"init", "failover", "rebalance"},
           todo  : SUBSET Shards,     \* shards still to assign
           cand  : SUBSET Nodes,      \* alive nodes as read
           dead  : SUBSET Nodes,      \* owners, then dead owners still to fail over
           epoch : Nat,               \* epoch read before the compare-and-swap
           tries : 0..MaxRetries]

\* What tryAssign sends: a new owner, if the epoch is still the one read.
Requests == [shard : Shards, node : Nodes, epoch : Nat]

Idle == [pc |-> "idle", phase |-> "init", todo |-> {}, cand |-> {}, dead |-> {},
         epoch |-> 0, tries |-> 0]

TypeOK ==
    /\ alive \in SUBSET Nodes
    /\ ownership \in [Shards -> [node : Nodes \cup {NoNode}, epoch : Nat]]
    /\ leaderKey \in Controllers \cup {NoController}
    /\ late \in SUBSET Requests
    /\ isLeader \in [Controllers -> BOOLEAN]
    /\ sweep \in [Controllers -> Sweeps]
    /\ disturbed \in BOOLEAN
    /\ flips \in 0..MaxFlips
    /\ faults \in 0..MaxFaults

Init ==
    /\ alive \in SUBSET EarlyNodes
    /\ ownership = [s \in Shards |-> [node |-> NoNode, epoch |-> 0]]
    /\ leaderKey = NoController
    /\ late = {}
    /\ isLeader = [c \in Controllers |-> FALSE]
    /\ sweep = [c \in Controllers |-> Idle]
    /\ disturbed = FALSE
    /\ flips = 0
    /\ faults = 0

----------------------------------------------------------------------------
(* Membership: MarkAlive writes a key under a lease; the key goes when the  *)
(* heartbeats stop.                                                         *)

MarkAlive(n) ==
    /\ flips < MaxFlips
    /\ n \notin alive
    /\ alive' = alive \cup {n}
    /\ flips' = flips + 1
    /\ UNCHANGED <<ownership, leaderKey, late, isLeader, sweep, disturbed, faults>>

MembershipExpires(n) ==
    /\ flips < MaxFlips
    /\ n \in alive
    /\ alive' = alive \ {n}
    /\ flips' = flips + 1
    /\ UNCHANGED <<ownership, leaderKey, late, isLeader, sweep, disturbed, faults>>

----------------------------------------------------------------------------
(* Election                                                                 *)

\* The sweep ticker fires: TryAcquire trusts the local flag, else creates the
\* leader key if there is none.
TryAcquire(c) ==
    /\ sweep[c].pc = "idle"
    /\ \/ isLeader[c] /\ UNCHANGED leaderKey
       \/ ~isLeader[c] /\ leaderKey = NoController /\ leaderKey' = c
    /\ isLeader' = [isLeader EXCEPT ![c] = TRUE]
    /\ sweep' = [sweep EXCEPT ![c].pc = "init"]
    /\ disturbed' = (disturbed \/ \E d \in Controllers \ {c} : sweep[d].pc # "idle")
    /\ UNCHANGED <<alive, ownership, late, flips, faults>>

\* The lease of the key runs out: its holder is gone, or renewed too late.
LeaderKeyExpires ==
    /\ leaderKey # NoController
    /\ \/ ~isLeader[leaderKey] /\ UNCHANGED faults
       \/ isLeader[leaderKey] /\ faults < MaxFaults /\ faults' = faults + 1
    /\ leaderKey' = NoController
    /\ UNCHANGED <<alive, ownership, late, isLeader, sweep, disturbed, flips>>

\* watchKeepAlive sees the renewals end and calls loseLeader, after the key
\* went or, when the connection broke, before.
LoseLeader(c) ==
    /\ isLeader[c]
    /\ \/ leaderKey # c /\ UNCHANGED faults
       \/ leaderKey = c /\ faults < MaxFaults /\ faults' = faults + 1
    /\ isLeader' = [isLeader EXCEPT ![c] = FALSE]
    /\ UNCHANGED <<etcd, late, sweep, disturbed, flips>>

\* Stopped in order, a controller revokes its lease.
Resign(c) ==
    /\ faults < MaxFaults
    /\ sweep[c].pc = "idle"
    /\ isLeader[c]
    /\ leaderKey' = IF leaderKey = c THEN NoController ELSE leaderKey
    /\ isLeader' = [isLeader EXCEPT ![c] = FALSE]
    /\ faults' = faults + 1
    /\ UNCHANGED <<alive, ownership, late, sweep, disturbed, flips>>

----------------------------------------------------------------------------
(* The sweep.  Reading steps leave etcd alone.                              *)

Read(c, record) ==
    /\ sweep' = [sweep EXCEPT ![c] = record]
    /\ UNCHANGED <<etcd, late, isLeader, disturbed, flips, faults>>

Owned == {s \in Shards : ownership[s].epoch # 0}

\* EnsureInitialOwnership: first the ownerships, then the alive nodes.
ListUnowned(c) ==
    /\ sweep[c].pc = "init"
    /\ Read(c, [sweep[c] EXCEPT !.pc = "initAlive", !.todo = Shards \ Owned])

ListAliveForInit(c) ==
    /\ sweep[c].pc = "initAlive"
    /\ IF alive = {} \/ sweep[c].todo = {}
       THEN Read(c, [Idle EXCEPT !.pc = "failover"])
       ELSE Read(c, [sweep[c] EXCEPT !.pc = "assign", !.phase = "init", !.cand = alive])

\* Variant: shards without an owner are listed too.
ListOwnersAndUnowned(c) ==
    /\ sweep[c].pc = "failover"
    /\ Read(c, [sweep[c] EXCEPT !.pc = "failoverAlive",
                                !.dead = {ownership[s].node : s \in Shards}])

\* FailoverMissingOwners: the owners, then which of them are not alive.
ListOwners(c) ==
    /\ sweep[c].pc = "failover"
    /\ Read(c, [sweep[c] EXCEPT !.pc = "failoverAlive",
                                !.dead = {ownership[s].node : s \in Owned}])

ListDead(c) ==
    LET dead == sweep[c].dead \ alive
    IN  /\ sweep[c].pc = "failoverAlive"
        /\ Read(c, [sweep[c] EXCEPT !.pc = IF dead = {} THEN "rebalance" ELSE "deadShards",
                                    !.dead = dead])

\* The sweep of c when FailoverDeadNode has returned for the least dead node.
NextDead(c) ==
    LET dead == sweep[c].dead \ {Least(sweep[c].dead)}
    IN  [Idle EXCEPT !.pc = IF dead = {} THEN "rebalance" ELSE "deadShards", !.dead = dead]

\* FailoverDeadNode: the shards the dead node has now, then who can take them.
ListDeadShards(c) ==
    LET shards == {s \in Owned : ownership[s].node = Least(sweep[c].dead)}
    IN  /\ sweep[c].pc = "deadShards"
        /\ Read(c, IF shards = {} THEN NextDead(c)
                   ELSE [sweep[c] EXCEPT !.pc = "deadAlive", !.todo = shards])

\* Variant: the node found dead may get its own shards back.
ListTakeoverAny(c) ==
    /\ sweep[c].pc = "deadAlive"
    /\ Read(c, IF alive = {} THEN Idle
               ELSE [sweep[c] EXCEPT !.pc = "assign", !.phase = "failover", !.cand = alive])

ListTakeover(c) ==
    LET cand == alive \ {Least(sweep[c].dead)}
    IN  /\ sweep[c].pc = "deadAlive"
        /\ Read(c, IF cand = {} THEN Idle
                   ELSE [sweep[c] EXCEPT !.pc = "assign", !.phase = "failover", !.cand = cand])

\* RebalanceOnce: the alive nodes, then the ownerships; the first shard that
\* is not where the ring puts it moves, if validateMove finds its owner alive.
ListAliveForRebalance(c) ==
    /\ sweep[c].pc = "rebalance"
    /\ Read(c, IF alive = {} THEN Idle
               ELSE [Idle EXCEPT !.pc = "plan", !.cand = alive])

\* Variant: only the first ownership of the snapshot is looked at.
PlanFirstOnly(c) ==
    LET s == Least(Owned)
    IN  /\ sweep[c].pc = "plan"
        /\ Read(c, IF \/ Owned = {}
                      \/ ownership[s].node = TargetNodeID(sweep[c].cand, s)
                      \/ ownership[s].node \notin sweep[c].cand THEN Idle
                   ELSE [sweep[c] EXCEPT !.pc = "assign", !.phase = "rebalance", !.todo = {s}])

Plan(c) ==
    LET moves == {s \in Owned : ownership[s].node # TargetNodeID(sweep[c].cand, s)}
        s == Least(moves)
    IN  /\ sweep[c].pc = "plan"
        /\ Read(c, IF moves = {} \/ ownership[s].node \notin sweep[c].cand THEN Idle
                   ELSE [sweep[c] EXCEPT !.pc = "assign", !.phase = "rebalance", !.todo = {s}])

\* tryAssign: read the ownership, then write it under the next epoch if the
\* key has not changed.  Every write raises the epoch, so an unchanged epoch
\* is an unchanged revision.
AssignGet(c) ==
    /\ sweep[c].pc = "assign"
    /\ Read(c, [sweep[c] EXCEPT !.pc = "cas",
                                !.epoch = ownership[Least(sweep[c].todo)].epoch])

\* Where the sweep of c goes on when the first of its shards is assigned.
Assigned(c) ==
    LET todo == sweep[c].todo \ {Least(sweep[c].todo)}
    IN  IF todo # {} THEN [sweep[c] EXCEPT !.pc = "assign", !.todo = todo, !.epoch = 0, !.tries = 0]
        ELSE IF sweep[c].phase = "init" THEN [Idle EXCEPT !.pc = "failover"]
        ELSE IF sweep[c].phase = "failover" THEN NextDead(c)
        ELSE Idle

\* The node the phase of the sweep gives the shard to.
Target(c, s) == IF sweep[c].phase = "failover" THEN chooseFailoverTarget(sweep[c].cand, s)
                ELSE TargetNodeID(sweep[c].cand, s)

\* Variant: a plain put in place of the compare-and-swap.
AssignPut(c) ==
    LET s == Least(sweep[c].todo)
    IN  /\ sweep[c].pc = "cas"
        /\ ownership' = [ownership EXCEPT ![s] =
                            [node  |-> Target(c, s),
                             epoch |-> sweep[c].epoch + 1]]
        /\ sweep' = [sweep EXCEPT ![c] = Assigned(c)]
        /\ UNCHANGED <<alive, leaderKey, late, isLeader, disturbed, flips, faults>>

AssignTxn(c) ==
    LET s == Least(sweep[c].todo)
    IN  /\ sweep[c].pc = "cas"
        /\ ownership[s].epoch = sweep[c].epoch
        /\ ownership' = [ownership EXCEPT ![s] =
                            [node  |-> Target(c, s),
                             epoch |-> sweep[c].epoch + 1]]
        /\ sweep' = [sweep EXCEPT ![c] = Assigned(c)]
        /\ UNCHANGED <<alive, leaderKey, late, isLeader, disturbed, flips, faults>>

\* The key has changed: Assign tries again, and gives up in the end.
AssignConflict(c) ==
    /\ sweep[c].pc = "cas"
    /\ ownership[Least(sweep[c].todo)].epoch # sweep[c].epoch
    /\ Read(c, IF sweep[c].tries + 1 = MaxRetries THEN Idle
               ELSE [sweep[c] EXCEPT !.pc = "assign", !.tries = @ + 1])

----------------------------------------------------------------------------
(* Failures.  A compare-and-swap that was sent outlives the call that timed  *)
(* out and the process that died; it may be applied later, or never.         *)

InFlight(c) ==
    LET s == Least(sweep[c].todo)
    IN  IF sweep[c].pc = "cas"
        THEN {[shard |-> s, node |-> Target(c, s), epoch |-> sweep[c].epoch]}
        ELSE {}

\* A controller is killed and leaves its lease.
Crash(c) ==
    /\ faults < MaxFaults
    /\ isLeader[c] \/ sweep[c].pc # "idle"
    /\ isLeader' = [isLeader EXCEPT ![c] = FALSE]
    /\ sweep' = [sweep EXCEPT ![c] = Idle]
    /\ late' = late \cup InFlight(c)
    /\ faults' = faults + 1
    /\ UNCHANGED <<etcd, disturbed, flips>>

\* Any etcd call of a sweep fails or times out: the sweep returns.
SweepError(c) ==
    /\ faults < MaxFaults
    /\ sweep[c].pc # "idle"
    /\ sweep' = [sweep EXCEPT ![c] = Idle]
    /\ late' = late \cup InFlight(c)
    /\ faults' = faults + 1
    /\ UNCHANGED <<etcd, isLeader, disturbed, flips>>

\* Such a request is applied after all.  One whose epoch has passed changes
\* nothing, now or later.
LateTxn(r) ==
    /\ r \in late
    /\ ownership[r.shard].epoch = r.epoch
    /\ ownership' = [ownership EXCEPT ![r.shard] = [node |-> r.node, epoch |-> r.epoch + 1]]
    /\ late' = late \ {r}
    /\ disturbed' = (disturbed \/ \E c \in Controllers : sweep[c].pc # "idle")
    /\ UNCHANGED <<alive, leaderKey, isLeader, sweep, flips, faults>>

----------------------------------------------------------------------------
Sweep(c) ==
    \/ TryAcquire(c)
    \/ ListUnowned(c) \/ ListAliveForInit(c)
    \/ ListOwners(c) \/ ListDead(c) \/ ListDeadShards(c) \/ ListTakeover(c)
    \/ ListAliveForRebalance(c) \/ Plan(c)
    \/ AssignGet(c) \/ AssignTxn(c) \/ AssignConflict(c)

Next ==
    \/ \E n \in Nodes : MarkAlive(n) \/ MembershipExpires(n)
    \/ LeaderKeyExpires
    \/ \E r \in late : LateTxn(r)
    \/ \E c \in Controllers :
        Sweep(c) \/ LoseLeader(c) \/ Resign(c) \/ Crash(c) \/ SweepError(c)

Spec == Init /\ [][Next]_vars

\* Sweep tickers keep firing, etcd drops leases nobody renews, and a client
\* whose lease is gone learns it.
Fairness ==
    /\ \A c \in Controllers : WF_vars(Sweep(c))
    /\ WF_vars(LeaderKeyExpires /\ ~isLeader[leaderKey])
    /\ \A c \in Controllers : WF_vars(LoseLeader(c) /\ leaderKey # c)

FairSpec == Spec /\ Fairness

----------------------------------------------------------------------------
(* Properties                                                               *)

\* Whoever believes to be the leader and however sweeps overlap, each shard's
\* ownership only ever moves by one epoch at a time: an epoch is never given
\* to two owners, which is what fencing rests on (tryAssign's comparison).
Ownership == INSTANCE ShardOwnership WITH owner <- ownership

ImplementsShardOwnership == Ownership!Spec

\* As long as nobody else has swept or written during a sweep, an assignment,
\* also one that arrives late, really moves the shard, and the initial one
\* never takes a shard from an owner: no worker is restarted for nothing.
NoNeedlessMove ==
    [][\A s \in Shards : ownership'[s] # ownership[s] /\ ~disturbed =>
         /\ ownership'[s].node # ownership[s].node
         /\ \A c \in Controllers :
              sweep[c].pc = "cas" /\ sweep[c].phase = "init" /\ sweep'[c] # sweep[c]
                => ownership[s].epoch = 0]_vars

\* Once nodes and leases stay as they are, every shard comes to be owned by
\* the alive node the ring gives it, and stays there.
Settles ==
    <>[](alive # {} => \A s \in Shards : ownership[s].node = TargetNodeID(alive, s))

\* A node that joins takes shards over and moves none between the others, and
\* so a node that leaves gives its own away only: membership changes cost as
\* few moves as they can, for any ring (ConsistentHash.Get).
MinimalMovement ==
    \A n \in Nodes \ alive, s \in Shards : alive # {} =>
        TargetNodeID(alive \cup {n}, s) \in {n, TargetNodeID(alive, s)}
=============================================================================
