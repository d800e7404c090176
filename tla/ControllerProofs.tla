-------------------------- MODULE ControllerProofs --------------------------
(***************************************************************************)
(* Proofs about Controller and the ring it uses, for any hash function,    *)
(* any nodes, shards and controllers.                                      *)
(***************************************************************************)
EXTENDS Controller, WellFoundedInduction, TLAPS

----------------------------------------------------------------------------
(* The ring                                                                *)

\* Least is what its name says.
LEMMA LeastOf ==
    ASSUME NEW S \in SUBSET Nat, S # {}
    PROVE  Least(S) \in S /\ \A y \in S : Least(S) <= y
<1>1. PICK x \in S : \A y \in S : ~(<<y, x>> \in OpToRel(<, Nat))
  BY WFMin, NatLessThanWellFounded
<1>2. \A y \in S : x <= y
  <2> TAKE y \in S
  <2>1. ~(y < x)
    BY <1>1 DEF OpToRel
  <2> QED
    BY <2>1
<1> QED
  BY <1>2 DEF Least

\* So is Greatest, on sets of nodes.
LEMMA GreatestOf ==
    ASSUME NEW S \in SUBSET Nodes, S # {}
    PROVE  Greatest(S) \in S /\ \A y \in S : Greatest(S) >= y
<1>1. PICK top \in Nodes : \A m \in Nodes : top >= m
  BY NodesAssumption
<1> DEFINE D == {top - y : y \in S}
<1>2. D \in SUBSET Nat /\ D # {}
  <2>1. \A y \in S : y \in Nat /\ top \in Nat /\ top >= y
    BY <1>1, NodesAssumption
  <2>2. \A y \in S : top - y \in Nat
    BY <2>1
  <2> QED
    BY <2>2
<1>3. PICK x \in S : Least(D) = top - x
  BY <1>2, LeastOf
<1>4. \A y \in S : top - x <= top - y
  <2>1. \A d \in D : Least(D) <= d
    BY <1>2, LeastOf
  <2> QED
    BY <1>3, <2>1
<1>5. \A y \in S : x >= y
  BY <1>1, <1>4, NodesAssumption
<1> QED
  BY <1>5 DEF Greatest

\* A ring of some nodes has keys, and the key found is the first one at or
\* after the hash if there is such a key, else the first.
LEMMA GetKey ==
    ASSUME NEW A \in SUBSET Nodes, A # {}, NEW s \in Shards
    PROVE  /\ Keys(A) \in SUBSET Nat
           /\ Get(A, s) \in Keys(A)
           /\ (\E k \in Keys(A) : k >= ShardHash[s]) =>
                /\ Get(A, s) >= ShardHash[s]
                /\ \A k \in Keys(A) : k >= ShardHash[s] => Get(A, s) <= k
           /\ (~\E k \in Keys(A) : k >= ShardHash[s]) =>
                \A k \in Keys(A) : Get(A, s) <= k
<1> DEFINE after == {k \in Keys(A) : k >= ShardHash[s]}
<1>1. Keys(A) \in SUBSET Nat /\ Keys(A) # {}
  <2>1. \A n \in A : NodeHash[n] \in SUBSET Nat /\ NodeHash[n] # {}
    BY HashAssumption
  <2> QED
    BY <2>1 DEF Keys
<1>2. CASE after # {}
  <2>1. Get(A, s) = Least(after)
    BY <1>2 DEF Get
  <2>2. Least(after) \in after /\ \A y \in after : Least(after) <= y
    BY <1>1, <1>2, LeastOf
  <2> QED
    BY <1>1, <1>2, <2>1, <2>2
<1>3. CASE after = {}
  <2>1. Get(A, s) = Least(Keys(A))
    BY <1>3 DEF Get
  <2> QED
    BY <1>1, <1>3, <2>1, LeastOf
<1> QED
  BY <1>2, <1>3

\* The target of a shard is one of the nodes.
LEMMA TargetIsNode ==
    ASSUME NEW A \in SUBSET Nodes, A # {}, NEW s \in Shards
    PROVE  TargetNodeID(A, s) \in A
<1> DEFINE at == {n \in A : Get(A, s) \in NodeHash[n]}
<1>1. at # {}
  BY GetKey DEF Keys
<1> QED
  BY <1>1, GreatestOf DEF TargetNodeID, NodeAt

\* A node that joins the ring takes shards over or changes nothing.
THEOREM RingMovesLeast ==
    ASSUME NEW A \in SUBSET Nodes, A # {}, NEW n \in Nodes \ A, NEW s \in Shards
    PROVE  TargetNodeID(A \cup {n}, s) \in {n, TargetNodeID(A, s)}
<1> DEFINE B == A \cup {n}
           k == Get(A, s)
           j == Get(B, s)
<1>1. Keys(B) = Keys(A) \cup NodeHash[n]
  BY DEF Keys
<1>2. /\ B \in SUBSET Nodes
      /\ B # {}
      /\ ShardHash[s] \in Nat
  BY HashAssumption
<1>3. j \in Keys(A) => j = k
  <2>1. Keys(A) \in SUBSET Nat /\ k \in Keys(A)
    BY GetKey
  <2>2. Keys(B) \in SUBSET Nat /\ j \in Keys(B)
    BY <1>2, GetKey
  <2> SUFFICES ASSUME j \in Keys(A) PROVE j = k
    OBVIOUS
  <2>3. CASE \E x \in Keys(A) : x >= ShardHash[s]
    <3>1. k >= ShardHash[s] /\ \A x \in Keys(A) : x >= ShardHash[s] => k <= x
      BY <2>3, GetKey
    <3>2. j >= ShardHash[s] /\ \A x \in Keys(B) : x >= ShardHash[s] => j <= x
      BY <1>1, <1>2, <2>3, GetKey
    <3> QED
      BY <1>1, <2>1, <2>2, <3>1, <3>2
  <2>4. CASE ~\E x \in Keys(A) : x >= ShardHash[s]
    <3>1. \A x \in Keys(A) : k <= x
      BY <2>4, GetKey
    <3>2. ~\E x \in Keys(B) : x >= ShardHash[s]
      <4>1. (\E x \in Keys(B) : x >= ShardHash[s]) => j >= ShardHash[s]
        BY <1>2, GetKey
      <4> QED
        BY <2>4, <4>1
    <3>3. \A x \in Keys(B) : j <= x
      BY <1>2, <3>2, GetKey
    <3> QED
      BY <1>1, <2>1, <2>2, <3>1, <3>3
  <2> QED
    BY <2>3, <2>4
<1> DEFINE atA == {m \in A : j \in NodeHash[m]}
           atB == {m \in B : j \in NodeHash[m]}
<1>4. TargetNodeID(B, s) = Greatest(atB)
  BY DEF TargetNodeID, NodeAt
<1>5. CASE atA = {}
  <2>1. j \in Keys(B)
    BY <1>2, GetKey
  <2>2. atB # {} /\ atB \in SUBSET Nodes
    BY <1>2, <2>1 DEF Keys
  <2>3. Greatest(atB) \in atB
    BY <2>2, GreatestOf
  <2> QED
    BY <1>4, <1>5, <2>3
<1>6. CASE atA # {}
  <2>1. j = k
    BY <1>3, <1>6 DEF Keys
  <2>2. TargetNodeID(A, s) = Greatest(atA)
    BY <2>1 DEF TargetNodeID, NodeAt
  <2>3. CASE n \notin atB
    BY <1>4, <2>2, <2>3
  <2>4. CASE n \in atB
    <3>1. Greatest(atA) \in atA /\ \A y \in atA : Greatest(atA) >= y
      BY <1>6, GreatestOf
    <3>2. Greatest(atB) \in atB /\ \A y \in atB : Greatest(atB) >= y
      BY <1>2, <2>4, GreatestOf
    <3>3. CASE Greatest(atB) = n
      BY <1>4, <3>3
    <3>4. CASE Greatest(atB) # n
      <4>1. Greatest(atB) \in atA /\ Greatest(atA) \in atB
        BY <3>1, <3>2, <3>4
      <4>2. Greatest(atA) \in Nat /\ Greatest(atB) \in Nat
        BY <3>1, <4>1, NodesAssumption
      <4>3. Greatest(atA) >= Greatest(atB) /\ Greatest(atB) >= Greatest(atA)
        BY <3>1, <3>2, <4>1
      <4> HIDE DEF atA, atB
      <4> QED
        BY <1>4, <2>2, <4>2, <4>3
    <3> QED
      BY <3>3, <3>4
  <2> QED
    BY <2>3, <2>4
<1> QED
  BY <1>5, <1>6

----------------------------------------------------------------------------
(* The sweeps                                                              *)

\* A sweep that is to choose a target has nodes to choose from, one that has
\* shards to assign has a first, and one that has given up on a shard is over.
Sound(r) ==
    /\ r.tries < MaxRetries
    /\ r.pc \in {"plan", "assign", "cas"} => r.cand # {}
    /\ r.pc \in {"deadAlive", "assign", "cas"} => r.todo # {}

SweepOK == \A c \in Controllers : Sound(sweep[c])

\* An ownership that exists names a node.
OwnersOK == \A s \in Shards : ownership[s].epoch # 0 => ownership[s].node \in Nodes

IInv == TypeOK /\ SweepOK /\ OwnersOK

\* A step of one sweep that only reads.
LEMMA ReadKeeps ==
    ASSUME IInv, NEW c \in Controllers, NEW record \in Sweeps, Sound(record), Read(c, record)
    PROVE  IInv'
<1>1. TypeOK'
  BY DEF IInv, TypeOK, Read, etcd
<1>2. SweepOK'
  BY DEF IInv, TypeOK, SweepOK, Read
<1>3. OwnersOK'
  BY DEF IInv, OwnersOK, Read, etcd
<1> QED
  BY <1>1, <1>2, <1>3 DEF IInv

\* The sweeps a sweep goes on with.
LEMMA Continuations ==
    ASSUME IInv, NEW c \in Controllers
    PROVE  /\ sweep[c] \in Sweeps /\ Sound(sweep[c])
           /\ Idle \in Sweeps /\ Sound(Idle)
           /\ NextDead(c) \in Sweeps /\ Sound(NextDead(c))
           /\ sweep[c].pc = "cas" => Assigned(c) \in Sweeps /\ Sound(Assigned(c))
<1>1. sweep[c] \in Sweeps /\ Sound(sweep[c])
  BY DEF IInv, TypeOK, SweepOK
<1>2. Idle \in Sweeps /\ Sound(Idle) /\ Idle.tries = 0 /\ 0 < MaxRetries
  BY BoundsAssumption DEF Idle, Sweeps, PCs, Sound
<1>3. NextDead(c) \in Sweeps /\ Sound(NextDead(c))
  <2> DEFINE dead == sweep[c].dead \ {Least(sweep[c].dead)}
  <2>1. dead \in SUBSET Nodes
    BY <1>1 DEF Sweeps
  <2> HIDE DEF dead
  <2>2. \A p \in {"rebalance", "deadShards"} :
          /\ [Idle EXCEPT !.pc = p, !.dead = dead] \in Sweeps
          /\ Sound([Idle EXCEPT !.pc = p, !.dead = dead])
    BY <1>2, <2>1 DEF Sweeps, Idle, PCs, Sound
  <2> QED
    BY <2>2 DEF NextDead, dead
<1>4. ASSUME sweep[c].pc = "cas" PROVE Assigned(c) \in Sweeps /\ Sound(Assigned(c))
  <2> DEFINE todo == sweep[c].todo \ {Least(sweep[c].todo)}
             again == [sweep[c] EXCEPT !.pc = "assign", !.todo = todo, !.epoch = 0, !.tries = 0]
             over == [Idle EXCEPT !.pc = "failover"]
  <2>1. todo \in SUBSET Shards
    BY <1>1 DEF Sweeps
  <2>2. todo # {} => again \in Sweeps /\ Sound(again)
    <3> HIDE DEF todo
    <3> QED
      BY <1>1, <1>2, <1>4, <2>1 DEF Sweeps, PCs, Sound
  <2>3. over \in Sweeps /\ Sound(over)
    BY <1>2 DEF Idle, Sweeps, PCs, Sound
  <2>4. \/ todo # {} /\ Assigned(c) = again
        \/ Assigned(c) \in {over, NextDead(c), Idle}
    BY DEF Assigned
  <2> HIDE DEF again, over
  <2> QED
    BY <1>2, <1>3, <2>2, <2>3, <2>4
<1> QED
  BY <1>1, <1>2, <1>3, <1>4

\* What the steps outside the sweeps leave alone is enough.
LEMMA SweepKept ==
    ASSUME IInv, sweep' = sweep, ownership' = ownership, TypeOK'
    PROVE  IInv'
  BY DEF IInv, SweepOK, OwnersOK

\* What a sweep is about to write.
LEMMA CasIs ==
    ASSUME IInv, NEW c \in Controllers, sweep[c].pc = "cas"
    PROVE  LET s == Least(sweep[c].todo)
           IN  /\ s \in sweep[c].todo /\ s \in Shards
               /\ Target(c, s) \in sweep[c].cand
               /\ Target(c, s) = TargetNodeID(sweep[c].cand, s)
               /\ Target(c, s) \in Nodes
               /\ sweep[c].epoch \in Nat
<1> DEFINE s == Least(sweep[c].todo)
<1>1. sweep[c] \in Sweeps /\ Sound(sweep[c])
  BY Continuations
<1>2. sweep[c].todo \in SUBSET Shards /\ sweep[c].todo # {}
  BY <1>1 DEF Sweeps, Sound
<1>3. s \in sweep[c].todo /\ s \in Shards
  BY <1>2, LeastOf, ShardsAssumption
<1>4. sweep[c].cand \in SUBSET Nodes /\ sweep[c].cand # {}
  BY <1>1 DEF Sweeps, Sound
<1>5. Target(c, s) = TargetNodeID(sweep[c].cand, s)
  BY DEF Target, TargetNodeID, chooseFailoverTarget
<1>6. Target(c, s) \in sweep[c].cand
  BY <1>3, <1>4, <1>5, TargetIsNode
<1> QED
  BY <1>1, <1>3, <1>4, <1>5, <1>6 DEF Sweeps

\* The request that outlives the sweep is that one.
LEMMA InFlightIs ==
    ASSUME IInv, NEW c \in Controllers, NEW r \in InFlight(c)
    PROVE  /\ sweep[c].pc = "cas"
           /\ r \in Requests
           /\ r.shard = Least(sweep[c].todo)
           /\ r.node = Target(c, r.shard)
           /\ r.epoch = sweep[c].epoch
<1> DEFINE s == Least(sweep[c].todo)
<1>1. /\ sweep[c].pc = "cas"
      /\ r = [shard |-> s, node |-> Target(c, s), epoch |-> sweep[c].epoch]
  BY DEF InFlight
<1>2. s \in Shards /\ Target(c, s) \in Nodes /\ sweep[c].epoch \in Nat
  BY <1>1, CasIs
<1> HIDE DEF s
<1>3. /\ r \in Requests
      /\ r.shard = s /\ r.node = Target(c, s) /\ r.epoch = sweep[c].epoch
  BY <1>1, <1>2 DEF Requests
<1> QED
  BY <1>1, <1>3 DEF s

\* The sweep of one controller is replaced.
LEMMA SweepReplaced ==
    ASSUME IInv, NEW c \in Controllers, NEW record \in Sweeps,
           sweep' = [sweep EXCEPT ![c] = record], Sound(record)
    PROVE  sweep' \in [Controllers -> Sweeps] /\ SweepOK'
  BY DEF IInv, TypeOK, SweepOK

\* An assignment, in time or late, gives one shard its next epoch.
LEMMA AssignStep ==
    ASSUME IInv, \/ \E c \in Controllers : AssignTxn(c)
                 \/ \E r \in late : LateTxn(r)
    PROVE  \E s \in Shards, n \in Nodes :
              ownership' = [ownership EXCEPT ![s] = [node |-> n, epoch |-> @.epoch + 1]]
<1> DEFINE Given(s, n) ==
             ownership' = [ownership EXCEPT ![s] = [node |-> n, epoch |-> ownership[s].epoch + 1]]
<1>1. ASSUME NEW c \in Controllers, AssignTxn(c)
      PROVE  \E s \in Shards, n \in Nodes : Given(s, n)
  <2> DEFINE t == Least(sweep[c].todo)
  <2>1. t \in Shards /\ Target(c, t) \in Nodes
    BY <1>1, CasIs DEF AssignTxn
  <2>2. Given(t, Target(c, t))
    BY <1>1 DEF AssignTxn
  <2> HIDE DEF t, Given
  <2> QED
    BY <2>1, <2>2
<1>2. ASSUME NEW r \in late, LateTxn(r)
      PROVE  \E s \in Shards, n \in Nodes : Given(s, n)
  <2>1. r.shard \in Shards /\ r.node \in Nodes
    BY DEF IInv, TypeOK, Requests
  <2>2. Given(r.shard, r.node)
    BY <1>2 DEF LateTxn
  <2> HIDE DEF Given
  <2> QED
    BY <2>1, <2>2
<1>3. ownership \in [Shards -> [node : Nodes \cup {NoNode}, epoch : Nat]]
  BY DEF IInv, TypeOK
<1> QED
  BY <1>1, <1>2, <1>3

\* So it keeps the types of the ownerships.
LEMMA AssignKeeps ==
    ASSUME IInv, NEW s \in Shards, NEW n \in Nodes,
           ownership' = [ownership EXCEPT ![s] = [node |-> n, epoch |-> @.epoch + 1]]
    PROVE  /\ ownership' \in [Shards -> [node : Nodes \cup {NoNode}, epoch : Nat]]
           /\ OwnersOK'
           /\ ownership'[s].epoch = ownership[s].epoch + 1
           /\ \A t \in Shards \ {s} : ownership'[t] = ownership[t]
<1>1. ownership \in [Shards -> [node : Nodes \cup {NoNode}, epoch : Nat]]
  BY DEF IInv, TypeOK
<1> QED
  BY <1>1 DEF IInv, OwnersOK

LEMMA NextIInv == IInv /\ [Next]_vars => IInv'
<1> SUFFICES ASSUME IInv, [Next]_vars PROVE IInv'
  OBVIOUS
<1>1. ASSUME NEW n \in Nodes, MarkAlive(n) \/ MembershipExpires(n) PROVE IInv'
  <2>1. TypeOK' /\ sweep' = sweep /\ ownership' = ownership
    BY <1>1, BoundsAssumption DEF MarkAlive, MembershipExpires, IInv, TypeOK
  <2> QED
    BY <2>1, SweepKept
<1>2. ASSUME LeaderKeyExpires PROVE IInv'
  <2>1. TypeOK' /\ sweep' = sweep /\ ownership' = ownership
    BY <1>2, BoundsAssumption DEF LeaderKeyExpires, IInv, TypeOK
  <2> QED
    BY <2>1, SweepKept
<1>3. ASSUME NEW c \in Controllers, LoseLeader(c) \/ Resign(c) PROVE IInv'
  <2>1. TypeOK' /\ sweep' = sweep /\ ownership' = ownership
    <3>1. isLeader' \in [Controllers -> BOOLEAN]
      BY <1>3 DEF LoseLeader, Resign, IInv, TypeOK
    <3>2. leaderKey' \in Controllers \cup {NoController}
      BY <1>3 DEF LoseLeader, Resign, IInv, TypeOK, etcd
    <3>3. faults' \in 0..MaxFaults
      BY <1>3, BoundsAssumption DEF LoseLeader, Resign, IInv, TypeOK
    <3> QED
      BY <1>3, <3>1, <3>2, <3>3 DEF LoseLeader, Resign, IInv, TypeOK, etcd
  <2> QED
    BY <2>1, SweepKept
<1>4. ASSUME NEW c \in Controllers, Crash(c) \/ SweepError(c) PROVE IInv'
  <2>1. sweep' = [sweep EXCEPT ![c] = Idle]
    BY <1>4 DEF Crash, SweepError
  <2>2. sweep' \in [Controllers -> Sweeps] /\ SweepOK'
    BY <2>1, Continuations, SweepReplaced
  <2>3. TypeOK' /\ ownership' = ownership
    <3>1. isLeader' \in [Controllers -> BOOLEAN]
      BY <1>4 DEF Crash, SweepError, IInv, TypeOK
    <3>2. faults' \in 0..MaxFaults
      BY <1>4, BoundsAssumption DEF Crash, SweepError, IInv, TypeOK
    <3>3. late' \in SUBSET Requests
      BY <1>4, InFlightIs DEF Crash, SweepError, IInv, TypeOK
    <3> QED
      BY <1>4, <2>2, <3>1, <3>2, <3>3 DEF Crash, SweepError, IInv, TypeOK, etcd
  <2> QED
    BY <2>2, <2>3 DEF IInv, OwnersOK
<1>5. ASSUME NEW c \in Controllers, TryAcquire(c) PROVE IInv'
  <2> DEFINE record == [sweep[c] EXCEPT !.pc = "init"]
  <2>1. sweep' = [sweep EXCEPT ![c] = record]
    BY <1>5 DEF TryAcquire, IInv, TypeOK
  <2>2. record \in Sweeps /\ Sound(record)
    BY Continuations DEF Sweeps, PCs, Sound
  <2>3. sweep' \in [Controllers -> Sweeps] /\ SweepOK'
    BY <2>1, <2>2, SweepReplaced
  <2>4. disturbed' \in BOOLEAN
    BY <1>5 DEF TryAcquire, IInv, TypeOK
  <2>5. TypeOK' /\ ownership' = ownership
    BY <1>5, <2>3, <2>4 DEF TryAcquire, IInv, TypeOK
  <2> QED
    BY <2>3, <2>5 DEF IInv, OwnersOK
<1>6. ASSUME NEW c \in Controllers, Sweep(c), ~TryAcquire(c), ~AssignTxn(c)
      PROVE  \E record \in Sweeps : Read(c, record) /\ Sound(record)
  <2> DEFINE Fine(record) == record \in Sweeps /\ Sound(record)
  <2>0. /\ sweep[c] \in Sweeps /\ Sound(sweep[c])
        /\ alive \in SUBSET Nodes /\ Owned \in SUBSET Shards
        /\ 0 < MaxRetries /\ MaxRetries \in Nat
        /\ ownership \in [Shards -> [node : Nodes \cup {NoNode}, epoch : Nat]]
    BY BoundsAssumption DEF IInv, TypeOK, SweepOK, Owned
  <2>1. Fine(Idle) /\ Fine(NextDead(c))
    BY Continuations
  <2>2. ASSUME ListUnowned(c) PROVE \E r : Read(c, r) /\ Fine(r)
    <3>1. Fine([sweep[c] EXCEPT !.pc = "initAlive", !.todo = Shards \ Owned])
      BY <2>0 DEF Sweeps, PCs, Sound
    <3> QED
      BY <2>2, <3>1 DEF ListUnowned
  <2>3. ASSUME ListAliveForInit(c) PROVE \E r : Read(c, r) /\ Fine(r)
    <3>1. Fine([Idle EXCEPT !.pc = "failover"])
      BY <2>0, <2>1 DEF Sweeps, PCs, Sound, Idle
    <3>2. alive # {} /\ sweep[c].todo # {} =>
            Fine([sweep[c] EXCEPT !.pc = "assign", !.phase = "init", !.cand = alive])
      BY <2>0 DEF Sweeps, PCs, Sound
    <3> QED
      BY <2>3, <3>1, <3>2 DEF ListAliveForInit
  <2>4. ASSUME ListOwners(c) PROVE \E r : Read(c, r) /\ Fine(r)
    <3> DEFINE owners == {ownership[s].node : s \in Owned}
    <3>1. owners \in SUBSET Nodes
      BY DEF IInv, OwnersOK, Owned
    <3>2. Fine([sweep[c] EXCEPT !.pc = "failoverAlive", !.dead = owners])
      <4> HIDE DEF owners
      <4> QED
        BY <2>0, <3>1 DEF Sweeps, PCs, Sound
    <3> QED
      BY <2>4, <3>2 DEF ListOwners
  <2>5. ASSUME ListDead(c) PROVE \E r : Read(c, r) /\ Fine(r)
    <3> DEFINE dead == sweep[c].dead \ alive
    <3>1. dead \in SUBSET Nodes
      BY <2>0 DEF Sweeps
    <3>2. \A p \in {"rebalance", "deadShards"} :
            Fine([sweep[c] EXCEPT !.pc = p, !.dead = dead])
      <4> HIDE DEF dead
      <4> QED
        BY <2>0, <3>1 DEF Sweeps, PCs, Sound
    <3> QED
      BY <2>5, <3>2 DEF ListDead
  <2>6. ASSUME ListDeadShards(c) PROVE \E r : Read(c, r) /\ Fine(r)
    <3> DEFINE shards == {s \in Owned : ownership[s].node = Least(sweep[c].dead)}
    <3>1. shards \in SUBSET Shards
      BY <2>0
    <3>2. shards # {} => Fine([sweep[c] EXCEPT !.pc = "deadAlive", !.todo = shards])
      <4> HIDE DEF shards
      <4> QED
        BY <2>0, <3>1 DEF Sweeps, PCs, Sound
    <3> QED
      BY <2>1, <2>6, <3>2 DEF ListDeadShards
  <2>7. ASSUME ListTakeover(c) PROVE \E r : Read(c, r) /\ Fine(r)
    <3> DEFINE cand == alive \ {Least(sweep[c].dead)}
    <3>1. cand \in SUBSET Nodes
      BY <2>0
    <3>2. cand # {} /\ sweep[c].pc = "deadAlive" =>
            Fine([sweep[c] EXCEPT !.pc = "assign", !.phase = "failover", !.cand = cand])
      <4> HIDE DEF cand
      <4> QED
        BY <2>0, <3>1 DEF Sweeps, PCs, Sound
    <3> QED
      BY <2>1, <2>7, <3>2 DEF ListTakeover
  <2>8. ASSUME ListAliveForRebalance(c) PROVE \E r : Read(c, r) /\ Fine(r)
    <3>1. alive # {} => Fine([Idle EXCEPT !.pc = "plan", !.cand = alive])
      BY <2>0, <2>1 DEF Sweeps, PCs, Sound, Idle
    <3> QED
      BY <2>1, <2>8, <3>1 DEF ListAliveForRebalance
  <2>9. ASSUME Plan(c) PROVE \E r : Read(c, r) /\ Fine(r)
    <3> DEFINE moves == {s \in Owned : ownership[s].node # TargetNodeID(sweep[c].cand, s)}
    <3>1. moves # {} => Least(moves) \in Shards
      BY <2>0, LeastOf, ShardsAssumption
    <3>2. moves # {} /\ sweep[c].pc = "plan" =>
            Fine([sweep[c] EXCEPT !.pc = "assign", !.phase = "rebalance", !.todo = {Least(moves)}])
      <4> HIDE DEF moves
      <4> QED
        BY <2>0, <3>1 DEF Sweeps, PCs, Sound
    <3> QED
      BY <2>1, <2>9, <3>2 DEF Plan
  <2>10. ASSUME AssignGet(c) PROVE \E r : Read(c, r) /\ Fine(r)
    <3>1. sweep[c].pc = "assign" => Least(sweep[c].todo) \in Shards
      BY <2>0, LeastOf, ShardsAssumption DEF Sweeps, Sound
    <3>2. sweep[c].pc = "assign" => ownership[Least(sweep[c].todo)].epoch \in Nat
      BY <2>0, <3>1
    <3>3. \A e \in Nat : sweep[c].pc = "assign" => Fine([sweep[c] EXCEPT !.pc = "cas", !.epoch = e])
      BY <2>0 DEF Sweeps, PCs, Sound
    <3> QED
      BY <2>10, <3>2, <3>3 DEF AssignGet
  <2>11. ASSUME AssignConflict(c) PROVE \E r : Read(c, r) /\ Fine(r)
    <3>1. sweep[c].pc = "cas" /\ sweep[c].tries + 1 # MaxRetries =>
            Fine([sweep[c] EXCEPT !.pc = "assign", !.tries = @ + 1])
      <4>1. sweep[c].tries \in 0..MaxRetries /\ sweep[c].tries < MaxRetries
        BY <2>0 DEF Sweeps, Sound
      <4>2. \A t \in 0..MaxRetries : t < MaxRetries /\ sweep[c].pc = "cas" =>
              Fine([sweep[c] EXCEPT !.pc = "assign", !.tries = t])
        BY <2>0 DEF Sweeps, PCs, Sound
      <4>3. sweep[c].tries + 1 # MaxRetries =>
              sweep[c].tries + 1 \in 0..MaxRetries /\ sweep[c].tries + 1 < MaxRetries
        BY <2>0, <4>1
      <4>4. [sweep[c] EXCEPT !.pc = "assign", !.tries = @ + 1]
              = [sweep[c] EXCEPT !.pc = "assign", !.tries = sweep[c].tries + 1]
        BY <2>0 DEF Sweeps
      <4> QED
        BY <4>2, <4>3, <4>4
    <3> QED
      BY <2>1, <2>11, <3>1 DEF AssignConflict
  <2> QED
    BY <1>6, <2>2, <2>3, <2>4, <2>5, <2>6, <2>7, <2>8, <2>9, <2>10, <2>11 DEF Sweep
<1>7. ASSUME NEW c \in Controllers, AssignTxn(c) PROVE IInv'
  <2>1. sweep' \in [Controllers -> Sweeps] /\ SweepOK'
    BY <1>7, Continuations, SweepReplaced DEF AssignTxn
  <2>2. ownership' \in [Shards -> [node : Nodes \cup {NoNode}, epoch : Nat]] /\ OwnersOK'
    BY <1>7, AssignStep, AssignKeeps
  <2>3. TypeOK'
    BY <1>7, <2>1, <2>2 DEF AssignTxn, IInv, TypeOK
  <2> QED
    BY <2>1, <2>2, <2>3 DEF IInv
<1>8. ASSUME NEW r \in late, LateTxn(r) PROVE IInv'
  <2>1. ownership' \in [Shards -> [node : Nodes \cup {NoNode}, epoch : Nat]] /\ OwnersOK'
    BY <1>8, AssignStep, AssignKeeps
  <2>2. disturbed' \in BOOLEAN
    BY <1>8 DEF LateTxn, IInv, TypeOK
  <2>3. TypeOK' /\ SweepOK'
    BY <1>8, <2>1, <2>2 DEF LateTxn, IInv, TypeOK, SweepOK
  <2> QED
    BY <2>1, <2>3 DEF IInv
<1>9. ASSUME UNCHANGED vars PROVE IInv'
  BY <1>9 DEF IInv, TypeOK, SweepOK, Sound, OwnersOK, vars, etcd
<1> QED
  BY <1>1, <1>2, <1>3, <1>4, <1>5, <1>6, <1>7, <1>8, <1>9, ReadKeeps DEF Next

LEMMA InitIInv == Init => IInv
<1> SUFFICES ASSUME Init PROVE IInv
  OBVIOUS
<1>1. Idle \in Sweeps /\ Sound(Idle)
  BY BoundsAssumption DEF Idle, Sweeps, PCs, Sound
<1>2. TypeOK
  <2>1. alive \in SUBSET Nodes
    BY MembersAssumption DEF Init
  <2>2. ownership \in [Shards -> [node : Nodes \cup {NoNode}, epoch : Nat]]
    BY DEF Init
  <2>3. isLeader \in [Controllers -> BOOLEAN] /\ disturbed \in BOOLEAN /\ late \in SUBSET Requests
    BY DEF Init
  <2>4. flips \in 0..MaxFlips /\ faults \in 0..MaxFaults
    BY BoundsAssumption DEF Init
  <2> QED
    BY <1>1, <2>1, <2>2, <2>3, <2>4 DEF Init, TypeOK
<1>3. SweepOK /\ OwnersOK
  BY <1>1 DEF Init, SweepOK, OwnersOK
<1> QED
  BY <1>2, <1>3 DEF IInv

\* The inductive invariant, from which the other theorems follow.
THEOREM Invariance == Spec => []IInv
  BY InitIInv, NextIInv, PTL DEF Spec

\* Type correctness of the control plane, among it that a sweep never writes
\* a target that is not a node and never tries more often than it may.
THEOREM TypeCorrect == Spec => []TypeOK
<1>1. IInv => TypeOK
  BY DEF IInv
<1> QED
  BY <1>1, Invariance, PTL

\* Whoever is alive, a node that joins takes shards over and moves no others,
\* for every hash function and any number of virtual nodes.
THEOREM Movement == Spec => []MinimalMovement
<1>1. IInv => MinimalMovement
  BY RingMovesLeast DEF IInv, TypeOK, MinimalMovement
<1> QED
  BY <1>1, Invariance, PTL

\* Every change of an ownership is an assignment, in time or late.
LEMMA OnlyAssignments ==
    ASSUME [Next]_vars, ~(\E c \in Controllers : AssignTxn(c)), ~(\E r \in late : LateTxn(r))
    PROVE  ownership' = ownership
<1>1. ASSUME NEW c \in Controllers, Sweep(c) PROVE ownership' = ownership
  BY <1>1 DEF Sweep, TryAcquire, ListUnowned, ListAliveForInit, ListOwners, ListDead,
              ListDeadShards, ListTakeover, ListAliveForRebalance, Plan, AssignGet,
              AssignConflict, Read, etcd
<1>2. ASSUME NEW c \in Controllers, LoseLeader(c) \/ Resign(c) \/ Crash(c) \/ SweepError(c)
      PROVE  ownership' = ownership
  BY <1>2 DEF LoseLeader, Resign, Crash, SweepError, etcd
<1>3. ASSUME NEW n \in Nodes, MarkAlive(n) \/ MembershipExpires(n)
      PROVE  ownership' = ownership
  BY <1>3 DEF MarkAlive, MembershipExpires
<1>4. LeaderKeyExpires \/ UNCHANGED vars => ownership' = ownership
  BY DEF LeaderKeyExpires, vars, etcd
<1> QED
  BY <1>1, <1>2, <1>3, <1>4 DEF Next

\* Every step is one of the ownership store's, or leaves it alone.
LEMMA StepRefines == ASSUME IInv, [Next]_vars PROVE [Ownership!Next]_ownership
  BY AssignStep, OnlyAssignments DEF Ownership!Next, Ownership!Assign

\* The controllers implement the ownership store's promise, however their
\* sweeps overlap and their requests are delayed: every change gives one shard
\* its next epoch.
THEOREM Refinement == Spec => ImplementsShardOwnership
<1>1. Init => Ownership!Init
  BY DEF Init, Ownership!Init
<1>2. IInv /\ [Next]_vars => [Ownership!Next]_ownership
  BY StepRefines
<1> QED
  BY <1>1, <1>2, Invariance, PTL DEF Spec, ImplementsShardOwnership, Ownership!Spec

----------------------------------------------------------------------------
(* Needless moves                                                          *)

\* An ownership that does not exist names nobody.
UnownedOK == \A s \in Shards : ownership[s].epoch = 0 => ownership[s].node = NoNode

\* As long as nobody disturbed a sweep, only one runs at a time ...
Alone ==
    ~disturbed => \A c, d \in Controllers :
                      sweep[c].pc # "idle" /\ sweep[d].pc # "idle" => c = d

\* ... and what it has read of the shards it is still to assign holds.
UpToDate(r, o) ==
    /\ r.pc = "initAlive" => \A s \in r.todo : o[s].epoch = 0
    /\ r.pc = "deadAlive" => \A s \in r.todo : o[s].node = Least(r.dead)
    /\ r.pc \in {"assign", "cas"} =>
          /\ r.phase = "init" => \A s \in r.todo : o[s].epoch = 0
          /\ r.phase = "failover" => /\ \A s \in r.todo : o[s].node = Least(r.dead)
                                     /\ Least(r.dead) \notin r.cand
          /\ r.phase = "rebalance" =>
                \A s \in r.todo : o[s].node # TargetNodeID(r.cand, s)

Current == ~disturbed => \A c \in Controllers : UpToDate(sweep[c], ownership)

\* What is compared is not newer than what is stored.
EpochsRead ==
    /\ \A c \in Controllers :
          sweep[c].pc = "cas" => sweep[c].epoch <= ownership[Least(sweep[c].todo)].epoch
    /\ \A r \in late : r.epoch <= ownership[r.shard].epoch

\* A late request that can still be applied will move its shard.
LateMoves ==
    ~disturbed => \A r \in late :
        ownership[r.shard].epoch = r.epoch => ownership[r.shard].node # r.node

Quiet == UnownedOK /\ Alone /\ Current

QInv == IInv /\ Quiet

MInv == QInv /\ EpochsRead /\ LateMoves

\* A step of one sweep that only reads keeps this if what it goes on with is
\* up to date.
LEMMA ReadKeepsCurrent ==
    ASSUME QInv, IInv', NEW c \in Controllers, NEW record, Read(c, record),
           sweep[c].pc # "idle", ~disturbed => UpToDate(record, ownership)
    PROVE  QInv'
<1>1. /\ sweep' = [sweep EXCEPT ![c] = record]
      /\ ownership' = ownership
      /\ disturbed' = disturbed
  BY DEF Read, etcd
<1>2. sweep \in [Controllers -> Sweeps]
  BY DEF QInv, Quiet, IInv, TypeOK
<1>3. UnownedOK'
  BY <1>1 DEF QInv, Quiet, UnownedOK
<1>4. Alone'
  BY <1>1, <1>2 DEF QInv, Quiet, Alone
<1>5. Current'
  BY <1>1, <1>2 DEF QInv, Quiet, Current
<1> QED
  BY <1>3, <1>4, <1>5 DEF QInv, Quiet

LEMMA IdleUpToDate ==
    ASSUME NEW r, NEW o, r.pc \notin {"initAlive", "deadAlive", "assign", "cas"}
    PROVE  UpToDate(r, o)
BY DEF UpToDate

\* Every reading step goes on with something up to date.
LEMMA ReadsUpToDate ==
    ASSUME QInv, NEW c \in Controllers, Sweep(c), ~TryAcquire(c), ~AssignTxn(c)
    PROVE  \E record : /\ Read(c, record)
                       /\ sweep[c].pc # "idle"
                       /\ ~disturbed => UpToDate(record, ownership)
<1> DEFINE Fine(record) == ~disturbed => UpToDate(record, ownership)
           Goal == \E record : Read(c, record) /\ sweep[c].pc # "idle" /\ Fine(record)
<1>0. /\ sweep[c] \in Sweeps
      /\ ~disturbed => UpToDate(sweep[c], ownership)
      /\ Idle \in Sweeps /\ Idle.pc = "idle"
  BY Continuations DEF QInv, Quiet, Current, Idle
<1>1. Fine(Idle) /\ Fine(NextDead(c))
  <2>1. Fine(Idle)
    BY <1>0, IdleUpToDate
  <2>2. NextDead(c).pc \in {"rebalance", "deadShards"}
    BY DEF NextDead, Idle
  <2> QED
    BY <2>1, <2>2, IdleUpToDate
<1>2. ASSUME ListUnowned(c) PROVE Goal
  <2>1. Fine([sweep[c] EXCEPT !.pc = "initAlive", !.todo = Shards \ Owned])
    BY <1>0 DEF UpToDate, Sweeps, Owned
  <2> QED
    BY <1>2, <2>1 DEF ListUnowned
<1>3. ASSUME ListAliveForInit(c) PROVE Goal
  <2>1. Fine([Idle EXCEPT !.pc = "failover"])
    BY <1>0 DEF UpToDate, Idle
  <2>2. Fine([sweep[c] EXCEPT !.pc = "assign", !.phase = "init", !.cand = alive])
    BY <1>0, <1>3 DEF UpToDate, Sweeps, ListAliveForInit
  <2> QED
    BY <1>3, <2>1, <2>2 DEF ListAliveForInit
<1>4. ASSUME ListOwners(c) PROVE Goal
  <2>1. Fine([sweep[c] EXCEPT !.pc = "failoverAlive", !.dead = {ownership[s].node : s \in Owned}])
    BY <1>0 DEF UpToDate, Sweeps
  <2> QED
    BY <1>4, <2>1 DEF ListOwners
<1>5. ASSUME ListDead(c) PROVE Goal
  <2>1. \A dead : \A p \in {"rebalance", "deadShards"} : Fine([sweep[c] EXCEPT !.pc = p, !.dead = dead])
    BY <1>0 DEF UpToDate, Sweeps
  <2> QED
    BY <1>5, <2>1 DEF ListDead
<1>6. ASSUME ListDeadShards(c) PROVE Goal
  <2> DEFINE shards == {s \in Owned : ownership[s].node = Least(sweep[c].dead)}
  <2>1. Fine([sweep[c] EXCEPT !.pc = "deadAlive", !.todo = shards])
    BY <1>0 DEF UpToDate, Sweeps
  <2> QED
    BY <1>1, <1>6, <2>1 DEF ListDeadShards
<1>7. ASSUME ListTakeover(c) PROVE Goal
  <2> DEFINE cand == alive \ {Least(sweep[c].dead)}
  <2>1. Fine([sweep[c] EXCEPT !.pc = "assign", !.phase = "failover", !.cand = cand])
    BY <1>0, <1>7 DEF UpToDate, Sweeps, ListTakeover
  <2> QED
    BY <1>1, <1>7, <2>1 DEF ListTakeover
<1>8. ASSUME ListAliveForRebalance(c) PROVE Goal
  <2>1. Fine([Idle EXCEPT !.pc = "plan", !.cand = alive])
    BY <1>0 DEF UpToDate, Idle
  <2> QED
    BY <1>1, <1>8, <2>1 DEF ListAliveForRebalance
<1>9. ASSUME Plan(c) PROVE Goal
  <2> DEFINE moves == {s \in Owned : ownership[s].node # TargetNodeID(sweep[c].cand, s)}
             first == Least(moves)
             record == [sweep[c] EXCEPT !.pc = "assign", !.phase = "rebalance", !.todo = {first}]
  <2>1. ASSUME moves # {} PROVE Fine(record)
    <3>1. moves \in SUBSET Nat
      BY ShardsAssumption DEF Owned
    <3>2. first \in moves
      BY <2>1, <3>1, LeastOf
    <3>3. ownership[first].node # TargetNodeID(sweep[c].cand, first)
      BY <3>2
    <3> HIDE DEF moves, first
    <3>4. /\ record.pc = "assign" /\ record.phase = "rebalance"
          /\ record.todo = {first} /\ record.cand = sweep[c].cand
      BY <1>0 DEF Sweeps
    <3> HIDE DEF record
    <3> QED
      BY <3>3, <3>4 DEF UpToDate
  <2> QED
    BY <1>1, <1>9, <2>1 DEF Plan
<1>10. ASSUME AssignGet(c) PROVE Goal
  <2>1. \A e : Fine([sweep[c] EXCEPT !.pc = "cas", !.epoch = e])
    BY <1>0, <1>10 DEF UpToDate, Sweeps, AssignGet
  <2> QED
    BY <1>10, <2>1 DEF AssignGet
<1>11. ASSUME AssignConflict(c) PROVE Goal
  <2>1. Fine([sweep[c] EXCEPT !.pc = "assign", !.tries = @ + 1])
    BY <1>0, <1>11 DEF UpToDate, Sweeps, AssignConflict
  <2> QED
    BY <1>1, <1>11, <2>1 DEF AssignConflict
<1> QED
  BY <1>2, <1>3, <1>4, <1>5, <1>6, <1>7, <1>8, <1>9, <1>10, <1>11 DEF Sweep

\* An assignment writes what the sweep was about to.
LEMMA AssignIs ==
    ASSUME IInv, NEW c \in Controllers, AssignTxn(c)
    PROVE  LET s == Least(sweep[c].todo)
           IN  /\ s \in Shards
               /\ sweep[c].pc = "cas"
               /\ Target(c, s) \in Nodes
               /\ ownership[s].epoch = sweep[c].epoch
               /\ ownership' = [ownership EXCEPT ![s] =
                                  [node |-> Target(c, s), epoch |-> sweep[c].epoch + 1]]
               /\ sweep' = [sweep EXCEPT ![c] = Assigned(c)]
  BY CasIs DEF AssignTxn

LEMMA AssignKeepsCurrent ==
    ASSUME QInv, IInv', NEW c \in Controllers, AssignTxn(c)
    PROVE  QInv'
<1> DEFINE s == Least(sweep[c].todo)
           todo == sweep[c].todo \ {s}
           again == [sweep[c] EXCEPT !.pc = "assign", !.todo = todo, !.epoch = 0, !.tries = 0]
<1>0. sweep \in [Controllers -> Sweeps] /\ sweep[c] \in Sweeps
  BY DEF QInv, Quiet, IInv, TypeOK
<1>1. /\ s \in Shards
      /\ sweep[c].pc = "cas"
      /\ Target(c, s) \in Nodes
      /\ ownership[s].epoch = sweep[c].epoch
      /\ ownership' = [ownership EXCEPT ![s] =
                         [node |-> Target(c, s), epoch |-> sweep[c].epoch + 1]]
      /\ sweep' = [sweep EXCEPT ![c] = Assigned(c)]
  BY AssignIs DEF QInv, Quiet
<1>2. disturbed' = disturbed
  BY DEF AssignTxn
<1>3. ownership \in [Shards -> [node : Nodes \cup {NoNode}, epoch : Nat]]
  BY DEF QInv, Quiet, IInv, TypeOK
<1>4. \A t \in Shards \ {s} : ownership'[t] = ownership[t]
  BY <1>1, <1>3
<1>5. ownership'[s].epoch # 0
  <2>1. ownership'[s] = [node |-> Target(c, s), epoch |-> sweep[c].epoch + 1]
    BY <1>1, <1>3
  <2>2. sweep[c].epoch \in Nat
    BY <1>0 DEF Sweeps
  <2> QED
    BY <2>1, <2>2
<1>6. UnownedOK'
  BY <1>4, <1>5 DEF QInv, Quiet, UnownedOK
<1>7. Alone'
  BY <1>0, <1>1, <1>2 DEF QInv, Quiet, Alone
<1>8. ASSUME ~disturbed PROVE UpToDate(Assigned(c), ownership')
  <2>1. UpToDate(sweep[c], ownership)
    BY <1>8 DEF QInv, Quiet, Current
  <2>2. ASSUME todo # {} PROVE UpToDate(again, ownership')
    <3>1. \A t \in todo : t \in sweep[c].todo /\ ownership'[t] = ownership[t]
      BY <1>0, <1>4 DEF Sweeps
    <3> HIDE DEF todo
    <3>2. /\ again.pc = "assign" /\ again.todo = todo /\ again.phase = sweep[c].phase
          /\ again.cand = sweep[c].cand /\ again.dead = sweep[c].dead
      BY <1>0 DEF Sweeps
    <3> HIDE DEF again
    <3> QED
      BY <1>1, <2>1, <3>1, <3>2 DEF UpToDate
  <2>3. UpToDate([Idle EXCEPT !.pc = "failover"], ownership') /\ UpToDate(Idle, ownership')
    BY DEF UpToDate, Idle
  <2>4. UpToDate(NextDead(c), ownership')
    BY DEF UpToDate, NextDead, Idle
  <2> QED
    BY <2>2, <2>3, <2>4 DEF Assigned
<1>9. Current'
  <2> SUFFICES ASSUME ~disturbed, NEW d \in Controllers
               PROVE  UpToDate(sweep'[d], ownership')
    BY <1>2 DEF Current
  <2>1. CASE d = c
    BY <1>0, <1>1, <1>8, <2>1
  <2>2. CASE d # c
    <3>1. sweep[d].pc = "idle" /\ sweep'[d] = sweep[d]
      BY <1>0, <1>1, <2>2 DEF QInv, Quiet, Alone
    <3> QED
      BY <3>1 DEF UpToDate
  <2> QED
    BY <2>1, <2>2
<1> QED
  BY <1>6, <1>7, <1>9 DEF QInv, Quiet

LEMMA NextQInv == QInv /\ [Next]_vars => QInv'
<1> SUFFICES ASSUME QInv, [Next]_vars PROVE QInv'
  OBVIOUS
<1>0. IInv /\ IInv' /\ sweep \in [Controllers -> Sweeps]
  BY NextIInv DEF QInv, Quiet, IInv, TypeOK
<1>1. ASSUME UNCHANGED <<sweep, ownership, disturbed>> PROVE QInv'
  BY <1>0, <1>1 DEF QInv, Quiet, UnownedOK, Alone, Current
<1>2. ASSUME NEW n \in Nodes, MarkAlive(n) \/ MembershipExpires(n) PROVE QInv'
  BY <1>1, <1>2 DEF MarkAlive, MembershipExpires
<1>3. LeaderKeyExpires \/ UNCHANGED vars => QInv'
  BY <1>1 DEF LeaderKeyExpires, vars, etcd
<1>4. ASSUME NEW c \in Controllers, LoseLeader(c) \/ Resign(c) PROVE QInv'
  BY <1>1, <1>4 DEF LoseLeader, Resign, etcd
<1>5. ASSUME NEW c \in Controllers, Crash(c) \/ SweepError(c) PROVE QInv'
  <2>1. /\ sweep' = [sweep EXCEPT ![c] = Idle]
        /\ ownership' = ownership /\ disturbed' = disturbed
    BY <1>5 DEF Crash, SweepError, etcd
  <2>2. Idle.pc = "idle" /\ UpToDate(Idle, ownership)
    BY DEF Idle, UpToDate
  <2>3. UnownedOK' /\ Alone'
    BY <1>0, <2>1, <2>2 DEF QInv, Quiet, UnownedOK, Alone
  <2>4. Current'
    BY <1>0, <2>1, <2>2 DEF QInv, Quiet, Current
  <2> QED
    BY <1>0, <2>3, <2>4 DEF QInv, Quiet
<1>6. ASSUME NEW c \in Controllers, TryAcquire(c) PROVE QInv'
  <2> DEFINE record == [sweep[c] EXCEPT !.pc = "init"]
  <2>1. /\ sweep' = [sweep EXCEPT ![c] = record]
        /\ ownership' = ownership
        /\ ~disturbed' => ~disturbed /\ \A d \in Controllers \ {c} : sweep[d].pc = "idle"
    BY <1>0, <1>6 DEF TryAcquire
  <2>2. record.pc = "init" /\ UpToDate(record, ownership)
    BY <1>0 DEF Sweeps, UpToDate
  <2> HIDE DEF record
  <2>3. UnownedOK'
    BY <2>1 DEF QInv, Quiet, UnownedOK
  <2>4. Alone'
    BY <1>0, <2>1, <2>2 DEF Alone
  <2>5. Current'
    BY <1>0, <2>1, <2>2 DEF QInv, Quiet, Current
  <2> QED
    BY <1>0, <2>3, <2>4, <2>5 DEF QInv, Quiet
<1>7. ASSUME NEW c \in Controllers, Sweep(c), ~TryAcquire(c), ~AssignTxn(c) PROVE QInv'
  BY <1>0, <1>7, ReadsUpToDate, ReadKeepsCurrent
<1>8. ASSUME NEW c \in Controllers, AssignTxn(c) PROVE QInv'
  BY <1>0, <1>8, AssignKeepsCurrent
<1>9. ASSUME NEW r \in late, LateTxn(r) PROVE QInv'
  <2>1. r.shard \in Shards /\ r.epoch \in Nat
    BY <1>0 DEF IInv, TypeOK, Requests
  <2>2. ownership \in [Shards -> [node : Nodes \cup {NoNode}, epoch : Nat]]
    BY <1>0 DEF IInv, TypeOK
  <2>3. UnownedOK'
    BY <1>9, <2>1, <2>2 DEF LateTxn, QInv, Quiet, UnownedOK
  <2>4. sweep' = sweep /\ (~disturbed' => \A c \in Controllers : sweep[c].pc = "idle")
    BY <1>9 DEF LateTxn
  <2>5. Alone' /\ Current'
    BY <2>4 DEF Alone, Current, UpToDate
  <2> QED
    BY <1>0, <2>3, <2>5 DEF QInv, Quiet
<1> QED
  BY <1>2, <1>3, <1>4, <1>5, <1>6, <1>7, <1>8, <1>9 DEF Next

\* While nobody disturbed it, a compare-and-swap is about to move its shard,
\* and the initial one to give it its first owner.
LEMMA CasMoves ==
    ASSUME QInv, ~disturbed, NEW c \in Controllers, sweep[c].pc = "cas"
    PROVE  LET s == Least(sweep[c].todo)
           IN  /\ Target(c, s) # ownership[s].node
               /\ sweep[c].phase = "init" => ownership[s].epoch = 0
<1> DEFINE s == Least(sweep[c].todo)
<1>1. /\ s \in sweep[c].todo /\ s \in Shards
      /\ Target(c, s) \in sweep[c].cand
      /\ Target(c, s) = TargetNodeID(sweep[c].cand, s)
      /\ Target(c, s) \in Nodes
  BY CasIs DEF QInv
<1> HIDE DEF s
<1>2. UpToDate(sweep[c], ownership) /\ sweep[c].phase \in {"init", "failover", "rebalance"}
  BY DEF QInv, Quiet, Current, IInv, TypeOK, Sweeps
<1>3. sweep[c].phase = "init" => ownership[s].epoch = 0
  BY <1>1, <1>2 DEF UpToDate
<1>4. Target(c, s) # ownership[s].node
  <2>1. CASE sweep[c].phase = "init"
    <3>1. ownership[s].node = NoNode
      BY <1>1, <1>3, <2>1 DEF QInv, Quiet, UnownedOK
    <3> QED
      BY <1>1, <3>1, MembersAssumption
  <2>2. CASE sweep[c].phase = "failover"
    BY <1>1, <1>2, <2>2 DEF UpToDate
  <2>3. CASE sweep[c].phase = "rebalance"
    BY <1>1, <1>2, <2>3 DEF UpToDate
  <2> QED
    BY <1>2, <2>1, <2>2, <2>3
<1> QED
  BY <1>3, <1>4 DEF s

\* A step leaves a shard's ownership alone or gives it the next epoch.
LEMMA EpochsGrow ==
    ASSUME IInv, [Next]_vars, NEW s \in Shards
    PROVE  /\ ownership[s].epoch \in Nat
           /\ ownership'[s] = ownership[s] \/ ownership'[s].epoch = ownership[s].epoch + 1
<1>1. ownership[s].epoch \in Nat
  BY DEF IInv, TypeOK
<1>2. CASE ownership' = ownership
  BY <1>1, <1>2
<1>3. CASE ownership' # ownership
  <2>1. PICK t \in Shards, n \in Nodes :
          ownership' = [ownership EXCEPT ![t] = [node |-> n, epoch |-> @.epoch + 1]]
    BY <1>3, AssignStep, OnlyAssignments
  <2> QED
    BY <1>1, <2>1, AssignKeeps
<1> QED
  BY <1>2, <1>3

\* A compare-and-swap is prepared by AssignGet alone.
LEMMA CasComesFromGet ==
    ASSUME IInv, [Next]_vars, NEW c \in Controllers, sweep'[c].pc = "cas"
    PROVE  sweep'[c] = sweep[c] \/ AssignGet(c)
<1>0. sweep \in [Controllers -> Sweeps]
  BY DEF IInv, TypeOK
<1>1. ASSUME NEW d \in Controllers, NEW record, record.pc # "cas",
             sweep' = [sweep EXCEPT ![d] = record]
      PROVE  sweep'[c] = sweep[c]
  BY <1>0, <1>1
<1>2. Idle.pc # "cas"
  BY DEF Idle
<1>3. ASSUME NEW d \in Controllers, Crash(d) \/ SweepError(d) PROVE sweep'[c] = sweep[c]
  BY <1>1, <1>2, <1>3 DEF Crash, SweepError
<1>4. ASSUME NEW d \in Controllers, AssignTxn(d) PROVE sweep'[c] = sweep[c]
  <2>1. sweep[d] \in Sweeps
    BY <1>0
  <2>2. Assigned(d).pc # "cas"
    BY <2>1 DEF Assigned, NextDead, Idle, Sweeps
  <2> QED
    BY <1>1, <1>4, <2>2 DEF AssignTxn
<1>5. ASSUME NEW d \in Controllers, TryAcquire(d) PROVE sweep'[c] = sweep[c]
  <2> DEFINE record == [sweep[d] EXCEPT !.pc = "init"]
  <2>1. sweep' = [sweep EXCEPT ![d] = record] /\ record.pc # "cas"
    BY <1>0, <1>5 DEF TryAcquire, Sweeps
  <2> HIDE DEF record
  <2> QED
    BY <1>1, <2>1
<1>6. ASSUME NEW d \in Controllers, Sweep(d), ~TryAcquire(d), ~AssignTxn(d), ~AssignGet(d)
      PROVE  sweep'[c] = sweep[c]
  <2>1. sweep[d] \in Sweeps
    BY <1>0
  <2>2. ASSUME NEW record, Read(d, record), record.pc # "cas" PROVE sweep'[c] = sweep[c]
    BY <1>1, <2>2 DEF Read
  <2>3. NextDead(d).pc # "cas"
    BY DEF NextDead, Idle
  <2>4. ListUnowned(d) => sweep'[c] = sweep[c]
    BY <2>1, <2>2 DEF ListUnowned, Sweeps
  <2>5. ListAliveForInit(d) => sweep'[c] = sweep[c]
    BY <2>1, <2>2 DEF ListAliveForInit, Sweeps, Idle
  <2>6. ListOwners(d) => sweep'[c] = sweep[c]
    BY <2>1, <2>2 DEF ListOwners, Sweeps
  <2>7. ListDead(d) => sweep'[c] = sweep[c]
    BY <2>1, <2>2 DEF ListDead, Sweeps
  <2>8. ListDeadShards(d) => sweep'[c] = sweep[c]
    BY <2>1, <2>2, <2>3 DEF ListDeadShards, Sweeps
  <2>9. ListTakeover(d) => sweep'[c] = sweep[c]
    BY <1>2, <2>1, <2>2 DEF ListTakeover, Sweeps
  <2>10. ListAliveForRebalance(d) => sweep'[c] = sweep[c]
    BY <2>1, <2>2 DEF ListAliveForRebalance, Sweeps, Idle
  <2>11. Plan(d) => sweep'[c] = sweep[c]
    BY <1>2, <2>1, <2>2 DEF Plan, Sweeps
  <2>12. AssignConflict(d) => sweep'[c] = sweep[c]
    BY <1>2, <2>1, <2>2 DEF AssignConflict, Sweeps
  <2> QED
    BY <1>6, <2>4, <2>5, <2>6, <2>7, <2>8, <2>9, <2>10, <2>11, <2>12 DEF Sweep
<1>7. ASSUME NEW d \in Controllers, AssignGet(d) PROVE sweep'[c] = sweep[c] \/ d = c
  BY <1>0, <1>7 DEF AssignGet, Read
<1>8. ASSUME NEW n \in Nodes, MarkAlive(n) \/ MembershipExpires(n) PROVE sweep' = sweep
  BY <1>8 DEF MarkAlive, MembershipExpires
<1>9. ASSUME NEW d \in Controllers, LoseLeader(d) \/ Resign(d) PROVE sweep' = sweep
  BY <1>9 DEF LoseLeader, Resign
<1>10. ASSUME NEW r \in late, LateTxn(r) PROVE sweep' = sweep
  BY <1>10 DEF LateTxn
<1>11. LeaderKeyExpires \/ UNCHANGED vars => sweep' = sweep
  BY DEF LeaderKeyExpires, vars
<1> QED
  BY <1>3, <1>4, <1>5, <1>6, <1>7, <1>8, <1>9, <1>10, <1>11 DEF Next

\* A request is late because the sweep that sent it failed or died.
LEMMA LateFrom ==
    ASSUME [Next]_vars, NEW r \in late', r \notin late
    PROVE  \E c \in Controllers : r \in InFlight(c) /\ ownership' = ownership /\ disturbed' = disturbed
<1>1. ASSUME NEW c \in Controllers, Sweep(c) PROVE late' = late
  BY <1>1 DEF Sweep, TryAcquire, ListUnowned, ListAliveForInit, ListOwners, ListDead,
              ListDeadShards, ListTakeover, ListAliveForRebalance, Plan, AssignGet,
              AssignTxn, AssignConflict, Read
<1>2. ASSUME NEW c \in Controllers, LoseLeader(c) \/ Resign(c) PROVE late' = late
  BY <1>2 DEF LoseLeader, Resign
<1>3. ASSUME NEW n \in Nodes, MarkAlive(n) \/ MembershipExpires(n) PROVE late' = late
  BY <1>3 DEF MarkAlive, MembershipExpires
<1>4. LeaderKeyExpires \/ UNCHANGED vars => late' = late
  BY DEF LeaderKeyExpires, vars
<1>5. ASSUME NEW q \in late, LateTxn(q) PROVE late' \subseteq late
  BY <1>5 DEF LateTxn
<1>6. PICK c \in Controllers : Crash(c) \/ SweepError(c)
  BY <1>1, <1>2, <1>3, <1>4, <1>5 DEF Next
<1> QED
  BY <1>6 DEF Crash, SweepError, etcd

\* What was read stays behind or level with what is stored.
LEMMA NextEpochsRead ==
    ASSUME IInv, EpochsRead, [Next]_vars
    PROVE  EpochsRead'
<1>1. IInv' /\ TypeOK
  BY NextIInv DEF IInv
<1>2. ASSUME NEW c \in Controllers, sweep'[c].pc = "cas"
      PROVE  sweep'[c].epoch <= ownership'[Least(sweep'[c].todo)].epoch
  <2>1. CASE AssignGet(c)
    <3>1. sweep'[c] = [sweep[c] EXCEPT !.pc = "cas", !.epoch = ownership[Least(sweep[c].todo)].epoch]
      BY <1>1, <2>1 DEF AssignGet, Read, TypeOK
    <3>2. sweep[c] \in Sweeps /\ sweep[c].todo # {}
      BY <2>1, Continuations DEF AssignGet, Sound
    <3>3. Least(sweep[c].todo) \in Shards
      BY <3>2, LeastOf, ShardsAssumption DEF Sweeps
    <3>4. sweep'[c].todo = sweep[c].todo /\ sweep'[c].epoch = ownership[Least(sweep[c].todo)].epoch
      BY <3>1, <3>2 DEF Sweeps
    <3>5. ownership' = ownership
      BY <2>1 DEF AssignGet, Read, etcd
    <3> QED
      BY <3>3, <3>4, <3>5, EpochsGrow
  <2>2. CASE sweep'[c] = sweep[c]
    <3>1. sweep[c].epoch \in Nat /\ Least(sweep[c].todo) \in Shards
      BY <1>2, <2>2, CasIs
    <3>2. sweep[c].epoch <= ownership[Least(sweep[c].todo)].epoch
      BY <1>2, <2>2 DEF EpochsRead
    <3> QED
      BY <2>2, <3>1, <3>2, EpochsGrow
  <2> QED
    BY <1>2, <2>1, <2>2, CasComesFromGet
<1>3. ASSUME NEW r \in late' PROVE r.epoch <= ownership'[r.shard].epoch
  <2>1. r.epoch \in Nat /\ r.shard \in Shards
    BY <1>1 DEF IInv, TypeOK, Requests
  <2>2. r.epoch <= ownership[r.shard].epoch
    <3>1. CASE r \in late
      BY <3>1 DEF EpochsRead
    <3>2. CASE r \notin late
      <4>1. PICK c \in Controllers : r \in InFlight(c)
        BY <3>2, LateFrom
      <4> QED
        BY <4>1, InFlightIs DEF EpochsRead
    <3> QED
      BY <3>1, <3>2
  <2> QED
    BY <2>1, <2>2, EpochsGrow
<1> QED
  BY <1>2, <1>3 DEF EpochsRead

\* A request becomes late when it would move its shard, and no longer applies
\* once the shard has moved.
LEMMA NextLateMoves ==
    ASSUME MInv, [Next]_vars
    PROVE  LateMoves'
<1>1. IInv /\ IInv' /\ QInv
  BY NextIInv DEF MInv, QInv
<1>2. disturbed => disturbed'
  <2>1. ASSUME NEW c \in Controllers, Sweep(c) PROVE disturbed => disturbed'
    BY <2>1 DEF Sweep, TryAcquire, ListUnowned, ListAliveForInit, ListOwners, ListDead,
                ListDeadShards, ListTakeover, ListAliveForRebalance, Plan, AssignGet,
                AssignTxn, AssignConflict, Read
  <2>2. ASSUME NEW c \in Controllers, LoseLeader(c) \/ Resign(c) \/ Crash(c) \/ SweepError(c)
        PROVE  disturbed' = disturbed
    BY <2>2 DEF LoseLeader, Resign, Crash, SweepError
  <2>3. ASSUME NEW n \in Nodes, MarkAlive(n) \/ MembershipExpires(n) PROVE disturbed' = disturbed
    BY <2>3 DEF MarkAlive, MembershipExpires
  <2>4. LeaderKeyExpires \/ UNCHANGED vars => disturbed' = disturbed
    BY DEF LeaderKeyExpires, vars
  <2>5. ASSUME NEW r \in late, LateTxn(r) PROVE disturbed => disturbed'
    BY <2>5 DEF LateTxn
  <2> QED
    BY <2>1, <2>2, <2>3, <2>4, <2>5 DEF Next
<1> SUFFICES ASSUME ~disturbed, NEW r \in late', ownership'[r.shard].epoch = r.epoch
             PROVE  ownership'[r.shard].node # r.node
  BY <1>2 DEF LateMoves
<1>3. r.epoch \in Nat /\ r.shard \in Shards
  BY <1>1 DEF IInv, TypeOK, Requests
<1>4. CASE r \in late
  <2>1. r.epoch <= ownership[r.shard].epoch
    BY <1>4 DEF MInv, EpochsRead
  <2>2. ownership'[r.shard] = ownership[r.shard]
    BY <1>1, <1>3, <2>1, EpochsGrow
  <2> QED
    BY <1>4, <2>2 DEF MInv, LateMoves
<1>5. CASE r \notin late
  <2>1. PICK c \in Controllers : r \in InFlight(c) /\ ownership' = ownership
    BY <1>5, LateFrom
  <2>2. sweep[c].pc = "cas" /\ r.shard = Least(sweep[c].todo) /\ r.node = Target(c, r.shard)
    BY <1>1, <2>1, InFlightIs
  <2> QED
    BY <1>1, <2>1, <2>2, CasMoves
<1> QED
  BY <1>4, <1>5

LEMMA NextMInv == MInv /\ [Next]_vars => MInv'
  BY NextQInv, NextEpochsRead, NextLateMoves DEF MInv, QInv

LEMMA InitMInv == Init => MInv
<1> SUFFICES ASSUME Init PROVE MInv
  OBVIOUS
<1>1. IInv
  BY InitIInv
<1>2. UnownedOK
  BY DEF Init, UnownedOK
<1>3. Alone /\ Current
  BY DEF Init, Alone, Current, Idle, UpToDate
<1>4. EpochsRead /\ LateMoves
  BY DEF Init, EpochsRead, LateMoves, Idle
<1> QED
  BY <1>1, <1>2, <1>3, <1>4 DEF MInv, QInv, Quiet

\* While nobody else has swept or written during a sweep, what a sweep read
\* is still true when it assigns, and a request it leaves behind will move
\* its shard or do nothing.
THEOREM SweepsCurrent == Spec => []MInv
  BY InitMInv, NextMInv, PTL DEF Spec

\* Until a sweep is disturbed by another one or by a late request, no
\* assignment, in time or late, restarts a worker for nothing, and the initial
\* one takes no shard from an owner (EnsureInitialOwnership, FailoverDeadNode,
\* RebalanceOnce).
THEOREM Moves == Spec => NoNeedlessMove
<1> DEFINE A == \A s \in Shards : ownership'[s] # ownership[s] /\ ~disturbed =>
                  /\ ownership'[s].node # ownership[s].node
                  /\ \A c \in Controllers :
                       sweep[c].pc = "cas" /\ sweep[c].phase = "init" /\ sweep'[c] # sweep[c]
                         => ownership[s].epoch = 0
<1>1. ASSUME MInv, [Next]_vars PROVE A
  <2> SUFFICES ASSUME NEW s \in Shards, ownership'[s] # ownership[s], ~disturbed
               PROVE  /\ ownership'[s].node # ownership[s].node
                      /\ \A c \in Controllers :
                           /\ sweep[c].pc = "cas" /\ sweep[c].phase = "init"
                           /\ sweep'[c] # sweep[c]
                           => ownership[s].epoch = 0
    OBVIOUS
  <2>1. /\ IInv /\ QInv
        /\ ownership \in [Shards -> [node : Nodes \cup {NoNode}, epoch : Nat]]
    BY <1>1 DEF MInv, QInv, IInv, TypeOK
  <2>2. (\E d \in Controllers : AssignTxn(d)) \/ (\E r \in late : LateTxn(r))
    BY <1>1, OnlyAssignments
  <2>3. ASSUME NEW d \in Controllers, AssignTxn(d)
        PROVE  /\ ownership'[s].node # ownership[s].node
               /\ \A c \in Controllers :
                    sweep[c].phase = "init" /\ sweep'[c] # sweep[c] => ownership[s].epoch = 0
    <3> DEFINE t == Least(sweep[d].todo)
    <3>1. /\ t \in Shards /\ sweep[d].pc = "cas"
          /\ ownership' = [ownership EXCEPT ![t] =
                             [node |-> Target(d, t), epoch |-> sweep[d].epoch + 1]]
          /\ sweep' = [sweep EXCEPT ![d] = Assigned(d)]
      BY <2>1, <2>3, AssignIs
    <3>2. /\ Target(d, t) # ownership[t].node
          /\ sweep[d].phase = "init" => ownership[t].epoch = 0
      BY <2>1, <3>1, CasMoves
    <3> HIDE DEF t
    <3>3. s = t /\ ownership'[s].node = Target(d, t)
      BY <2>1, <3>1
    <3>4. \A c \in Controllers : sweep'[c] # sweep[c] => c = d
      BY <2>1, <3>1 DEF IInv, TypeOK
    <3> QED
      BY <3>2, <3>3, <3>4
  <2>4. ASSUME NEW r \in late, LateTxn(r)
        PROVE  ownership'[s].node # ownership[s].node /\ sweep' = sweep
    <3>1. r.shard \in Shards
      BY <2>1 DEF IInv, TypeOK, Requests
    <3>2. s = r.shard /\ ownership'[s].node = r.node /\ ownership[s].epoch = r.epoch
      BY <2>1, <2>4, <3>1 DEF LateTxn
    <3> QED
      BY <1>1, <2>4, <3>2 DEF LateTxn, MInv, LateMoves
  <2> QED
    BY <2>2, <2>3, <2>4
<1>2. MInv /\ [Next]_vars => [A]_vars
  BY <1>1
<1> QED
  BY <1>2, SweepsCurrent, PTL DEF Spec, NoNeedlessMove
=============================================================================
