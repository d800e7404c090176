------------------------------ MODULE HashRing ------------------------------
(***************************************************************************)
(* The consistent hash ring of internal/tools, as TargetNodeID and         *)
(* chooseFailoverTarget use it: a new ring for every question, filled with *)
(* the nodes in ascending order.  The hash function is a parameter: it may *)
(* give two virtual nodes, or a virtual node and a shard, the same value.  *)
(***************************************************************************)
EXTENDS Integers, FiniteSets

CONSTANTS
    Nodes,      \* node ids, positive integers
    Shards,     \* shard ids
    NodeHash,   \* of each node: the hashes of its virtual nodes
    ShardHash   \* of each shard: the hash of its id

ASSUME NodesAssumption == /\ Nodes \subseteq Nat
                          /\ Nodes # {} => \E n \in Nodes : \A m \in Nodes : n >= m
ASSUME ShardsAssumption == Shards \subseteq Nat
ASSUME HashAssumption ==
    /\ NodeHash \in [Nodes -> (SUBSET Nat) \ {{}}]
    /\ ShardHash \in [Shards -> Nat]

Least(S) == CHOOSE x \in S : \A y \in S : x <= y

Greatest(S) == CHOOSE x \in S : \A y \in S : x >= y

----------------------------------------------------------------------------
\* The sorted keys of the ring after Add of the nodes.
Keys(nodes) == UNION {NodeHash[n] : n \in nodes}

\* hashMap: of nodes that share a key the last one added keeps it.
NodeAt(nodes, key) == Greatest({n \in nodes : key \in NodeHash[n]})

\* Variant: the position in the key list is taken from the hash itself.
GetByModulo(nodes, s) ==
    LET keys == Keys(nodes)
        index == ShardHash[s] % Cardinality(keys)
    IN  CHOOSE k \in keys : Cardinality({j \in keys : j < k}) = index

\* Get: the first key at or after the hash, else the first of all.
Get(nodes, s) ==
    LET after == {k \in Keys(nodes) : k >= ShardHash[s]}
    IN  Least(IF after # {} THEN after ELSE Keys(nodes))

\* The node a shard belongs to when the given nodes are alive: the planner's
\* answer and that of the failover, each with a ring of its own.
TargetNodeID(nodes, s) == NodeAt(nodes, Get(nodes, s))

chooseFailoverTarget(nodes, s) == NodeAt(nodes, Get(nodes, s))
=============================================================================
