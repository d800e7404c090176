--------------------------- MODULE ShardOwnership ---------------------------
(***************************************************************************)
(* What the ownership store promises: every change gives one shard to a    *)
(* node under the next epoch of that shard, so an epoch names one          *)
(* ownership for ever.  The controllers implement it; ShardConsumer        *)
(* assumes no more of them.                                                *)
(***************************************************************************)
EXTENDS Integers

CONSTANTS Shards,    \* shard ids
          Nodes,     \* node ids
          NoNode     \* in place of a node where there is none

VARIABLE owner       \* [node, epoch] of each shard, epoch 0 when unassigned

Init == owner = [s \in Shards |-> [node |-> NoNode, epoch |-> 0]]

Assign(s, n) ==
    owner' = [owner EXCEPT ![s] = [node |-> n, epoch |-> @.epoch + 1]]

Next == \E s \in Shards, n \in Nodes : Assign(s, n)

Spec == Init /\ [][Next]_owner
=============================================================================
