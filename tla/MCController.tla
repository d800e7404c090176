---------------------------- MODULE MCController ----------------------------
(* Instances of Controller for TLC. *)
EXTENDS Controller

\* Two virtual nodes each.  Shard 0 lies between two of them, shard 1 behind
\* the last, and nodes 1 and 3 collide on the first key, where shard 1 wraps
\* around to.
MCNodeHash == [n \in Nodes |-> CASE n = 1 -> {1, 5}
                                 [] n = 2 -> {4, 7}
                                 [] OTHER -> {1, 6}]

MCShardHash == [s \in Shards |-> IF s = 0 THEN 5 ELSE 9]
=============================================================================
