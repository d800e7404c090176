--------------------------- MODULE MCShardConsumer ---------------------------
(* Instances of ShardConsumer for TLC. *)
EXTENDS ShardConsumer, TLC

\* Nodes, goroutines and event ids are interchangeable.
Symmetry == Permutations(Nodes) \cup Permutations(Workers) \cup Permutations(Events)
=============================================================================
