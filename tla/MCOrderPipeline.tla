-------------------------- MODULE MCOrderPipeline --------------------------
(* Instances of OrderPipeline for TLC. *)
EXTENDS OrderPipeline, TLC

Symmetry == Permutations(Orders)
=============================================================================
