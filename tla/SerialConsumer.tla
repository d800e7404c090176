--------------------------- MODULE SerialConsumer ---------------------------
(***************************************************************************)
(* What the consumers of one shard promise together, whoever owns the      *)
(* shard: the shard behaves like one process that reads the partition from *)
(* its beginning, in order, skipping nothing, and whose fencing epoch      *)
(* never goes back.  ShardConsumer is shown to implement it.               *)
(***************************************************************************)
EXTENDS Integers, Sequences

CONSTANT Events      \* event ids

VARIABLES log,       \* the partition, with possible duplicate event ids
          done,      \* ids of the events whose effects are durable
          fence      \* epoch that made the latest effects durable

vars == <<log, done, fence>>

Init == /\ log = <<>>
        /\ done = {}
        /\ fence = 0

Produce(e) == /\ log' = Append(log, e)
              /\ UNCHANGED <<done, fence>>

\* Everything up to offset k becomes durable at once, under an epoch that is
\* not older than the last one that made anything durable.
Consume(k) == /\ done' = done \cup {log[i] : i \in 1..k}
              /\ done' # done
              /\ fence' \in Nat
              /\ fence <= fence'
              /\ UNCHANGED log

Next == \/ \E e \in Events : Produce(e)
        \/ \E k \in 1..Len(log) : Consume(k)

Spec == Init /\ [][Next]_vars
=============================================================================
