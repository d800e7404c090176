------------------------- MODULE MCOutboxPublisher -------------------------
(* Instances of OutboxPublisher for TLC. *)
EXTENDS OutboxPublisher

\* Events 1 and 4 go to one topic, 2 to another, 3 to one without target.
MCTopic == [e \in Events |-> CASE e = 2 -> "order-events"
                               [] e = 3 -> "unknown"
                               [] OTHER -> "match-requests"]
=============================================================================
