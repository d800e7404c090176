---------------------------- MODULE OrderStatus ----------------------------
(***************************************************************************)
(* What EventApplier.Apply makes of an event: the part that does not       *)
(* depend on where the order is stored.  OrderPipeline uses it with        *)
(* PostgreSQL transactions, DirectConsumer with single reads and writes.   *)
(***************************************************************************)

orderAlreadyQueuedOrFinished == {"match_pending", "matched", "missed", "cancelled"}

\* Apply returns early and saves nothing.
Ignored(e, row) ==
    \/ e.type = "order_created" /\ row.status \in orderAlreadyQueuedOrFinished
    \/ e.type \in {"order_retry_request", "order_missed"}
       /\ row.status \in {"cancelled", "matched"}

\* The status an event leads to.
StatusAfter(type) ==
    CASE type = "order_created"       -> "created"
      [] type = "order_cancelled"     -> "cancelled"
      [] type = "order_retry_request" -> "retry_requested"
      [] type = "order_matched"       -> "matched"
      [] OTHER                        -> "missed"
=============================================================================
