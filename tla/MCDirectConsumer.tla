-------------------------- MODULE MCDirectConsumer --------------------------
(* Instance of DirectConsumer for TLC; its liveness rules out symmetry. *)
EXTENDS DirectConsumer

\* A creation is not ignored when it is replayed after a retry, a retry is
\* after a cancellation, and fails on an order that is not there; the last
\* type is one that Apply does not know.
MCEventTypes == {"order_created", "order_cancelled", "order_retry_request", "unsupported"}
=============================================================================
