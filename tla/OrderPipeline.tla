---------------------------- MODULE OrderPipeline ----------------------------
(***************************************************************************)
(* The life of orders through the two workers.  The order worker applies   *)
(* order events to the orders table and queues match requests; the matcher *)
(* worker consumes them, reserves a rider and queues a result, which comes *)
(* back to the order worker as an order event; the retry producer asks for *)
(* another attempt on missed orders.  All of it meets in PostgreSQL rows   *)
(* under READ COMMITTED: the order worker reads a row without a lock and   *)
(* later writes the whole row back, the matcher locks it first.            *)
(*                                                                         *)
(* Each partition is consumed serially, in order and without duplicates    *)
(* (ShardConsumer); the outbox delivers every row, in any order            *)
(* (OutboxPublisher).  Every order is in a shard of its own here, the most *)
(* concurrent case: the orders of one shard are handled one after another. *)
(* A batch of records behaves like its records committed in a row.         *)
(***************************************************************************)
EXTENDS Integers, Sequences, FiniteSets, OrderStatus

CONSTANTS
    Orders,          \* order ids
    Riders,          \* rider ids
    NoRider,         \* rider_id = 0
    Attempts,        \* -attempt of the retry producer's runs
    MaxRiderOrders,  \* Config.MaxRiderOrders
    MaxRestarts,     \* bound: shards of riders started again
    MaxAborts        \* bound: transactions rolled back

ASSUME RidersAssumption == NoRider \notin Riders /\ IsFiniteSet(Riders)
ASSUME AttemptsAssumption == Attempts \subseteq Nat \ {0}
ASSUME BoundsAssumption ==
    /\ MaxRiderOrders \in Nat \ {0}
    /\ MaxRestarts \in Nat
    /\ MaxAborts \in Nat

VARIABLES
    order,         \* committed orders rows
    count,         \* committed riders.count
    outbox,        \* of each order: outbox events not yet published
    orderLog,      \* of each order: order events not yet consumed
    matchLog,      \* of each order: match requests not yet consumed
    ow,            \* transaction of the order worker on each order
    mt,            \* transaction of the matcher worker on each order
    selected,      \* retry producer: orders it has listed and not yet sent
    sent,          \* events of clients and of the retry producer, per order
    reservations,  \* history: riders reserved, by order and attempt
    restarts,      \* rider shards started again so far
    aborts         \* rollbacks so far

logs == <<outbox, orderLog, matchLog>>
env == <<selected, sent>>
vars == <<order, count, logs, ow, mt, env, reservations, restarts, aborts>>

----------------------------------------------------------------------------
Statuses == {"none", "created", "match_pending", "retry_requested", "matched",
             "missed", "cancelled"}

Rows == [status  : Statuses,               \* "none" when there is no row
         rider   : Riders \cup {NoRider},
         attempt : Attempts \cup {0}]

Event(type, attempt, rider) == [type |-> type, attempt |-> attempt, rider |-> rider]

Created == Event("order_created", 0, NoRider)
Cancelled == Event("order_cancelled", 0, NoRider)
Retry(a) == Event("order_retry_request", a, NoRider)
MatchRequested(a) == Event("match_requested", a, NoRider)
matchedEvent(a, r) == Event("order_matched", a, r)
missedEvent(a) == Event("order_missed", a, NoRider)

Sources == {Created, Cancelled} \cup {Retry(a) : a \in Attempts}
Requests == {MatchRequested(a) : a \in Attempts \cup {0}}
Results == {matchedEvent(a, r) : a \in Attempts \cup {0}, r \in Riders}
           \cup {missedEvent(a) : a \in Attempts \cup {0}}

NoRow == [status |-> "none", rider |-> NoRider, attempt |-> 0]
NoTx == [pc |-> "idle", row |-> NoRow]
NoMatch == [pc |-> "idle", cands |-> {}, rider |-> NoRider]

TypeOK ==
    /\ order \in [Orders -> Rows]
    /\ count \in [Riders -> 0..MaxRiderOrders]
    /\ outbox \in [Orders -> SUBSET (Requests \cup Results)]
    /\ orderLog \in [Orders -> Seq(Sources \cup Results)]
    /\ matchLog \in [Orders -> Seq(Requests)]
    /\ ow \in [Orders -> [pc : {"idle", "reload", "save", "saved", "done"}, row : Rows]]
    /\ mt \in [Orders -> [pc    : {"idle", "matching", "skip"},
                          cands : SUBSET Riders,
                          rider : Riders \cup {NoRider}]]
    /\ selected \in [Orders -> SUBSET Attempts]
    /\ sent \in [Orders -> SUBSET Sources]
    /\ reservations \in SUBSET [order : Orders, attempt : Attempts \cup {0}, rider : Riders]
    /\ restarts \in 0..MaxRestarts
    /\ aborts \in 0..MaxAborts

Init ==
    /\ order = [o \in Orders |-> NoRow]
    /\ count = [r \in Riders |-> 0]
    /\ outbox = [o \in Orders |-> {}]
    /\ orderLog = [o \in Orders |-> <<>>]
    /\ matchLog = [o \in Orders |-> <<>>]
    /\ ow = [o \in Orders |-> NoTx]
    /\ mt = [o \in Orders |-> NoMatch]
    /\ selected = [o \in Orders |-> {}]
    /\ sent = [o \in Orders |-> {}]
    /\ reservations = {}
    /\ restarts = 0
    /\ aborts = 0

----------------------------------------------------------------------------
(* Producers                                                               *)

\* A second copy of an event id is dropped by the inbox.
Send(o, e) ==
    /\ e \notin sent[o]
    /\ sent' = [sent EXCEPT ![o] = @ \cup {e}]
    /\ orderLog' = [orderLog EXCEPT ![o] = Append(@, e)]

CreateOrder(o) ==
    /\ Send(o, Created)
    /\ UNCHANGED <<order, count, outbox, matchLog, ow, mt, selected, reservations,
                   restarts, aborts>>

CancelOrder(o) ==
    /\ Created \in sent[o]
    /\ Send(o, Cancelled)
    /\ UNCHANGED <<order, count, outbox, matchLog, ow, mt, selected, reservations,
                   restarts, aborts>>

\* ListMissedOrdersForRetry; the order can change before its event is sent.
ListMissedOrdersForRetry(o, a) ==
    /\ order[o].status = "missed"
    /\ order[o].attempt < a
    /\ a \notin selected[o]
    /\ Retry(a) \notin sent[o]
    /\ selected' = [selected EXCEPT ![o] = @ \cup {a}]
    /\ UNCHANGED <<order, count, logs, ow, mt, sent, reservations, restarts, aborts>>

SendRetry(o, a) ==
    /\ a \in selected[o]
    /\ Send(o, Retry(a))
    /\ selected' = [selected EXCEPT ![o] = @ \ {a}]
    /\ UNCHANGED <<order, count, outbox, matchLog, ow, mt, reservations, restarts, aborts>>

\* The outbox publisher brings an event to its topic.
Publish(o, e) ==
    /\ e \in outbox[o]
    /\ outbox' = [outbox EXCEPT ![o] = @ \ {e}]
    /\ IF e \in Requests
       THEN matchLog' = [matchLog EXCEPT ![o] = Append(@, e)] /\ UNCHANGED orderLog
       ELSE orderLog' = [orderLog EXCEPT ![o] = Append(@, e)] /\ UNCHANGED matchLog
    /\ UNCHANGED <<order, count, ow, mt, env, reservations, restarts, aborts>>

----------------------------------------------------------------------------
(* The order worker: EventApplier.Apply and queueMatchRequest in one       *)
(* transaction.                                                            *)

\* Variant: the rider of the result is not taken over.
AppliedNoRider(e, row) ==
    [row EXCEPT !.status = StatusAfter(e.type),
                !.attempt = IF e.type = "order_retry_request" THEN e.attempt ELSE @]

\* The row Apply saves otherwise: the whole row as it was read, changed.
Applied(e, row) ==
    [row EXCEPT !.status = StatusAfter(e.type),
                !.attempt = IF e.type = "order_retry_request" THEN e.attempt ELSE @,
                !.rider = IF e.type = "order_matched" THEN e.rider ELSE @]

queuesMatchRequest(e) == e.type \in {"order_created", "order_retry_request"}

\* The event's inbox row is new and Apply has read the order.  A retry never
\* comes before the row exists: only listed orders are retried.
LoadOrder(o) ==
    /\ ow[o].pc = "idle"
    /\ orderLog[o] # <<>>
    /\ LET e == Head(orderLog[o])
       IN  ow' = [ow EXCEPT ![o] =
                    IF ~Ignored(e, order[o])
                    THEN [pc |-> "save", row |-> Applied(e, order[o])]
                    ELSE [pc |-> IF queuesMatchRequest(e) THEN "reload" ELSE "done",
                          row |-> NoRow]]
    /\ UNCHANGED <<order, count, logs, mt, env, reservations, restarts, aborts>>

\* queueMatchRequest reads the order that Apply did not save.
ReloadOrder(o) ==
    /\ ow[o].pc = "reload"
    /\ ow' = [ow EXCEPT ![o] = [pc |-> "save", row |-> order[o]]]
    /\ UNCHANGED <<order, count, logs, mt, env, reservations, restarts, aborts>>

\* UpsertOrder waits for the matcher's row lock and takes it.  An event that
\* queues a match request saves the order as pending in the end.
SaveOrder(o) ==
    /\ ow[o].pc = "save"
    /\ mt[o].pc = "idle"
    /\ LET row == ow[o].row
           queues == queuesMatchRequest(Head(orderLog[o]))
       IN  ow' = [ow EXCEPT ![o] =
                    [pc |-> "saved",
                     row |-> IF queues THEN [row EXCEPT !.status = "match_pending"] ELSE row]]
    /\ UNCHANGED <<order, count, logs, mt, env, reservations, restarts, aborts>>

\* Variant: no outbox row for a retry.
QueuedForCreatedOnly(e) ==
    IF e.type = "order_created" THEN {MatchRequested(e.attempt)} ELSE {}

\* The outbox row of the transaction.
Queued(e) == IF queuesMatchRequest(e) THEN {MatchRequested(e.attempt)} ELSE {}

CommitOrder(o) ==
    /\ ow[o].pc \in {"saved", "done"}
    /\ order' = IF ow[o].pc = "saved" THEN [order EXCEPT ![o] = ow[o].row] ELSE order
    /\ outbox' = [outbox EXCEPT ![o] = @ \cup Queued(Head(orderLog[o]))]
    /\ orderLog' = [orderLog EXCEPT ![o] = Tail(@)]
    /\ ow' = [ow EXCEPT ![o] = NoTx]
    /\ UNCHANGED <<count, matchLog, mt, env, reservations, restarts, aborts>>

\* An error, a lost fence or a crash: the event is consumed again later.
RollbackOrder(o) ==
    /\ aborts < MaxAborts
    /\ ow[o].pc # "idle"
    /\ ow' = [ow EXCEPT ![o] = NoTx]
    /\ aborts' = aborts + 1
    /\ UNCHANGED <<order, count, logs, mt, env, reservations, restarts>>

----------------------------------------------------------------------------
(* The matcher worker: ApplyRecordWithFence and matchOrder.                *)

\* FindCandidates has returned cands, and GetOrderForUpdate the row, locked.
LockOrder(o, cands) ==
    /\ mt[o].pc = "idle"
    /\ matchLog[o] # <<>>
    /\ ow[o].pc # "saved"
    /\ mt' = [mt EXCEPT ![o] = IF order[o].status = "match_pending"
                               THEN [pc |-> "matching", cands |-> cands, rider |-> NoRider]
                               ELSE [pc |-> "skip", cands |-> {}, rider |-> NoRider]]
    /\ UNCHANGED <<order, count, logs, ow, env, reservations, restarts, aborts>>

\* Variant: the capacity is compared before the row is locked.
ReserveRiderUnlocked(o, r) ==
    /\ mt[o].pc = "matching" /\ mt[o].rider = NoRider
    /\ r \in mt[o].cands
    /\ mt' = [mt EXCEPT ![o] =
                IF count[r] < MaxRiderOrders THEN [mt[o] EXCEPT !.rider = r]
                ELSE [mt[o] EXCEPT !.cands = mt[o].cands \ {r}]]
    /\ UNCHANGED <<order, count, logs, ow, env, reservations, restarts, aborts>>

\* ReserveRider waits for the rider's row; a full rider is passed over.
ReserveRider(o, r) ==
    /\ mt[o].pc = "matching"
    /\ mt[o].rider = NoRider
    /\ r \in mt[o].cands
    /\ \A p \in Orders : mt[p].rider # r
    /\ mt' = [mt EXCEPT ![o] =
                IF count[r] < MaxRiderOrders THEN [mt[o] EXCEPT !.rider = r]
                ELSE [mt[o] EXCEPT !.cands = mt[o].cands \ {r}]]
    /\ UNCHANGED <<order, count, logs, ow, env, reservations, restarts, aborts>>

\* The columns the two updates set; the row is locked and still pending.
MarkOrderMatched(row, r) == [row EXCEPT !.status = "matched", !.rider = r]

MarkOrderMissed(row) == [row EXCEPT !.status = "missed"]

\* The matched row and the result's outbox row are committed.
CommitMatched(o) ==
    LET r == mt[o].rider
        a == Head(matchLog[o]).attempt
    IN  /\ r # NoRider
        /\ order' = [order EXCEPT ![o] = MarkOrderMatched(@, r)]
        /\ count' = [count EXCEPT ![r] = @ + 1]
        /\ outbox' = [outbox EXCEPT ![o] = @ \cup {matchedEvent(a, r)}]
        /\ matchLog' = [matchLog EXCEPT ![o] = Tail(@)]
        /\ reservations' = reservations \cup {[order |-> o, attempt |-> a, rider |-> r]}
        /\ mt' = [mt EXCEPT ![o] = NoMatch]
        /\ UNCHANGED <<orderLog, ow, env, restarts, aborts>>

\* No candidate is left.
CommitMissed(o) ==
    /\ mt[o].pc = "matching"
    /\ mt[o].rider = NoRider
    /\ mt[o].cands = {}
    /\ order' = [order EXCEPT ![o] = MarkOrderMissed(@)]
    /\ outbox' = [outbox EXCEPT ![o] = @ \cup {missedEvent(Head(matchLog[o]).attempt)}]
    /\ matchLog' = [matchLog EXCEPT ![o] = Tail(@)]
    /\ mt' = [mt EXCEPT ![o] = NoMatch]
    /\ UNCHANGED <<count, orderLog, ow, env, reservations, restarts, aborts>>

\* The order was not pending: only inbox and checkpoint are committed.
CommitSkipped(o) ==
    /\ mt[o].pc = "skip"
    /\ matchLog' = [matchLog EXCEPT ![o] = Tail(@)]
    /\ mt' = [mt EXCEPT ![o] = NoMatch]
    /\ UNCHANGED <<order, count, outbox, orderLog, ow, env, reservations, restarts, aborts>>

RollbackMatch(o) ==
    /\ aborts < MaxAborts
    /\ mt[o].pc # "idle"
    /\ mt' = [mt EXCEPT ![o] = NoMatch]
    /\ aborts' = aborts + 1
    /\ UNCHANGED <<order, count, logs, ow, env, reservations, restarts>>

\* The shard of rider r starts again on some matcher worker: the hook writes
\* its riders anew, with count 0.
UpsertRider(r) ==
    /\ restarts < MaxRestarts
    /\ \A o \in Orders : mt[o].rider # r
    /\ count' = [count EXCEPT ![r] = 0]
    /\ restarts' = restarts + 1
    /\ UNCHANGED <<order, logs, ow, mt, env, reservations, aborts>>

----------------------------------------------------------------------------
OrderWorker(o) == LoadOrder(o) \/ ReloadOrder(o) \/ SaveOrder(o) \/ CommitOrder(o)

Matcher(o) ==
    \/ \E cands \in SUBSET Riders : LockOrder(o, cands)
    \/ \E r \in Riders : ReserveRider(o, r)
    \/ CommitMatched(o) \/ CommitMissed(o) \/ CommitSkipped(o)

Publisher(o) == \E e \in outbox[o] : Publish(o, e)

Next ==
    \/ \E o \in Orders :
        \/ CreateOrder(o) \/ CancelOrder(o)
        \/ \E a \in Attempts : ListMissedOrdersForRetry(o, a) \/ SendRetry(o, a)
        \/ OrderWorker(o) \/ Matcher(o) \/ Publisher(o)
        \/ RollbackOrder(o) \/ RollbackMatch(o)
    \/ \E r \in Riders : UpsertRider(r)

Spec == Init /\ [][Next]_vars

\* Every order's partition has a consumer (ShardConsumer) and every outbox
\* row is published (OutboxPublisher).
Fairness == \A o \in Orders : /\ WF_vars(OrderWorker(o))
                              /\ WF_vars(Matcher(o))
                              /\ WF_vars(Publisher(o))

FairSpec == Spec /\ Fairness

----------------------------------------------------------------------------
(* Properties                                                              *)

\* No order waits for a match that nobody will make: as long as its row says
\* match_pending, a match request for it is on its way, whatever the order
\* worker wrote back over the matcher's result (queueMatchRequest).
NoStrandedOrder ==
    \A o \in Orders : order[o].status = "match_pending" =>
        matchLog[o] # <<>> \/ \E e \in outbox[o] : e \in Requests

\* A row that says matched names a rider that was reserved for that order,
\* also when the row was overwritten in between and the result event restored
\* it (applyOrderMatched, MarkOrderMatched).
MatchedIsReserved ==
    \A o \in Orders : order[o].status = "matched" =>
        \E x \in reservations : x.order = o /\ x.rider = order[o].rider

\* A rider gets at most MaxRiderOrders orders, and as many more with every
\* start of a shard (of any shard: restarts counts them together), from
\* whatever number of concurrent transactions (ReserveRider).
ReservationsBounded ==
    \A r \in Riders :
        Cardinality({x \in reservations : x.rider = r}) <= MaxRiderOrders * (1 + restarts)

\* Every order that was created is in the end matched, missed or cancelled,
\* and stays decided.
EventuallyDecided ==
    <>[](\A o \in Orders : Created \in sent[o] =>
            order[o].status \in {"matched", "missed", "cancelled"})

\* docs/design.md: a retry takes an order from missed back into matching.
OnlyMissedRetried ==
    [][\A o \in Orders : order[o].status \in {"matched", "cancelled"}
            => order'[o].status # "match_pending"]_vars

\* README.md: a rider holds at most MaxRiderOrders active orders.
RiderCapacity ==
    \A r \in Riders :
        Cardinality({o \in Orders : order[o].status = "matched" /\ order[o].rider = r})
            <= MaxRiderOrders
=============================================================================
