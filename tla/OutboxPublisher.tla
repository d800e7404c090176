--------------------------- MODULE OutboxPublisher ---------------------------
(***************************************************************************)
(* The transactional outbox: business transactions insert rows, publisher  *)
(* processes claim batches of them under a lease, append them to Kafka     *)
(* topic by topic and mark them published.  Claiming, appending and        *)
(* marking are separate steps on two systems, so a publisher can be        *)
(* overtaken by the end of its lease, or be killed, between any two.       *)
(***************************************************************************)
EXTENDS Integers, FiniteSets

CONSTANTS
    Publishers,      \* publisher processes, by WorkerID
    NoPublisher,     \* claimed_by = ''
    Events,          \* outbox event ids, integers in the order of occurred_at
    Topics,          \* topics of the rows
    Topic,           \* topic of each event
    Targets,         \* topics with a configured target
    BatchTargets,    \* those whose target is a BatchAppender
    BatchSize,       \* rows of one claim, at most
    MaxFaults        \* bound: crashes, attempts to append that fail, leases outlived

ASSUME PublishersAssumption == NoPublisher \notin Publishers
ASSUME EventsAssumption == Events \subseteq Nat /\ IsFiniteSet(Events)
ASSUME TopicsAssumption == /\ Topic \in [Events -> Topics]
                           /\ BatchTargets \subseteq Targets
                           /\ Targets \subseteq Topics
ASSUME BoundsAssumption == BatchSize \in Nat \ {0} /\ MaxFaults \in Nat

VARIABLES
    rows,        \* committed outbox_events rows
    claimedBy,   \* claimed_by of each row
    leased,      \* rows whose claimed_until is not over
    published,   \* rows with published_at
    batch,       \* of each publisher: events claimed and not yet appended
    acked,       \* of each publisher: events appended and not yet marked
    copies,      \* Kafka: how often each event was appended
    lost,        \* history: events of an append that succeeded and never got there
    faults       \* faults so far

table == <<rows, claimedBy, leased, published>>
kafka == <<copies, lost>>
vars == <<table, batch, acked, kafka, faults>>

----------------------------------------------------------------------------
TypeOK ==
    /\ rows \in SUBSET Events
    /\ claimedBy \in [Events -> Publishers \cup {NoPublisher}]
    /\ leased \in SUBSET rows
    /\ published \in SUBSET rows
    /\ batch \in [Publishers -> SUBSET rows]
    /\ acked \in [Publishers -> SUBSET rows]
    /\ \A p \in Publishers : Cardinality(batch[p]) <= BatchSize
    /\ copies \in [Events -> Nat]
    /\ lost \in SUBSET rows
    /\ faults \in 0..MaxFaults

Init ==
    /\ rows = {}
    /\ claimedBy = [e \in Events |-> NoPublisher]
    /\ leased = {}
    /\ published = {}
    /\ batch = [p \in Publishers |-> {}]
    /\ acked = [p \in Publishers |-> {}]
    /\ copies = [e \in Events |-> 0]
    /\ lost = {}
    /\ faults = 0

\* The events a publisher's process is working on.
Holds(p) == batch[p] \cup acked[p]

\* A business transaction commits; a row that exists is left alone.
CreateOutboxEvent(e) ==
    /\ e \notin rows
    /\ rows' = rows \cup {e}
    /\ UNCHANGED <<claimedBy, leased, published, batch, acked, kafka, faults>>

----------------------------------------------------------------------------
(* PublishOnce                                                             *)

\* Variants: the lease is not looked at; only rows nobody ever claimed.
ClaimableLeasedToo == rows \ published

ClaimableUnclaimed == {e \in rows \ published : claimedBy[e] = NoPublisher}

\* The WHERE clause of ClaimOutboxEvents.
Claimable == (rows \ published) \ leased

\* Variant: no LIMIT.
FirstAll(S) == S

\* ORDER BY occurred_at LIMIT BatchSize.
First(S) == {e \in S : Cardinality({d \in S : d < e}) < BatchSize}

\* claim, when the previous PublishOnce is over.  Rows another publisher is
\* updating at that moment are locked and skipped.
Claim(p) ==
    \E locked \in SUBSET UNION {Holds(q) : q \in Publishers \ {p}} :
        LET claimed == First(Claimable \ locked)
        IN  /\ Holds(p) = {}
            /\ claimed # {}
            /\ claimedBy' = [e \in Events |-> IF e \in claimed THEN p ELSE claimedBy[e]]
            /\ leased' = leased \cup claimed
            /\ batch' = [batch EXCEPT ![p] = claimed]
            /\ UNCHANGED <<rows, published, acked, kafka, faults>>

\* groupByTopic: the events of p's batch that go to topic t.
Items(p, t) == {e \in batch[p] : Topic[e] = t}

\* The rows of S whose claimed_by still says p: the only ones it can mark.
Mine(p, S) == {e \in S : claimedBy[e] = p}

\* They give up the claim.
Release(p, S) ==
    /\ claimedBy' = [e \in Events |-> IF e \in Mine(p, S) THEN NoPublisher ELSE claimedBy[e]]
    /\ leased' = leased \ Mine(p, S)

\* The topic has no target: every item is marked failed.
NoTarget(p, t) ==
    /\ acked[p] = {}
    /\ Items(p, t) # {}
    /\ t \notin Targets
    /\ Release(p, Items(p, t))
    /\ batch' = [batch EXCEPT ![p] = @ \ Items(p, t)]
    /\ UNCHANGED <<rows, published, acked, kafka, faults>>

\* The sets of items an append can fail for: a batch fails as a whole.
Failures(p, t) ==
    {failed \in SUBSET Items(p, t) : t \in BatchTargets => failed \in {{}, Items(p, t)}}

\* AppendBatch, which fails for the given items.  The writer repeats what its
\* connection refuses, so an item gets to Kafka once for each attempt at most.
\* It is made without RequiredAcks and waits for no broker: also an attempt it
\* takes for a success may not get there.
WriteMessages(p, t, failed) ==
    \E retries \in 0..(MaxFaults - faults) :
    \E landed \in [Items(p, t) -> 0..(retries + 1)] :
        /\ failed # {} => retries > 0
        /\ \A e \in failed : landed[e] <= retries
        /\ copies' = [e \in Events |-> IF e \in Items(p, t) THEN copies[e] + landed[e]
                                       ELSE copies[e]]
        /\ lost' = lost \cup {e \in Items(p, t) \ failed : landed[e] = 0}
        /\ faults' = faults + retries

\* Variant: an item whose append failed is marked all the same.
PublishTopicAckAll(p, t) ==
    /\ acked[p] = {}
    /\ Items(p, t) # {}
    /\ t \in Targets
    /\ \E failed \in Failures(p, t) : WriteMessages(p, t, failed)
    /\ acked' = [acked EXCEPT ![p] = Items(p, t)]
    /\ batch' = [batch EXCEPT ![p] = @ \ Items(p, t)]
    /\ UNCHANGED table

\* publishTopic: the items are appended, and the failed ones marked so, which
\* may fail for some: the error of markFailed is ignored.
PublishTopic(p, t) ==
    /\ acked[p] = {}
    /\ Items(p, t) # {}
    /\ t \in Targets
    /\ \E failed \in Failures(p, t) : \E marked \in SUBSET failed :
        /\ WriteMessages(p, t, failed)
        /\ Release(p, marked)
        /\ acked' = [acked EXCEPT ![p] = Items(p, t) \ failed]
    /\ batch' = [batch EXCEPT ![p] = @ \ Items(p, t)]
    /\ UNCHANGED <<rows, published>>

\* markPublished: the rows p still has the claim on are published.  If that
\* is not all of them, Run returns an error and the process starts again.
MarkPublished(p) ==
    /\ acked[p] # {}
    /\ published' = published \cup Mine(p, acked[p])
    /\ Release(p, acked[p])
    /\ acked' = [acked EXCEPT ![p] = {}]
    /\ batch' = [batch EXCEPT ![p] = IF Mine(p, acked[p]) = acked[p] THEN @ ELSE {}]
    /\ UNCHANGED <<rows, kafka, faults>>

----------------------------------------------------------------------------
(* Failures                                                                *)

\* The process is killed, or returns an error of PostgreSQL, and starts
\* again under the same WorkerID.
Crash(p) ==
    /\ faults < MaxFaults
    /\ Holds(p) # {}
    /\ batch' = [batch EXCEPT ![p] = {}]
    /\ acked' = [acked EXCEPT ![p] = {}]
    /\ faults' = faults + 1
    /\ UNCHANGED <<table, kafka>>

\* Somebody is still working under the lease of e.
InUse(e) == \E p \in Publishers : e \in Holds(p) /\ claimedBy[e] = p

\* Time passes: a lease nobody works under any more runs out, ...
LeaseExpires(e) ==
    /\ e \in leased
    /\ ~InUse(e)
    /\ leased' = leased \ {e}
    /\ UNCHANGED <<rows, claimedBy, published, batch, acked, kafka, faults>>

\* ... or a publisher is so slow that it outlives its lease.
LeaseOutlived(e) ==
    /\ e \in leased
    /\ InUse(e)
    /\ faults < MaxFaults
    /\ leased' = leased \ {e}
    /\ faults' = faults + 1
    /\ UNCHANGED <<rows, claimedBy, published, batch, acked, kafka>>

----------------------------------------------------------------------------
Publisher(p) ==
    \/ Claim(p)
    \/ \E t \in Topics : NoTarget(p, t) \/ PublishTopic(p, t)
    \/ MarkPublished(p)

Next ==
    \/ \E e \in Events : CreateOutboxEvent(e) \/ LeaseExpires(e) \/ LeaseOutlived(e)
    \/ \E p \in Publishers : Publisher(p) \/ Crash(p)

Spec == Init /\ [][Next]_vars

\* Pollers keep polling and time passes.
Fairness == /\ \A p \in Publishers : WF_vars(Publisher(p))
            /\ \A e \in Events : WF_vars(LeaseExpires(e))

FairSpec == Spec /\ Fairness

----------------------------------------------------------------------------
(* Properties                                                              *)

\* A row marked published, whoever marked it, is in Kafka or was lost by a
\* write that the client reported as done: between claim, append and mark the
\* publishers themselves lose no event (PublishOnce appends before it marks).
PublishedWasWritten == \A e \in published : copies[e] > 0 \/ e \in lost

\* docs/design.md: outbox and inbox deliver every event at least once.
PublishedIsDelivered == \A e \in published : copies[e] > 0

\* Every extra copy of an event is paid for by a fault: as long as nothing
\* fails and no lease is outlived, each event is appended once, however many
\* publishers poll the table (the lease, SKIP LOCKED and published_at).
DuplicatesNeedFaults == \A e \in Events : copies[e] <= 1 + faults

\* Every committed row whose topic has a target is marked published in the end,
\* also when the publisher that claimed it is gone (the lease runs out and the
\* row is claimed again).
EventuallyPublished ==
    \A e \in Events : Topic[e] \in Targets => (e \in rows ~> e \in published)
=============================================================================
