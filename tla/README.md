# Verification of the order dispatch system

TLA+ models of the distributed order dispatcher in `src/`, the TLC runs that
check them on small instances, and TLAPS proofs of the properties that matter
most. `PROJECT.json` lists components, runs, mutants, the map from definitions
to source lines, findings, hazards and theorems.

## The system

Orders arrive as events in Kafka partitions, one per shard of the area. Order
workers apply them to PostgreSQL and queue match requests; matcher workers take
the requests, reserve a rider and queue the result; controllers decide, in etcd,
which worker owns which shard.

| Component | State | Operations | Hard because |
|---|---|---|---|
| shard runner (`internal/node`) | `active`, `nextStep`, goroutines | refreshOnce, startShard, stopShard, consume, lose the fence | refresh, consumers and stop hooks run concurrently on ownerships already read |
| transactional applier (`internal/applier`) | inbox, orders, checkpoint rows in one transaction | ApplyRecordsWithFence | the fence is in etcd, the commit in PostgreSQL |
| checkpoints (`internal/checkpoint`) | offset and epoch of a shard | load, upsert guarded by epoch | written by owners that overlap |
| stores in etcd (`internal/checkpoint/etcd.go`, `internal/orderstate/etcd.go`) | a checkpoint per shard, a state per order | compare-and-put with retries, plain put | effect and checkpoint are two writes; requests arrive late |
| controller (`internal/controllerapp`, `internal/cluster`) | membership, ownership, leader key in etcd | initial assignment, failover, rebalance, compare-and-put | every decision rests on several reads, leadership on a lease |
| outbox publisher (`internal/outbox`) | outbox rows with claim and lease, Kafka | claim, append, mark failed, mark published | two systems, leases run out, crashes in between |
| order life cycle (`internal/applier`, `internal/orderstate`) | order rows | created, cancelled, retry, matched, missed | events overtake each other; rows read without a lock |
| match worker (`internal/matchworker`) | order and rider rows, outbox | lock, reserve, commit result | concurrent reservations, fence |
| hash ring (`internal/tools`) | none, built for every question | Add, Get | wraps around, hashes collide |
| candidate index (`internal/matching`, `internal/matcher`) | riders of the running shards | ReplaceShard, RemoveShard, SetRiderCount, FindCandidates | filled and emptied by hooks of several goroutines |
| shard layout (`internal/shard`) | none | ShardID, NeighborShardIDs | rounding and clamping at the borders |

They interact through shared stores only. The controller writes ownership and
the runner reads it; the runner drives the applier or the match worker; both
leave events in the outbox, and the publisher turns them into records that
runners consume. The runner's hooks fill the candidate index.

`nodeapp` runs a node in one of two ways. With a PostgreSQL pool, as `cmd/node`
does, records are applied in batches, each in one transaction with its
checkpoint. Without one, as in the benchmark's etcd mode and in tests, they are
applied one at a time to the order's key in etcd, and the checkpoint, another
key, follows.

## Modules

| Module | Models | State and code |
|---|---|---|
| `SerialConsumer` | what the consumption of a shard promises: one consumer, one event at a time, in log order | abstract |
| `ShardConsumer` | runner, applier transaction, inbox, checkpoint, ownership of one shard | `active`, `nextStep` are `Node`'s fields; `pc`, `next`, `cur`, `end` and `ins` are a goroutine and its open transaction; `inbox`, `ckpt` are committed rows |
| `DirectConsumer` | the same runner without PostgreSQL: `ApplyWithFence`, the order's key and the checkpoint's key in etcd | `g[w]` is a goroutine, or a request that outlives its process ("orphan"); `fresh` says that the revision it compares is still there |
| `ShardOwnership` | what ownership promises: one epoch after the other, each with one owner | abstract |
| `Controller` | election, membership, the three phases of a sweep, compare-and-put | `sweep[c]` holds what the controller has read so far; one action per read or write of etcd; `late` holds the compare-and-puts whose call timed out or whose process died, which may be applied at any later time; the history variable `disturbed` says that a sweep was met by another sweep or by such a write |
| `HashRing` | the consistent hash ring with virtual nodes, as planner and failover use it | operators only; the hash functions are constants and may collide |
| `OutboxPublisher` | outbox table, leases, publishers, the Kafka writer, Kafka as copies of each event | `batch` and `acked` are a publisher's local variables; the history variable `lost` holds events of an append that was reported done and left no copy |
| `OrderStatus` | which events an order's status ignores, and where the others lead | operators only |
| `OrderPipeline` | order rows, rider rows, the order worker's and the matcher's transactions, retries | `ow[o]` and `mt[o]` are open transactions with what they have read |
| `ShardLayout` | the layout arithmetic | operators only |
| `CandidateIndex` | the index of a matcher process with the runner's hooks | `indexed`, `count` are the index; `late` counts goroutines that left `active` and have not called the stop hook yet |
| `MC...` | values of the constants for TLC | |
| `...Proofs` | theorems about the module of that name | |
| `RankTheorems` | lemmas on ranks in a finite set under a strict order: the first of the ranked, the order of the chosen | used for the outbox's claims and the index's candidates |

How they fit together: `Controller` implements `ShardOwnership`, whose step is
the `Assign` of `ShardConsumer`, `DirectConsumer` and `CandidateIndex`, and asks
`HashRing` for targets. `OrderPipeline` and `DirectConsumer` share `OrderStatus`. `ShardConsumer` implements
`SerialConsumer`, which is why `OrderPipeline` may consume each partition in
order and once. `OutboxPublisher` shows that every row with a target is given to
the Kafka writer and promises no order: `OrderPipeline` publishes the rows of an
order in any order. That the record then is in Kafka is an assumption of
`OrderPipeline`, which the code does not secure (see "What published means").
Duplicates the publisher may append are removed by the inbox, which is
part of `ShardConsumer`.

Data are abstract: an event is an id or a record of the fields the code tests,
coordinates occur only in the index, a transaction's rows become visible at
its commit, and row locks are the uncommitted writes of another transaction.
The names of the code are kept. Definitions introduced with "Variant" are plausible mistakes;
`PROJECT.json` names the property that notices each of them.

## Runs

| Run | Result | Shows |
|---|---|---|
| `shard_consumer` | passes | two nodes, two goroutines, three epochs, two records, a crash and a stream that ends: events take effect once (AppliedAtMostOnce), without a gap (NothingSkipped), in order (AppliedInLogOrder); at most one transaction has effects to commit (OneWriter); epochs never go back (FencedOrder, CheckpointEpochMonotone); the whole implements one serial consumer |
| `shard_live` | passes | every record is applied, with crashes and moves, if no stream ends |
| `shard_stream` | violated | `README.md` line 72: once a stream has ended the shard is never consumed again by its owner |
| `direct_consumer` | passes | two nodes, goroutines that overlap, three epochs, two records of any four types, a crash: no record is passed over (NoRecordPassedOver), the checkpoint only advances (CheckpointMonotone), the owner is refused its checkpoint only after a late request (RefusedOnlyIfOvertaken), after any replays the order has the status that one reading of the log up to the checkpoint, or one record further, gives (Converges), and the shard is consumed up to the first record that cannot be applied (EventuallyConsumed) |
| `controller` | passes | two controllers, three nodes, two shards, one fault: a member that comes or goes moves only its own shards on the ring (MinimalMovement), ownership moves one epoch at a time (ImplementsShardOwnership), no needless move until a sweep is disturbed by another one or by a late request (NoNeedlessMove), ownership settles on the ring (Settles) |
| `outbox` | passes | two publishers, four events, three topics: nothing marked that the writer has not accepted (PublishedWasWritten), a duplicate only after a fault (DuplicatesNeedFaults), everything with a target marked in the end (EventuallyPublished) |
| `outbox_acks` | violated | `docs/design.md` line 71, at-least-once delivery: without a single fault of a process, an append is reported done and lost, and the row is marked (PublishedIsDelivered) |
| `orders` | passes | two orders and one rider of capacity one: no pending order without a request (NoStrandedOrder), a match has its reservation (MatchedIsReserved), capacity, and as much again per start of a shard (ReservationsBounded) |
| `orders_live` | passes | one order with two retries that overlap is decided in the end (EventuallyDecided) |
| `order_retry` | violated | `docs/design.md` line 98 and the guard in `applyOrderRetry`: a late retry sends a cancelled order back into matching |
| `order_riders` | violated | `README.md` line 329: a rider exceeds its capacity after its shard starts again |
| `candidate_index` | passes | one process, two shards, three riders: a running shard has its riders indexed except after a late stop hook (IndexedUnlessStruck), those of a stopped one are forgotten (ForgottenWhenStopped), the consumer of the current ownership is the registered one (OneConsumer), the search returns the best of the nearest (NearestFirst), touching cells lie in neighbouring shards (TouchingCellsAreNeighbors) |

### What the fence does

`docs/design.md` line 43 says that a node with an old epoch may not go on
writing. With PostgreSQL the fence is read before the commit, so a commit of an
old epoch can still happen; FencedOrder and ImplementsSerialConsumer show that
it then has the effect it would have had earlier. Without PostgreSQL nothing
orders the put of a state after that of the next owner: a request that was sent
in time and arrives late can overwrite a newer state. This is why Converges
excludes behaviours with a request that arrived after its sender was replaced;
the other properties of `DirectConsumer` hold with such requests.

A second exclusion was found by the attempt to prove Converges, beyond the
bounds of the run. While no checkpoint is stored, `loadShardCheckpoint` returns
the offset the node remembers. With three records (cancelled, matched, created)
and four epochs, a node that has applied some of them and lost the shard before
a checkpoint was stored gets the shard back after another owner has begun again at the first
record: it goes on from its memory and leaves the order in a status no reading
of the log gives. No record is passed over, so NoRecordPassedOver holds there.
The history variable `exposed` records either event, and Converges is about the
behaviours without them.

### What published means

`NewKafkaEventLog` builds the `kafka.Writer` without `RequiredAcks`. The zero
value of that field in kafka-go is `RequireNone`: `WriteMessages` returns nil
once the request is written to the connection, and no broker says whether it has
stored it. `WriteMessages` of the model therefore lets each attempt reach the log
or not, whatever it reports, and repeats refused attempts up to the bound on
faults. What the publisher guarantees is PublishedWasWritten: a row is marked
only after the writer has accepted its event. That the event is in the log,
PublishedIsDelivered, does not follow, although `docs/design.md` lines 23 and 71
say so; `outbox_acks` shows the loss. EventuallyPublished is about the mark.
With as many hopeless rows as a batch holds it would not hold: claims take the
oldest rows first. The bounds of the run keep below that.

### Sweeps that meet others

`README.md` line 69 says that only one controller is active at a time.
Leadership is asked once, at the start of a sweep, and no write depends on the
leader key: a leader whose lease runs out during a sweep goes on beside its
successor. Likewise a `tryAssign` whose `Txn` timed out may be applied while the
next sweep runs. When that happens between the list of ownerships and the read
before the write, the initial phase gives a shard that has an owner to the same
node again, under the next epoch. The run `controller` reaches both;
ImplementsShardOwnership and Settles hold there too, so fencing and convergence
do not depend on a single controller. NoNeedlessMove does: it is stated up to
the first such meeting (`disturbed`), and covers late writes that land while
nobody sweeps.

### Bounds

Every bound is a constant with the word "bound" beside it, and only limits the
environment. Two goroutines and three epochs are the smallest instance in which
an old owner's transaction is open while the next one commits and a node gets
the shard back; two records give a batch, a duplicate or a record behind it.
In
`DirectConsumer` two goroutines are enough for a request of a process that has
ended and the goroutine of the next owner; three goroutines and four epochs,
with the safety properties alone and two event types, showed nothing new. Two
controllers and one fault make sweeps overlap, or one request arrive late; two shards that prefer
different nodes make rebalancing and failover disagree; three nodes with two
virtual nodes each collide on one key, and one shard wraps around. Four outbox rows over
three topics, with a batch of three, cover batches, single appends and a topic
without a target. One rider of capacity one makes two orders compete; two
attempts let the result of the first arrive after the second retry. Two moves
per shard let a late stop hook meet the next start. `candidate_index` looks at
all layouts up to an area of 18 by 18 and nine shards. When the last row is not
full (seven shards, say) the points of the missing places all go to the last
shard, which need not be a neighbour of the shards around them:
TouchingCellsAreNeighbors is about all other points.

`CHECK_DEADLOCK FALSE` stands where all work may be finished or all bounds used
up. `Controller` and `CandidateIndex` never stop.

### Fairness

`ShardConsumer`: the refresh ticker of each node and each goroutine go on, and
crashes and moves end. `DirectConsumer`: the same, and a request that was sent
is answered or given up (`withTimeout`). `Controller`: sweeps continue on their ticker, etcd drops
a lease nobody renews, and the client of a lost lease learns of it
(`watchKeepAlive`); members and faults come to rest. `OutboxPublisher`: the
polling loop of each publisher goes on and time passes. `OrderPipeline`:
partitions are consumed and the outbox is published, which the other modules
show. Nothing is assumed of clients, retries, crashes or membership, and
everything is weak fairness.

## Proofs

All theorems hold for every value of the constants that satisfies the named
assumptions of the modules (finite sets of riders and events, positive batch
size, natural bounds).

`ShardConsumerProofs` rests on `IInv`, in two halves. `Shape`: types; a
registered worker has a goroutine with its ownership; a batch lies inside the
log. `Consumption`: the inbox rows a transaction has inserted are events of the
records it has read; a record it has passed is done or inserted by itself; at
most one transaction has inserted rows; every remembered offset is covered by
the inbox; the inbox comes from the log, its history counts agree with it, it
follows log order; and a transaction that has passed the second fence check has
an epoch no older than the last commit. The safety properties are not inductive
without this: that no gap arises needs the unique inbox row to make the second
writer wait, and the fence needs that the writer who waits reads etcd afterwards.
From `IInv` follow type correctness, AppliedAtMostOnce, NothingSkipped,
AppliedInLogOrder, OneWriter, the two epoch properties, and the refinement of
`SerialConsumer` with the inbox as what is done and the last committed epoch as
the fence: every step is a step of the serial consumer or changes neither.

`OrderPipelineProofs` has `IInv` = types, the transaction works on the head of
its partition, the two kinds of row locks, NoStrandedOrder, results and matched
rows have reservations, and each rider's count bounds the reservations since
its shard started. It gives type correctness, NoStrandedOrder,
MatchedIsReserved and ReservationsBounded. The delicate case is the order
worker's write of a row it read before the matcher committed: `IInv` shows that
the result event, or the request, is then still on its way.

`OutboxPublisherProofs` proves TypeOK, PublishedWasWritten and
DuplicatesNeedFaults. What a publisher holds as appended has a copy in Kafka or
is lost (AckedWasWritten), and only that is marked. For the duplicates each event is charged with its copies and
with every publisher that may still append it: `Charged` says that this sum is
at most one more than the faults, and less while somebody could claim the event.
Appending moves a unit of the charge or drops it, a claim takes the free one, and
only a crash, a failed append, a retry of the writer or a lease that runs out
gives one back, each a fault.

`ControllerProofs` first proves `RingMovesLeast` about `HashRing`, for any hash
functions: with one node more on the ring, every shard keeps its node or goes to
the new one. If the first key at or after the shard's hash is not one of the new
node, it is the same key as before; if it is, the last of the nodes that share
it has it. The invariant is small: types, a sweep that is to choose has
something to choose from, and an ownership that exists names a node. From it
follow type correctness, MinimalMovement and the refinement of `ShardOwnership`:
only a successful compare-and-put, in time or late, changes an ownership, and the
compare makes the epoch it writes the next one. NoNeedlessMove needs more, `MInv`:
an ownership of epoch zero has no node (UnownedOK); until a sweep is disturbed, at
most one controller is inside a sweep (Alone), and what it has read of the shards
it is still to assign holds (Current); what is compared is never newer than what
is stored (EpochsRead); and a late request that can still be applied names
another node than the present one (LateMoves). The last holds because the
request would have moved its shard when its sender left it (CasMoves), and one
write for the shard makes the compare of all others fail.

`DirectConsumerProofs` has `IInv` = types; no epoch beyond the owner's (Stored);
what a goroutine knows of its record at each step (Progress); a checkpoint still
fresh may be replaced (Fresh); the goroutine of the present ownership is the
registered one, and at or beyond the stored checkpoint unless overtaken (Owned);
it is alone (Alone); NoRecordPassedOver. Owned needs Alone: two goroutines with
the same ownership would move the checkpoint under each other's feet. It gives
type correctness, NoRecordPassedOver, RefusedOnlyIfOvertaken and
CheckpointMonotone.

Converges needs `CInv` = `IInv`, Converges and InStep: unless exposed, the
goroutine of the present ownership stands at the stored checkpoint, what it is
about to put is the status after its record, and what it has put is there. A
replay of the last record changes nothing because applying an event to the
status it led to leaves that status (Idempotent). `Replayed` is a recursive
function; that it is one, and satisfies its equation, is proved as
`ReplayedExists` without an induction schema: for each offset a function up to
it is chosen, and a least offset without one is impossible.

`ShardLayoutProofs` is arithmetic: the division and clamping of a coordinate is
monotone and moves by at most one when the cell does, a place determines its
column and row, and so `TouchingPoints`: points of touching cells, inside the
area or clamped into it, are in neighbouring shards for every layout.

`CandidateIndexProofs` has `IInv` = types; what
refreshOnce has read is not newer than etcd, and still true if the epoch is the
same (Heard); no goroutine has an epoch refreshOnce has not seen (Bounded);
IndexedUnlessStruck, ForgottenWhenStopped and OneConsumer
themselves. NearestFirst is no matter of induction. `SearchIs` and `FirstHit`
show that the nested loops stop in the first tier with a visible rider, and
`BestCandidatesIs` that sorting and cutting to the limit is the choice of the
best ranks, from the lemmas in `RankTheorems` and the fact that Better is a
strict total order.

Only model-checked: liveness (EventuallyApplied, EventuallyConsumed, Settles,
EventuallyPublished, EventuallyDecided), which this prover cannot do, and the
four runs that end in a violation. Every invariant, action property and
refinement of a passing run is a theorem.

## Not modelled

Metrics, codecs, flags and defaults, the generated database glue, the benchmark
and the scripts: no state that the properties depend on. The file and memory
stores: they serve tests and the benchmark, have one writer behind one mutex,
and what could go wrong with them (a line cut short by a crash) is a matter of
bytes. CRC32: the hash functions of `HashRing` are constants. `Remove` of the
ring, `MarkDead` and `ApplyRiderEvent` of the index: no command calls them. With
PostgreSQL, events that cannot be decoded or applied are left out, as the
producers send none; `DirectConsumer` has them. An error in a start hook ends the
process, and with it the index. `DirectConsumer` leaves streams that end and the
finer steps of the refresh loop (list, compare and stop are one step) to
`ShardConsumer`, and takes the second fence check together with the write of
`nextStep` that follows it; `CandidateIndex` has no streams that end either: there
the goroutine returns and its entry stays in `active`, so nothing of the index
changes. `StatusSubmitted` is left out of `OrderStatus`, as nothing writes it, and
`online = TRUE` of `ReserveRider`, as riders are only ever stored online. The
order producer makes its layout with cells of 10000 and the matcher worker with a
size of its own choice, so that the two may number shards differently: each module
uses one layout, and no property relates the two.

## Plan

Done, in this order: `ShardConsumer` with its abstract specification and proofs
(the guarantee everything else uses), `Controller`, `OutboxPublisher`,
`OrderPipeline`, `CandidateIndex` with `ShardLayout`; then `HashRing` and the
proofs about `Controller`, `DirectConsumer` with its proofs, and layouts whose
last row is not full.

Then the proofs that were left: `OutboxPublisher` in full, NoNeedlessMove,
Converges, `ShardLayout` and `CandidateIndex`.

Next: safety facts behind the liveness properties that can be proved without
fairness (a registered shard has a goroutine that can step, a claimed event has
a lease that ends), and what the ring and the order's status promise stated as
theorems of their own.
