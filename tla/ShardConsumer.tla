---------------------------- MODULE ShardConsumer ----------------------------
(***************************************************************************)
(* The consumption of one shard: node.Runner starts and stops a goroutine  *)
(* for the shard as etcd ownership moves, and the goroutine applies the    *)
(* shard's Kafka records in PostgreSQL transactions that hold the inbox    *)
(* rows, the business effects and the checkpoint, between two fence checks *)
(* against etcd.  applier.PostgresApplier does it in batches, and          *)
(* matchworker.Worker with the same steps and BatchSize = 1.               *)
(*                                                                         *)
(* Shards share no inbox row, checkpoint row or partition, so one shard is *)
(* enough.  The business effect of an event is only counted here; it is    *)
(* the subject of OrderPipeline.                                           *)
(***************************************************************************)
EXTENDS Integers, Sequences, FiniteSets

CONSTANTS
    Nodes,          \* worker processes (node ids)
    NoNode,         \* owner of a shard nobody was ever assigned to
    Workers,        \* goroutines that can exist at the same time, all nodes
    Events,         \* event ids
    BatchSize,      \* SetBatchOptions: records of one transaction, at most
    MaxLog,         \* bound: records in the partition
    MaxEpoch,       \* bound: ownership changes
    MaxCrashes,     \* bound: processes that end with an error or are killed
    MaxStreamEnds   \* bound: record streams closed by a Kafka error

ASSUME NodesAssumption == NoNode \notin Nodes
ASSUME BatchAssumption == BatchSize \in Nat \ {0}
ASSUME BoundsAssumption ==
    /\ MaxLog \in Nat
    /\ MaxEpoch \in Nat
    /\ MaxCrashes \in Nat
    /\ MaxStreamEnds \in Nat

VARIABLES
    log,         \* the Kafka partition: event ids, duplicates possible
    owner,       \* etcd: the ownership of the shard, epoch 0 when absent
    active,      \* Node.active of each process: epoch of its worker, 0 if none
    nextStep,    \* Node.nextStep of each process
    pc,          \* where each goroutine is
    own,         \* the ownership each goroutine was started with
    next,        \* offset of the next record each goroutine will read
    cur,         \* inside a batch: offset of the record to apply
    end,         \* inside a batch: offset after its last record
    ins,         \* inbox rows inserted by the goroutine's open transaction
    inbox,       \* committed inbox_events rows (event ids)
    ckpt,        \* committed shard_checkpoints row, epoch 0 when absent
    crashes,     \* crashes so far
    streamEnds,  \* closed streams so far
    applyCount,  \* history: how often the effects of an event were committed
    lastEpoch    \* history: epoch that committed the latest effects

db == <<inbox, ckpt, applyCount, lastEpoch>>
batch == <<cur, end, ins>>
bounds == <<crashes, streamEnds>>
vars == <<log, owner, active, nextStep, pc, own, next, batch, db, bounds>>

----------------------------------------------------------------------------
Offsets == 0..MaxLog
Epochs == 0..MaxEpoch

Ownerships == [node : Nodes \cup {NoNode}, epoch : Epochs]
Checkpoints == [offset : Offsets, epoch : Epochs]

\* "listed": ownership read by refreshOnce, not yet compared with the worker
\* that runs; "starting": to be started, checkpoint not yet loaded; "ready": waiting for
\* records; "applying": inside the transaction; "fenced": second fence check
\* passed; "upserted": checkpoint row written, COMMIT may be on its way;
\* "committed": COMMIT answered; "orphan": COMMIT sent by a process that is
\* gone.
PCs == {"idle", "listed", "starting", "ready", "applying", "fenced", "upserted",
        "committed", "orphan"}

TypeOK ==
    /\ log \in Seq(Events)
    /\ Len(log) <= MaxLog
    /\ owner \in Ownerships
    /\ active \in [Nodes -> Epochs]
    /\ nextStep \in [Nodes -> Offsets]
    /\ pc \in [Workers -> PCs]
    /\ own \in [Workers -> Ownerships]
    /\ next \in [Workers -> Offsets]
    /\ cur \in [Workers -> Offsets]
    /\ end \in [Workers -> Offsets]
    /\ ins \in [Workers -> SUBSET Events]
    /\ inbox \in SUBSET Events
    /\ ckpt \in Checkpoints
    /\ crashes \in 0..MaxCrashes
    /\ streamEnds \in 0..MaxStreamEnds
    /\ applyCount \in [Events -> Nat]
    /\ lastEpoch \in Epochs

Init ==
    /\ log = <<>>
    /\ owner = [node |-> NoNode, epoch |-> 0]
    /\ active = [n \in Nodes |-> 0]
    /\ nextStep = [n \in Nodes |-> 0]
    /\ pc = [w \in Workers |-> "idle"]
    /\ own = [w \in Workers |-> [node |-> NoNode, epoch |-> 0]]
    /\ next = [w \in Workers |-> 0]
    /\ cur = [w \in Workers |-> 0]
    /\ end = [w \in Workers |-> 0]
    /\ ins = [w \in Workers |-> {}]
    /\ inbox = {}
    /\ ckpt = [offset |-> 0, epoch |-> 0]
    /\ crashes = 0
    /\ streamEnds = 0
    /\ applyCount = [e \in Events |-> 0]
    /\ lastEpoch = 0

----------------------------------------------------------------------------
(* The environment: producers and the outbox append records, at least      *)
(* once each; the controller moves the shard.                              *)

Produce(e) ==
    /\ Len(log) < MaxLog
    /\ log' = Append(log, e)
    /\ UNCHANGED <<owner, active, nextStep, pc, own, next, batch, db, bounds>>

Assign(n) ==
    /\ owner.epoch < MaxEpoch
    /\ owner' = [node |-> n, epoch |-> owner.epoch + 1]
    /\ UNCHANGED <<log, active, nextStep, pc, own, next, batch, db, bounds>>

----------------------------------------------------------------------------
(* The runner: starting and stopping the shard.                            *)

\* A goroutine that runs for process n, wherever it stands.
RunsOn(w, n) == pc[w] # "idle" /\ own[w].node = n

\* Cancelling the context rolls the open transaction back, unless COMMIT may
\* already be on its way.
Cancellable(w) == pc[w] \in {"ready", "applying", "fenced"}

\* The process of n is inside refreshOnce.
Refreshing(n) == \E w \in Workers : RunsOn(w, n) /\ pc[w] \in {"listed", "starting"}

\* stopShard: the goroutine of n is cancelled, nobody waits for it to end.
stopShard(n) ==
    /\ ins' = [w \in Workers |-> IF RunsOn(w, n) /\ Cancellable(w) THEN {} ELSE ins[w]]
    /\ active' = [active EXCEPT ![n] = 0]

PcStopped(n) ==
    [w \in Workers |-> IF RunsOn(w, n) /\ Cancellable(w) THEN "idle" ELSE pc[w]]

\* refreshOnce finds the shard no longer among the node's.  One step: until
\* the stop only this loop starts the shard, and a worker whose ownership is
\* gone commits nothing it has not been cleared for.
RefreshStop(n) ==
    /\ active[n] # 0
    /\ owner.node # n
    /\ ~Refreshing(n)
    /\ stopShard(n)
    /\ pc' = PcStopped(n)
    /\ UNCHANGED <<log, owner, nextStep, own, next, cur, end, db, bounds>>

\* refreshOnce finds the shard among the node's.
RefreshList(n, w) ==
    /\ owner.node = n
    /\ ~Refreshing(n)
    /\ pc[w] = "idle"
    /\ pc' = [pc EXCEPT ![w] = "listed"]
    /\ own' = [own EXCEPT ![w] = owner]
    /\ UNCHANGED <<log, owner, active, nextStep, next, batch, db, bounds>>

\* The worker that runs has the epoch listed: nothing to do.
RefreshKeep(w) ==
    /\ pc[w] = "listed"
    /\ active[own[w].node] = own[w].epoch
    /\ pc' = [pc EXCEPT ![w] = "idle"]
    /\ UNCHANGED <<log, owner, active, nextStep, own, next, batch, db, bounds>>

\* No worker runs, or one with another epoch: it is stopped and one started.
RefreshStart(w) ==
    LET n == own[w].node
    IN  /\ pc[w] = "listed"
        /\ active[n] # own[w].epoch
        /\ stopShard(n)
        /\ pc' = [PcStopped(n) EXCEPT ![w] = "starting"]
        /\ UNCHANGED <<log, owner, nextStep, own, next, cur, end, db, bounds>>

\* Variant: the stored offset taken for that of the last applied record.
LoadAsLastApplied(n) == IF ckpt.epoch # 0 THEN ckpt.offset + 1 ELSE nextStep[n]

\* The offset loadShardCheckpoint returns: the stored one, else the cached one.
loadShardCheckpoint(n) == IF ckpt.epoch # 0 THEN ckpt.offset ELSE nextStep[n]

\* The rest of startShard: the goroutine runs and is registered in active.
StartShard(w) ==
    LET n == own[w].node
    IN  /\ pc[w] = "starting"
        /\ next' = [next EXCEPT ![w] = loadShardCheckpoint(n)]
        /\ nextStep' = [nextStep EXCEPT ![n] = loadShardCheckpoint(n)]
        /\ active' = [active EXCEPT ![n] = own[w].epoch]
        /\ pc' = [pc EXCEPT ![w] = "ready"]
        /\ UNCHANGED <<log, owner, own, batch, db, bounds>>

\* TailFrom closes its channel on any fetch or decode error; the goroutine
\* returns nil and nothing removes the shard from active.
StreamEnd(w) ==
    /\ streamEnds < MaxStreamEnds
    /\ pc[w] = "ready"
    /\ pc' = [pc EXCEPT ![w] = "idle"]
    /\ streamEnds' = streamEnds + 1
    /\ UNCHANGED <<log, owner, active, nextStep, own, next, batch, db, crashes>>

\* Run returns with an error, or the process is killed.  Open transactions
\* roll back, save those whose COMMIT may have been sent.  The process is
\* started again and has forgotten everything.
Crash(n) ==
    /\ crashes < MaxCrashes
    /\ \E w \in Workers : RunsOn(w, n)
    /\ pc' = [w \in Workers |->
                IF ~RunsOn(w, n) THEN pc[w]
                ELSE IF pc[w] \in {"upserted", "orphan"} THEN "orphan" ELSE "idle"]
    /\ ins' = [w \in Workers |->
                IF RunsOn(w, n) /\ pc[w] \notin {"upserted", "orphan"} THEN {} ELSE ins[w]]
    /\ active' = [active EXCEPT ![n] = 0]
    /\ nextStep' = [nextStep EXCEPT ![n] = 0]
    /\ crashes' = crashes + 1
    /\ UNCHANGED <<log, owner, own, next, cur, end, db, streamEnds>>

----------------------------------------------------------------------------
(* The goroutine: one transaction per batch.                               *)

\* checkFence: etcd still has the ownership the goroutine was started with.
checkFence(w) == owner = own[w]

\* The first fence check passes and the transaction of a batch of size
\* records begins (collectRecordBatch, validateRecordBatch, BeginTx).
BeginBatch(w, size) ==
    /\ pc[w] = "ready"
    /\ next[w] + size <= Len(log)
    /\ checkFence(w)
    /\ pc' = [pc EXCEPT ![w] = "applying"]
    /\ cur' = [cur EXCEPT ![w] = next[w]]
    /\ end' = [end EXCEPT ![w] = next[w] + size]
    /\ UNCHANGED <<log, owner, active, nextStep, own, next, ins, db, bounds>>

\* Variants of ApplyRecord: no unique key to wait for; a record locked by
\* another transaction taken for a duplicate; the inbox row ignored.
ApplyRecordNoWait(w) ==
    /\ pc[w] = "applying" /\ cur[w] < end[w]
    /\ ins' = [ins EXCEPT ![w] = @ \cup ({log[cur[w] + 1]} \ inbox)]
    /\ cur' = [cur EXCEPT ![w] = @ + 1]
    /\ UNCHANGED <<log, owner, active, nextStep, pc, own, next, end, db, bounds>>

ApplyRecordSkipLocked(w) ==
    LET locked == UNION {ins[v] : v \in Workers \ {w}}
    IN  /\ pc[w] = "applying" /\ cur[w] < end[w]
        /\ ins' = [ins EXCEPT ![w] = @ \cup ({log[cur[w] + 1]} \ (inbox \cup locked))]
        /\ cur' = [cur EXCEPT ![w] = @ + 1]
        /\ UNCHANGED <<log, owner, active, nextStep, pc, own, next, end, db, bounds>>

ApplyRecordNoInbox(w) ==
    LET e == log[cur[w] + 1]
    IN  /\ pc[w] = "applying" /\ cur[w] < end[w]
        /\ \A v \in Workers \ {w} : e \notin ins[v]
        /\ ins' = [ins EXCEPT ![w] = @ \cup {e}]
        /\ cur' = [cur EXCEPT ![w] = @ + 1]
        /\ UNCHANGED <<log, owner, active, nextStep, pc, own, next, end, db, bounds>>

\* RecordInboxEvent waits while another open transaction holds the same key.
\* The event is applied if the row is new.
ApplyRecord(w) ==
    LET e == log[cur[w] + 1]
    IN  /\ pc[w] = "applying"
        /\ cur[w] < end[w]
        /\ \A v \in Workers \ {w} : e \notin ins[v]
        /\ ins' = [ins EXCEPT ![w] = @ \cup ({e} \ inbox)]
        /\ cur' = [cur EXCEPT ![w] = @ + 1]
        /\ UNCHANGED <<log, owner, active, nextStep, pc, own, next, end, db, bounds>>

\* Variant: no second fence check.
NoSecondFence(w) ==
    /\ pc[w] = "applying" /\ cur[w] = end[w]
    /\ pc' = [pc EXCEPT ![w] = "fenced"]
    /\ UNCHANGED <<log, owner, active, nextStep, own, next, batch, db, bounds>>

\* The second fence check passes.
CheckFenceAgain(w) ==
    /\ pc[w] = "applying"
    /\ cur[w] = end[w]
    /\ checkFence(w)
    /\ pc' = [pc EXCEPT ![w] = "fenced"]
    /\ UNCHANGED <<log, owner, active, nextStep, own, next, batch, db, bounds>>

\* Variant: the transaction is left open when a fence check fails.
FenceLostNoRollback(w) ==
    /\ \/ pc[w] = "ready" /\ next[w] < Len(log)
       \/ pc[w] = "applying" /\ cur[w] = end[w]
    /\ ~checkFence(w)
    /\ pc' = [pc EXCEPT ![w] = "idle"]
    /\ active' = [active EXCEPT ![own[w].node] = IF @ = own[w].epoch THEN 0 ELSE @]
    /\ UNCHANGED <<log, owner, nextStep, own, next, batch, db, bounds>>

\* Either fence check fails: the transaction rolls back, the goroutine ends
\* and takes the shard out of active if it is still its own entry.
FenceLost(w) ==
    LET n == own[w].node
    IN  /\ \/ pc[w] = "ready" /\ next[w] < Len(log)
           \/ pc[w] = "applying" /\ cur[w] = end[w]
        /\ ~checkFence(w)
        /\ pc' = [pc EXCEPT ![w] = "idle"]
        /\ ins' = [ins EXCEPT ![w] = {}]
        /\ active' = [active EXCEPT ![n] = IF @ = own[w].epoch THEN 0 ELSE @]
        /\ UNCHANGED <<log, owner, nextStep, own, next, cur, end, db, bounds>>

\* UpsertShardCheckpoint locks the checkpoint row until the transaction ends,
\* also when its WHERE clause keeps the row as it is.
HoldsCheckpoint(w) == pc[w] \in {"upserted", "orphan"}

UpsertCheckpoint(w) ==
    /\ pc[w] = "fenced"
    /\ \A v \in Workers : ~HoldsCheckpoint(v)
    /\ pc' = [pc EXCEPT ![w] = "upserted"]
    /\ UNCHANGED <<log, owner, active, nextStep, own, next, batch, db, bounds>>

\* Variants of the upsert: no WHERE clause; one offset too far.
UpsertAnyEpoch(w) == [offset |-> end[w], epoch |-> own[w].epoch]

UpsertOneTooFar(w) ==
    IF ckpt.epoch <= own[w].epoch /\ end[w] < MaxLog
    THEN [offset |-> end[w] + 1, epoch |-> own[w].epoch]
    ELSE ckpt

\* The row the upsert leaves: the new one unless a newer epoch wrote the old.
upsertShardCheckpoint(w) ==
    IF ckpt.epoch <= own[w].epoch
    THEN [offset |-> end[w], epoch |-> own[w].epoch]
    ELSE ckpt

Commit(w) ==
    /\ HoldsCheckpoint(w)
    /\ inbox' = inbox \cup ins[w]
    /\ ckpt' = upsertShardCheckpoint(w)
    /\ applyCount' = [e \in Events |-> IF e \in ins[w] THEN applyCount[e] + 1
                                       ELSE applyCount[e]]
    /\ lastEpoch' = IF ins[w] = {} THEN lastEpoch ELSE own[w].epoch
    /\ ins' = [ins EXCEPT ![w] = {}]
    /\ pc' = [pc EXCEPT ![w] = IF @ = "orphan" THEN "idle" ELSE "committed"]
    /\ UNCHANGED <<log, owner, active, nextStep, own, next, cur, end, bounds>>

\* rememberCheckpoint, also by a goroutine cancelled in the meantime.
RememberCheckpoint(w) ==
    LET n == own[w].node
    IN  /\ pc[w] = "committed"
        /\ nextStep' = [nextStep EXCEPT ![n] = end[w]]
        /\ next' = [next EXCEPT ![w] = end[w]]
        /\ pc' = [pc EXCEPT ![w] = IF active[n] = own[w].epoch THEN "ready" ELSE "idle"]
        /\ UNCHANGED <<log, owner, active, own, batch, db, bounds>>

\* COMMIT of a cancelled goroutine or of a dead process never arrives.
Rollback(w) ==
    /\ \/ pc[w] = "orphan"
       \/ pc[w] = "upserted" /\ active[own[w].node] # own[w].epoch
    /\ pc' = [pc EXCEPT ![w] = "idle"]
    /\ ins' = [ins EXCEPT ![w] = {}]
    /\ UNCHANGED <<log, owner, active, nextStep, own, next, cur, end, db, bounds>>

----------------------------------------------------------------------------
Worker(w) ==
    \/ RefreshKeep(w) \/ RefreshStart(w) \/ StartShard(w)
    \/ \E size \in 1..BatchSize : BeginBatch(w, size)
    \/ ApplyRecord(w)
    \/ CheckFenceAgain(w)
    \/ FenceLost(w)
    \/ UpsertCheckpoint(w)
    \/ Commit(w)
    \/ RememberCheckpoint(w)
    \/ Rollback(w)

Refresh(n) ==
    \/ RefreshStop(n)
    \/ \E w \in Workers : RefreshList(n, w)

Next ==
    \/ \E e \in Events : Produce(e)
    \/ \E n \in Nodes : Assign(n) \/ Refresh(n) \/ Crash(n)
    \/ \E w \in Workers : Worker(w) \/ StreamEnd(w)

Spec == Init /\ [][Next]_vars

\* The refresh ticker keeps firing, goroutines keep running, PostgreSQL ends
\* every transaction it has been sent a COMMIT for.
Fairness == /\ \A n \in Nodes : WF_vars(Refresh(n))
            /\ \A w \in Workers : WF_vars(Worker(w))

FairSpec == Spec /\ Fairness

----------------------------------------------------------------------------
(* Properties                                                              *)

\* Everything before the offset is durable.
Covered(offset) == /\ offset <= Len(log)
                   /\ \A i \in 1..offset : log[i] \in inbox

\* No event's effects are committed twice, whatever the number of owners,
\* replays and duplicate records: the inbox row goes with the effects
\* (applyRecordInTransaction).
AppliedAtMostOnce == \A e \in Events : applyCount[e] <= 1

\* Consumption never starts behind a hole: an offset that is a checkpoint, a
\* cached offset or a goroutine's reading position has everything before it
\* durable (docs/design.md: the checkpoint only advances after the apply).
NothingSkipped ==
    /\ Covered(ckpt.offset)
    /\ \A n \in Nodes : Covered(nextStep[n])
    /\ \A w \in Workers : pc[w] \in {"ready", "applying", "fenced"} => Covered(next[w])

\* Events take effect in partition order: an event whose first record comes
\* after a record not yet applied is not applied either.
AppliedInLogOrder ==
    \A i, j \in 1..Len(log) :
        (i < j /\ log[j] \in inbox /\ log[i] \notin inbox)
            => \E k \in 1..i : log[k] = log[j]

\* At most one transaction of the shard ever has effects to commit: two
\* owners cannot be about to change the shard's data at the same time.
OneWriter == \A v, w \in Workers : ins[v] # {} /\ ins[w] # {} => v = w

\* Fencing: once an owner has committed effects, no commit of an older epoch
\* ever has effects, however late it arrives (checkFence before COMMIT).
FencedOrder == [][lastEpoch' >= lastEpoch]_vars

\* The checkpoint row never goes back to an older epoch (the WHERE clause of
\* UpsertShardCheckpoint).
CheckpointEpochMonotone == [][ckpt'.epoch >= ckpt.epoch]_vars

\* The shard's owners together are one serial consumer.
Serial == INSTANCE SerialConsumer WITH done <- inbox, fence <- lastEpoch

ImplementsSerialConsumer == Serial!Spec

\* Once the shard has an owner, every record is eventually applied.
EventuallyApplied ==
    \A e \in Events :
        (owner.epoch > 0 /\ \E i \in 1..Len(log) : log[i] = e) ~> (e \in inbox)
=============================================================================
