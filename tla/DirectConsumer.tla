--------------------------- MODULE DirectConsumer ---------------------------
(***************************************************************************)
(* The consumption of one shard when nodeapp runs without PostgreSQL: the  *)
(* order's state and the checkpoint are two keys in etcd, written one      *)
(* after the other, so records are applied at least once.  Every record is *)
(* fenced before and after its effect (ApplyWithFence), the effect is a    *)
(* plain put, and the checkpoint a compare-and-put that may be repeated    *)
(* (SaveShardCheckpoint).  A request that was sent can arrive after its    *)
(* goroutine was cancelled and after its process has ended.                *)
(*                                                                         *)
(* One order is enough: orders have keys of their own.  The partition is   *)
(* there from the start: a record that is not there yet is one that the    *)
(* goroutine has not come to.  ShardConsumer has the refresh loop in finer *)
(* steps, and the streams that end.                                        *)
(***************************************************************************)
EXTENDS Integers, Sequences, FiniteSets, OrderStatus

CONSTANTS
    Nodes,        \* worker processes (node ids)
    NoNode,       \* owner of a shard nobody was ever assigned to
    Workers,      \* goroutines and requests that can exist at the same time
    EventTypes,   \* types of the records, "unsupported" among them
    LogLength,    \* bound: records in the partition
    MaxSaves,     \* maxEtcdCheckpointRetries
    MaxEpoch,     \* bound: ownership changes
    MaxCrashes    \* bound: processes that are killed or lose etcd

ASSUME NodesAssumption == NoNode \notin Nodes
ASSUME BoundsAssumption == /\ LogLength \in Nat
                           /\ MaxSaves \in Nat \ {0}
                           /\ MaxEpoch \in Nat
                           /\ MaxCrashes \in Nat

VARIABLES
    log,        \* the partition: events of one order
    owner,      \* etcd: the ownership of the shard, epoch 0 when absent
    status,     \* etcd: status of the order, "none" when absent
    ckpt,       \* etcd: the checkpoint, epoch 0 when absent
    active,     \* Node.active of each process: epoch of its worker, 0 if none
    nextStep,   \* Node.nextStep of each process
    g,          \* the goroutines
    crashes,    \* crashes so far
    applied,    \* history: offsets whose event has been applied
    exposed     \* history: a request arrived after its sender was replaced, or a
                \* node went on from its memory while nothing was stored

etcd == <<owner, status, ckpt>>
runner == <<active, nextStep>>
vars == <<log, etcd, runner, g, crashes, applied, exposed>>

----------------------------------------------------------------------------
Offsets == 0..LogLength
Ownerships == [node : Nodes \cup {NoNode}, epoch : 0..MaxEpoch]
Checkpoints == [offset : Offsets, epoch : 0..MaxEpoch]
OrderStatuses == {"none", "created", "cancelled", "retry_requested", "matched", "missed"}

\* "starting": ownership listed; "ready": waiting for a record; "reading":
\* first fence check passed; "saving": the put of the order's state is under
\* way; "applied": it has been answered; "get": to read the checkpoint;
\* "cas": the compare-and-put is under way; "orphanSave" and "orphanCas": the
\* same requests of a process that has ended.
PCs == {"idle", "starting", "ready", "reading", "saving", "applied", "get", "cas",
        "orphanSave", "orphanCas"}

\* own is the ownership the goroutine was started with, next the offset of the
\* record it is at; fresh says that the checkpoint is still the one it has
\* read, tries counts the attempts that met another; overtaken is history: a
\* late request has changed the checkpoint since it was loaded.
Goroutines == [pc : PCs, own : Ownerships, next : Offsets, fresh : BOOLEAN,
               tries : 0..MaxSaves - 1, overtaken : BOOLEAN]

Idle == [pc |-> "idle", own |-> [node |-> NoNode, epoch |-> 0], next |-> 0,
         fresh |-> FALSE, tries |-> 0, overtaken |-> FALSE]

TypeOK ==
    /\ log \in [1..LogLength -> [type : EventTypes]]
    /\ owner \in Ownerships
    /\ status \in OrderStatuses
    /\ ckpt \in Checkpoints
    /\ active \in [Nodes -> 0..MaxEpoch]
    /\ nextStep \in [Nodes -> Offsets]
    /\ g \in [Workers -> Goroutines]
    /\ crashes \in 0..MaxCrashes
    /\ applied \in SUBSET Offsets
    /\ exposed \in BOOLEAN

Init ==
    /\ log \in [1..LogLength -> [type : EventTypes]]
    /\ owner = [node |-> NoNode, epoch |-> 0]
    /\ status = "none"
    /\ ckpt = [offset |-> 0, epoch |-> 0]
    /\ active = [n \in Nodes |-> 0]
    /\ nextStep = [n \in Nodes |-> 0]
    /\ g = [w \in Workers |-> Idle]
    /\ crashes = 0
    /\ applied = {}
    /\ exposed = FALSE

----------------------------------------------------------------------------
(* Processes: the refresh loop, and what ends them.                        *)

Assign(n) ==
    /\ owner.epoch < MaxEpoch
    /\ owner' = [node |-> n, epoch |-> owner.epoch + 1]
    /\ UNCHANGED <<log, status, ckpt, runner, g, crashes, applied, exposed>>

Orphan(w) == g[w].pc \in {"orphanSave", "orphanCas"}

\* A goroutine of the process of n as it runs now.
RunsOn(w, n) == g[w].pc # "idle" /\ ~Orphan(w) /\ g[w].own.node = n

\* Its context is cancelled: no request it has not sent will be.
Cancelled(w) == active[g[w].own.node] # g[w].own.epoch

Starting(n) == \E w \in Workers : RunsOn(w, n) /\ g[w].pc = "starting"

\* stopShard cancels and does not wait: a write under way goes on.
Stopped(n) ==
    [w \in Workers |-> IF RunsOn(w, n) /\ g[w].pc \in {"ready", "reading", "get"} THEN Idle
                       ELSE g[w]]

RefreshStop(n) ==
    /\ active[n] # 0
    /\ owner.node # n
    /\ ~Starting(n)
    /\ active' = [active EXCEPT ![n] = 0]
    /\ g' = Stopped(n)
    /\ UNCHANGED <<log, etcd, nextStep, crashes, applied, exposed>>

Unused == {w \in Workers : g[w].pc = "idle"}

\* refreshOnce finds an ownership it has no worker for, or one of another
\* epoch, which is stopped.
RefreshStart(n) ==
    /\ owner.node = n
    /\ active[n] # owner.epoch
    /\ ~Starting(n)
    /\ Unused # {}
    /\ active' = [active EXCEPT ![n] = 0]
    /\ g' = [Stopped(n) EXCEPT ![CHOOSE w \in Unused : TRUE] =
               [Idle EXCEPT !.pc = "starting", !.own = owner]]
    /\ UNCHANGED <<log, etcd, nextStep, crashes, applied, exposed>>

\* Variant: the stored offset taken for that of the last applied record.
LoadAsLastApplied(n) == IF ckpt.epoch # 0 THEN ckpt.offset + 1 ELSE nextStep[n]

\* Variant: the cached offset taken without a look at the stored one.
LoadCached(n) == nextStep[n]

\* LoadShardCheckpoint, or the cached offset when there is none.
loadShardCheckpoint(n) == IF ckpt.epoch # 0 THEN ckpt.offset ELSE nextStep[n]

StartShard(w) ==
    LET n == g[w].own.node
    IN  /\ g[w].pc = "starting"
        /\ g' = [g EXCEPT ![w].pc = "ready", ![w].next = loadShardCheckpoint(n),
                          ![w].overtaken = FALSE]
        /\ nextStep' = [nextStep EXCEPT ![n] = loadShardCheckpoint(n)]
        /\ active' = [active EXCEPT ![n] = g[w].own.epoch]
        /\ exposed' = (exposed \/ (ckpt.epoch = 0 /\ nextStep[n] > 0))
        /\ UNCHANGED <<log, etcd, crashes, applied>>

\* Run returns an error or the process is killed; it is started again and has
\* forgotten everything, but for the writes under way.
ProcessEnds(n) ==
    /\ g' = [w \in Workers |->
               IF ~RunsOn(w, n) THEN g[w]
               ELSE IF g[w].pc = "saving" THEN [g[w] EXCEPT !.pc = "orphanSave"]
               ELSE IF g[w].pc = "cas" THEN [g[w] EXCEPT !.pc = "orphanCas"]
               ELSE Idle]
    /\ active' = [active EXCEPT ![n] = 0]
    /\ nextStep' = [nextStep EXCEPT ![n] = 0]
    /\ UNCHANGED <<log, etcd, applied, exposed>>

Crash(n) ==
    /\ crashes < MaxCrashes
    /\ \E w \in Workers : RunsOn(w, n)
    /\ crashes' = crashes + 1
    /\ ProcessEnds(n)

----------------------------------------------------------------------------
(* A record is applied.                                                    *)

checkFence(w) == owner = g[w].own

Event(w) == log[g[w].next + 1]

Goto(w, pc) == [g EXCEPT ![w].pc = pc]

\* Variant: the memory of the checkpoint moved before the record is applied.
CheckFenceEarly(w) ==
    /\ g[w].pc = "ready"
    /\ g[w].next < LogLength
    /\ checkFence(w)
    /\ g' = Goto(w, "reading")
    /\ nextStep' = [nextStep EXCEPT ![g[w].own.node] = g[w].next + 1]
    /\ UNCHANGED <<log, etcd, active, crashes, applied, exposed>>

\* The goroutine receives a record, and ApplyWithFence checks a first time.
CheckFence(w) ==
    /\ g[w].pc = "ready"
    /\ g[w].next < LogLength
    /\ checkFence(w)
    /\ g' = Goto(w, "reading")
    /\ UNCHANGED <<log, etcd, runner, crashes, applied, exposed>>

\* removeActiveShard leaves the entry of another epoch alone.
FenceLost(w) ==
    /\ \/ g[w].pc = "ready" /\ g[w].next < LogLength
       \/ g[w].pc = "applied"
    /\ ~checkFence(w)
    /\ g' = [g EXCEPT ![w] = Idle]
    /\ active' = [active EXCEPT ![g[w].own.node] = IF Cancelled(w) THEN @ ELSE 0]
    /\ UNCHANGED <<log, etcd, nextStep, crashes, applied, exposed>>

\* Apply returns an error.
Unappliable(e, st) ==
    \/ e.type = "unsupported"
    \/ e.type = "order_retry_request" /\ st = "none"

\* Variant: the early returns of Apply dropped.
LoadOrderIgnoreNothing(w) ==
    /\ g[w].pc = "reading"
    /\ ~Unappliable(Event(w), status)
    /\ g' = Goto(w, "saving")
    /\ UNCHANGED <<log, etcd, runner, crashes, applied, exposed>>

\* prepareOrderState has its answer; an ignored event saves nothing.
LoadOrder(w) ==
    /\ g[w].pc = "reading"
    /\ ~Unappliable(Event(w), status)
    /\ IF Ignored(Event(w), [status |-> status])
         THEN /\ g' = Goto(w, "applied")
              /\ applied' = applied \cup {g[w].next}
         ELSE /\ g' = Goto(w, "saving")
              /\ UNCHANGED applied
    /\ UNCHANGED <<log, etcd, runner, crashes, exposed>>

\* The error ends the process, which is started again.
ApplyFails(w) ==
    /\ g[w].pc = "reading"
    /\ Unappliable(Event(w), status)
    /\ UNCHANGED crashes
    /\ ProcessEnds(g[w].own.node)

\* The goroutine has been replaced, but for the request it has sent.
Late(w) == Orphan(w) \/ Cancelled(w) \/ ~checkFence(w)

\* The put of the order's state: nothing compares it with what is there.
SaveOrder(w) ==
    /\ g[w].pc \in {"saving", "orphanSave"}
    /\ status' = StatusAfter(Event(w).type)
    /\ applied' = applied \cup {g[w].next}
    /\ exposed' = (exposed \/ Late(w))
    /\ g' = IF Orphan(w) THEN [g EXCEPT ![w] = Idle] ELSE Goto(w, "applied")
    /\ UNCHANGED <<log, owner, ckpt, runner, crashes>>

----------------------------------------------------------------------------
(* The checkpoint is advanced.                                             *)

\* ApplyWithFence checks again, and advanceCheckpoint moves its memory before
\* it turns to the store, which a cancelled goroutine does not reach.
CheckFenceAgain(w) ==
    /\ g[w].pc = "applied"
    /\ checkFence(w)
    /\ nextStep' = [nextStep EXCEPT ![g[w].own.node] = g[w].next + 1]
    /\ g' = IF Cancelled(w) THEN [g EXCEPT ![w] = Idle] ELSE Goto(w, "get")
    /\ UNCHANGED <<log, etcd, active, crashes, applied, exposed>>

\* Variant: one checkpoint for each epoch.
ShouldSaveOncePerEpoch(w) ==
    \/ ckpt.epoch = 0
    \/ g[w].next + 1 >= ckpt.offset /\ g[w].own.epoch > ckpt.epoch

shouldSaveShardCheckpoint(w) ==
    \/ ckpt.epoch = 0
    \/ g[w].next + 1 >= ckpt.offset /\ g[w].own.epoch >= ckpt.epoch

GetCheckpoint(w) ==
    /\ g[w].pc = "get"
    /\ shouldSaveShardCheckpoint(w)
    /\ g' = [g EXCEPT ![w].pc = "cas", ![w].fresh = TRUE]
    /\ UNCHANGED <<log, etcd, runner, crashes, applied, exposed>>

\* ErrStaleShardCheckpoint is an error like any other: the process ends.
SaveRefused(w) ==
    /\ g[w].pc = "get"
    /\ ~shouldSaveShardCheckpoint(w)
    /\ UNCHANGED crashes
    /\ ProcessEnds(g[w].own.node)

\* The checkpoint is written; its revision is no longer the one others read.
Saved(w) ==
    /\ ckpt' = [offset |-> g[w].next + 1, epoch |-> g[w].own.epoch]
    /\ exposed' = (exposed \/ Late(w))
    /\ g' = [v \in Workers |->
               IF v # w THEN [g[v] EXCEPT !.fresh = FALSE,
                                          !.overtaken = @ \/ (Late(w) /\ g[v].pc # "idle")]
               ELSE IF Orphan(w) \/ Cancelled(w) THEN Idle
               ELSE [g[w] EXCEPT !.pc = "ready", !.next = @ + 1, !.fresh = FALSE, !.tries = 0]]
    /\ UNCHANGED <<log, owner, status, runner, crashes, applied>>

\* Variant: a put that does not compare the revision.
SavePut(w) ==
    /\ g[w].pc \in {"cas", "orphanCas"}
    /\ Saved(w)

\* The transaction of trySaveShardCheckpoint finds the revision it compares.
SaveCheckpoint(w) ==
    /\ g[w].pc \in {"cas", "orphanCas"}
    /\ g[w].fresh
    /\ Saved(w)

\* It finds another one: read again, maxEtcdCheckpointRetries times in all.
SaveConflict(w) ==
    /\ g[w].pc = "cas"
    /\ ~g[w].fresh
    /\ ~Cancelled(w)
    /\ \/ /\ g[w].tries + 1 < MaxSaves
          /\ g' = [g EXCEPT ![w].pc = "get", ![w].tries = @ + 1]
          /\ UNCHANGED <<log, etcd, runner, crashes, applied, exposed>>
       \/ /\ g[w].tries + 1 = MaxSaves
          /\ UNCHANGED crashes
          /\ ProcessEnds(g[w].own.node)

\* A request of a goroutine that is cancelled, or of a process that has ended,
\* does not reach etcd.
Abandon(w) ==
    /\ \/ Orphan(w)
       \/ g[w].pc \in {"saving", "cas"} /\ Cancelled(w)
    /\ g' = [g EXCEPT ![w] = Idle]
    /\ UNCHANGED <<log, etcd, runner, crashes, applied, exposed>>

----------------------------------------------------------------------------
Goroutine(w) ==
    \/ StartShard(w) \/ CheckFence(w) \/ FenceLost(w)
    \/ LoadOrder(w) \/ ApplyFails(w) \/ SaveOrder(w)
    \/ CheckFenceAgain(w) \/ GetCheckpoint(w) \/ SaveRefused(w)
    \/ SaveCheckpoint(w) \/ SaveConflict(w) \/ Abandon(w)

Refresh(n) == RefreshStop(n) \/ RefreshStart(n)

Next ==
    \/ \E n \in Nodes : Assign(n) \/ Refresh(n) \/ Crash(n)
    \/ \E w \in Workers : Goroutine(w)

Spec == Init /\ [][Next]_vars

\* The ticker of Run and every goroutine go on; requests are answered.
Fairness == /\ \A n \in Nodes : WF_vars(Refresh(n))
            /\ \A w \in Workers : WF_vars(Goroutine(w))

FairSpec == Spec /\ Fairness

----------------------------------------------------------------------------
(* What the consumption promises.                                          *)

\* Nothing is passed over: whatever offset somebody would read from next, the
\* stored checkpoint, the memory of a process, a goroutine, every record
\* before it has been applied, although effect and checkpoint are written
\* one after the other by owners that overlap.
NoRecordPassedOver ==
    LET Done(k) == 0..k - 1 \subseteq applied
    IN  /\ Done(ckpt.offset)
        /\ \A n \in Nodes : Done(nextStep[n])
        /\ \A w \in Workers : g[w].pc # "idle" => Done(g[w].next)

\* The stored checkpoint never goes back, neither in offset nor in epoch: the
\* compare of the revision makes the test of shouldSaveShardCheckpoint hold at
\* the moment of the write, which may come from a process that has ended.
CheckpointMonotone ==
    [][ckpt'.offset >= ckpt.offset /\ ckpt'.epoch >= ckpt.epoch]_vars

\* The owner of the shard is refused its checkpoint, which ends its process,
\* only if a request of one of its predecessors has arrived since it loaded
\* it: otherwise it goes on from there, and nobody moves it under its feet.
RefusedOnlyIfOvertaken ==
    \A w \in Workers :
        /\ g[w].pc = "get"
        /\ checkFence(w)
        /\ ~shouldSaveShardCheckpoint(w)
        => g[w].overtaken

\* The status after the first k records, applied in order.
Replayed[k \in Offsets] ==
    IF k = 0 THEN "none"
    ELSE IF Ignored(log[k], [status |-> Replayed[k - 1]]) THEN Replayed[k - 1]
    ELSE StatusAfter(log[k].type)

\* Records that are applied again leave the order as if each had been applied
\* once: its status is always that of one replay of the log up to the stored
\* checkpoint, or of the record behind it.  Only two things can break it: a
\* request that arrives after its sender was replaced, the put of a state or
\* a checkpoint beyond the record that a successor has replayed last; and a
\* node that goes on from its memory, because nothing is stored, while another
\* has been replaying the log from the start.
Converges ==
    ~exposed => \E k \in {ckpt.offset, ckpt.offset + 1} \cap Offsets : status = Replayed[k]

\* The offset of the first record that cannot be applied, or the end.
Reach ==
    CHOOSE k \in Offsets :
        /\ k = LogLength \/ Unappliable(log[k + 1], Replayed[k])
        /\ \A i \in 0..k - 1 : ~Unappliable(log[i + 1], Replayed[i])

\* Once the shard has an owner, the offset it would start from comes to rest
\* behind the last record that can be applied, however often requests of
\* earlier owners get in between.  That is the stored checkpoint, or the
\* owner's memory while none is stored: a node that stops and starts a shard
\* does not store what it remembers before it has another record to apply.
\* A record that cannot be applied holds the shard up for good.
EventuallyConsumed ==
    <>[](owner.epoch > 0 => loadShardCheckpoint(owner.node) >= Reach)
=============================================================================
