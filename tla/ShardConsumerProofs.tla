------------------------ MODULE ShardConsumerProofs ------------------------
(***************************************************************************)
(* Proofs about ShardConsumer, for every number of nodes, goroutines,      *)
(* events, records, epochs and crashes.                                    *)
(***************************************************************************)
EXTENDS ShardConsumer, TLAPS

----------------------------------------------------------------------------
(* The inductive invariant                                                 *)

InTx == {"applying", "fenced", "upserted", "orphan"}
Fenced == {"fenced", "upserted", "orphan"}

\* A running goroutine was started for a node that owned the shard, under an
\* epoch etcd has reached.
RunnersOwned ==
    \A w \in Workers : /\ pc[w] # "idle" => own[w].node \in Nodes
                       /\ own[w].epoch <= owner.epoch

\* The batch of an open transaction lies inside the partition and is complete
\* before the second fence check.
BatchInLog ==
    \A w \in Workers : /\ pc[w] \in InTx => /\ cur[w] <= end[w]
                                            /\ end[w] <= Len(log)
                       /\ pc[w] \in Fenced => cur[w] = end[w]

\* Only open transactions hold inbox rows, all new and all of records the
\* goroutine has read.
RowsOfRead ==
    \A w \in Workers :
        /\ pc[w] \notin InTx => ins[w] = {}
        /\ ins[w] \cap inbox = {}
        /\ \A e \in ins[w] : \E i \in 1..cur[w] : log[i] = e

\* Whatever an open transaction has read is durable or its own.
ReadIsDone ==
    \A w \in Workers :
        pc[w] \in InTx => \A i \in 1..cur[w] : log[i] \in inbox \cup ins[w]

\* Offsets from which somebody may continue have nothing undone before them.
OffsetsCovered ==
    /\ NothingSkipped
    /\ \A w \in Workers : pc[w] = "committed" => Covered(end[w])

\* Only events of the partition are ever durable.
InboxFromLog == \A e \in inbox : \E i \in 1..Len(log) : log[i] = e

CountsMatch == \A e \in Events : applyCount[e] = IF e \in inbox THEN 1 ELSE 0

\* A transaction past its second fence check that has effects is not older
\* than the last one that committed effects.
FenceHolds ==
    /\ lastEpoch <= owner.epoch
    /\ \A w \in Workers :
        pc[w] \in Fenced /\ ins[w] # {} => lastEpoch <= own[w].epoch

Shape == TypeOK /\ RunnersOwned /\ BatchInLog

Consumption == /\ RowsOfRead
               /\ ReadIsDone
               /\ OneWriter
               /\ OffsetsCovered
               /\ InboxFromLog
               /\ CountsMatch
               /\ AppliedInLogOrder
               /\ FenceHolds

IInv == Shape /\ Consumption
----------------------------------------------------------------------------
(* Shape: types and where the offsets of a transaction lie                 *)

\* The initial state, for every part of the invariant.
LEMMA InitIInv == Init => IInv
BY NodesAssumption, BatchAssumption, BoundsAssumption
DEF Init, IInv, Shape, Consumption, InboxFromLog, TypeOK, RunnersOwned, BatchInLog, RowsOfRead, ReadIsDone,
    OneWriter, OffsetsCovered, NothingSkipped, Covered, CountsMatch, AppliedInLogOrder,
    FenceHolds, Ownerships, Checkpoints, Offsets, Epochs, PCs, InTx, Fenced

\* Every step of the runner, the goroutines and their environment keeps the
\* state well formed.
LEMMA ShapeStep == Shape /\ [Next]_vars => Shape'
<1> SUFFICES ASSUME Shape, [Next]_vars PROVE Shape'
    OBVIOUS
<1> USE DEF Shape, db, batch, bounds
<1>1. ASSUME NEW e \in Events, Produce(e) PROVE Shape'
    <2>1. log' \in Seq(Events) /\ Len(log') <= MaxLog /\ Len(log) <= Len(log') /\ Len(log) \in Nat
        BY <1>1, BoundsAssumption DEF Produce, TypeOK
    <2>2. TypeOK' /\ RunnersOwned'
        BY <1>1, <2>1 DEF Produce, TypeOK, RunnersOwned
    <2>3. \A w \in Workers : end[w] \in Nat
        BY DEF TypeOK, Offsets
    <2>4. BatchInLog'
        BY <1>1, <2>1, <2>3 DEF Produce, BatchInLog
    <2> QED BY <2>2, <2>4
<1>2. ASSUME NEW n \in Nodes, Assign(n) PROVE Shape'
    <2>1. owner' \in Ownerships /\ owner.epoch \in Nat /\ owner'.epoch = owner.epoch + 1
        BY <1>2, BoundsAssumption DEF Assign, TypeOK, Ownerships, Epochs
    <2>2. TypeOK' /\ BatchInLog'
        BY <1>2, <2>1 DEF Assign, TypeOK, BatchInLog
    <2>3. \A w \in Workers : own[w].epoch \in Nat
        BY DEF TypeOK, Ownerships, Epochs
    <2>4. RunnersOwned'
        BY <1>2, <2>1, <2>3 DEF Assign, RunnersOwned
    <2> QED BY <2>2, <2>4
<1>3. ASSUME NEW n \in Nodes, RefreshStop(n) PROVE Shape'
    <2>1. /\ pc' \in [Workers -> PCs]
          /\ \A v \in Workers : pc'[v] \in {pc[v], "idle"}
        BY <1>3 DEF RefreshStop, PcStopped, TypeOK, PCs
    <2>2. ins' \in [Workers -> SUBSET Events] /\ active' \in [Nodes -> Epochs]
        BY <1>3, BoundsAssumption DEF RefreshStop, stopShard, TypeOK, Epochs
    <2>3. TypeOK'
        BY <1>3, <2>1, <2>2 DEF RefreshStop, TypeOK
    <2>4. RunnersOwned' /\ BatchInLog'
        BY <1>3, <2>1 DEF RefreshStop, RunnersOwned, BatchInLog, InTx, Fenced
    <2> QED BY <2>3, <2>4
<1>4. ASSUME NEW w \in Workers, RefreshStart(w) PROVE Shape'
    <2>1. /\ pc' \in [Workers -> PCs]
          /\ \A v \in Workers : pc'[v] \in {pc[v], "idle"} \/ (v = w /\ pc'[v] = "starting")
        BY <1>4 DEF RefreshStart, PcStopped, TypeOK, PCs
    <2>2. ins' \in [Workers -> SUBSET Events] /\ active' \in [Nodes -> Epochs]
        <3>1. own[w].node \in Nodes
            BY <1>4 DEF RefreshStart, RunnersOwned
        <3> QED BY <1>4, <3>1, BoundsAssumption DEF RefreshStart, stopShard, TypeOK, Epochs
    <2>3. TypeOK'
        BY <1>4, <2>1, <2>2 DEF RefreshStart, TypeOK
    <2>4. RunnersOwned' /\ BatchInLog'
        BY <1>4, <2>1 DEF RefreshStart, RunnersOwned, BatchInLog, InTx, Fenced
    <2> QED BY <2>3, <2>4
<1>5. ASSUME NEW n \in Nodes, Crash(n) PROVE Shape'
    <2>1. /\ pc' \in [Workers -> PCs]
          /\ \A v \in Workers : \/ pc'[v] \in {pc[v], "idle"}
                                \/ pc[v] = "upserted" /\ pc'[v] = "orphan"
        BY <1>5 DEF Crash, TypeOK, PCs
    <2>2. /\ ins' \in [Workers -> SUBSET Events]
          /\ active' \in [Nodes -> Epochs]
          /\ nextStep' \in [Nodes -> Offsets]
          /\ crashes' \in 0..MaxCrashes
        BY <1>5, BoundsAssumption DEF Crash, TypeOK, Epochs, Offsets
    <2>3. TypeOK'
        BY <1>5, <2>1, <2>2 DEF Crash, TypeOK
    <2>4. RunnersOwned' /\ BatchInLog'
        BY <1>5, <2>1 DEF Crash, RunnersOwned, BatchInLog, InTx, Fenced
    <2> QED BY <2>3, <2>4
<1>6. ASSUME NEW w \in Workers, StartShard(w) PROVE Shape'
    <2>1. own[w].node \in Nodes /\ own[w].epoch \in Epochs
        BY <1>6 DEF StartShard, RunnersOwned, TypeOK, Ownerships
    <2>2. loadShardCheckpoint(own[w].node) \in Offsets
        BY <2>1 DEF loadShardCheckpoint, TypeOK, Checkpoints
    <2>3. TypeOK'
        BY <1>6, <2>1, <2>2 DEF StartShard, TypeOK, PCs
    <2>4. RunnersOwned' /\ BatchInLog'
        BY <1>6 DEF StartShard, RunnersOwned, BatchInLog, TypeOK, InTx, Fenced
    <2> QED BY <2>3, <2>4
<1>7. ASSUME NEW w \in Workers, NEW size \in 1..BatchSize, BeginBatch(w, size) PROVE Shape'
    <2>1. next[w] \in Nat /\ size \in Nat /\ Len(log) \in Nat /\ Len(log) <= MaxLog
        BY BatchAssumption DEF TypeOK, Offsets
    <2>2. next[w] + size <= Len(log)
        BY <1>7 DEF BeginBatch
    <2>3. next[w] + size \in Offsets /\ next[w] <= next[w] + size
        BY <2>1, <2>2, BoundsAssumption DEF Offsets
    <2>4. TypeOK'
        BY <1>7, <2>3 DEF BeginBatch, TypeOK, PCs
    <2>5. RunnersOwned'
        BY <1>7 DEF BeginBatch, RunnersOwned, TypeOK
    <2>6. BatchInLog'
        <3> SUFFICES ASSUME NEW v \in Workers
                     PROVE  /\ pc'[v] \in InTx => cur'[v] <= end'[v] /\ end'[v] <= Len(log')
                            /\ pc'[v] \in Fenced => cur'[v] = end'[v]
            BY DEF BatchInLog
        <3>1. CASE v = w
            <4>1. pc'[w] = "applying" /\ cur'[w] = next[w] /\ end'[w] = next[w] + size /\ log' = log
                BY <1>7 DEF BeginBatch, TypeOK
            <4> QED BY <2>2, <2>3, <3>1, <4>1 DEF Fenced
        <3>2. CASE v # w
            <4>1. pc'[v] = pc[v] /\ cur'[v] = cur[v] /\ end'[v] = end[v] /\ log' = log
                BY <1>7, <3>2 DEF BeginBatch, TypeOK
            <4> QED BY <4>1 DEF BatchInLog
        <3> QED BY <3>1, <3>2
    <2> QED BY <2>4, <2>5, <2>6
<1>8. ASSUME NEW w \in Workers, ApplyRecord(w) PROVE Shape'
    <2>1. /\ pc[w] = "applying"
          /\ cur[w] < end[w]
          /\ cur[w] \in Nat /\ end[w] \in Nat /\ Len(log) \in Nat
          /\ end[w] <= Len(log) /\ Len(log) <= MaxLog
        BY <1>8 DEF ApplyRecord, BatchInLog, TypeOK, Offsets, InTx
    <2>2. cur[w] + 1 \in 1..Len(log) /\ cur[w] + 1 \in Offsets /\ cur[w] + 1 <= end[w]
        BY <2>1, BoundsAssumption DEF Offsets
    <2>3. log[cur[w] + 1] \in Events
        BY <2>2 DEF TypeOK
    <2>4. TypeOK'
        BY <1>8, <2>2, <2>3 DEF ApplyRecord, TypeOK
    <2>5. RunnersOwned'
        BY <1>8 DEF ApplyRecord, RunnersOwned
    <2>6. BatchInLog'
        BY <1>8, <2>1, <2>2 DEF ApplyRecord, BatchInLog, TypeOK, InTx, Fenced
    <2> QED BY <2>4, <2>5, <2>6
<1>9. ASSUME NEW w \in Workers, CheckFenceAgain(w) PROVE Shape'
    <2>1. TypeOK'
        BY <1>9 DEF CheckFenceAgain, TypeOK, PCs
    <2>2. RunnersOwned' /\ BatchInLog'
        BY <1>9 DEF CheckFenceAgain, RunnersOwned, BatchInLog, TypeOK, InTx, Fenced
    <2> QED BY <2>1, <2>2
<1>10. ASSUME NEW w \in Workers, FenceLost(w) PROVE Shape'
    <2>1. pc' \in [Workers -> PCs] /\ ins' \in [Workers -> SUBSET Events]
        BY <1>10 DEF FenceLost, TypeOK, PCs
    <2>2. active' \in [Nodes -> Epochs]
        <3>1. 0 \in Epochs
            BY BoundsAssumption DEF Epochs
        <3>2. active \in [Nodes -> Epochs]
            BY DEF TypeOK
        <3>3. active' = [active EXCEPT ![own[w].node] = IF @ = own[w].epoch THEN 0 ELSE @]
            BY <1>10 DEF FenceLost
        <3> HIDE DEF Shape
        <3> QED BY <3>1, <3>2, <3>3
    <2>3. TypeOK'
        BY <1>10, <2>1, <2>2 DEF FenceLost, TypeOK
    <2>4. RunnersOwned' /\ BatchInLog'
        BY <1>10 DEF FenceLost, RunnersOwned, BatchInLog, TypeOK, InTx, Fenced
    <2> QED BY <2>3, <2>4
<1>11. ASSUME NEW w \in Workers, UpsertCheckpoint(w) PROVE Shape'
    <2>1. TypeOK'
        BY <1>11 DEF UpsertCheckpoint, TypeOK, PCs
    <2>2. RunnersOwned' /\ BatchInLog'
        BY <1>11 DEF UpsertCheckpoint, RunnersOwned, BatchInLog, TypeOK, InTx, Fenced
    <2> QED BY <2>1, <2>2
<1>12. ASSUME NEW w \in Workers, Commit(w) PROVE Shape'
    <2>1. ckpt' \in Checkpoints /\ lastEpoch' \in Epochs
        BY <1>12 DEF Commit, upsertShardCheckpoint, TypeOK, Checkpoints, Ownerships
    <2>2. inbox' \in SUBSET Events /\ ins' \in [Workers -> SUBSET Events]
        BY <1>12 DEF Commit, TypeOK
    <2>3. applyCount' \in [Events -> Nat]
        BY <1>12 DEF Commit, TypeOK
    <2>4. pc' \in [Workers -> PCs]
        BY <1>12 DEF Commit, TypeOK, PCs
    <2>5. TypeOK'
        BY <1>12, <2>1, <2>2, <2>3, <2>4 DEF Commit, TypeOK
    <2>6. RunnersOwned' /\ BatchInLog'
        BY <1>12 DEF Commit, HoldsCheckpoint, RunnersOwned, BatchInLog, TypeOK, InTx, Fenced
    <2> QED BY <2>5, <2>6
<1>13. ASSUME NEW w \in Workers, RememberCheckpoint(w) PROVE Shape'
    <2>1. TypeOK'
        BY <1>13 DEF RememberCheckpoint, TypeOK, PCs
    <2>2. RunnersOwned' /\ BatchInLog'
        BY <1>13 DEF RememberCheckpoint, RunnersOwned, BatchInLog, TypeOK, InTx, Fenced
    <2> QED BY <2>1, <2>2
<1>14. ASSUME NEW w \in Workers, Rollback(w) PROVE Shape'
    <2>1. TypeOK'
        BY <1>14 DEF Rollback, TypeOK, PCs
    <2>2. RunnersOwned' /\ BatchInLog'
        BY <1>14 DEF Rollback, RunnersOwned, BatchInLog, TypeOK, InTx, Fenced
    <2> QED BY <2>1, <2>2
<1>15. ASSUME NEW w \in Workers, StreamEnd(w) PROVE Shape'
    <2>1. TypeOK'
        BY <1>15, BoundsAssumption DEF StreamEnd, TypeOK, PCs
    <2>2. RunnersOwned' /\ BatchInLog'
        BY <1>15 DEF StreamEnd, RunnersOwned, BatchInLog, TypeOK, InTx, Fenced
    <2> QED BY <2>1, <2>2
<1>16. ASSUME NEW n \in Nodes, NEW w \in Workers, RefreshList(n, w) PROVE Shape'
    <2>1. /\ own' \in [Workers -> Ownerships]
          /\ \A v \in Workers : own'[v] = IF v = w THEN owner ELSE own[v]
        BY <1>16 DEF RefreshList, TypeOK
    <2>2. owner' = owner /\ owner.node \in Nodes /\ owner.epoch \in Nat
        BY <1>16 DEF RefreshList, TypeOK, Ownerships, Epochs
    <2>3. TypeOK'
        BY <1>16, <2>1 DEF RefreshList, TypeOK, PCs
    <2>4. RunnersOwned'
        BY <1>16, <2>1, <2>2 DEF RefreshList, RunnersOwned, TypeOK
    <2>5. BatchInLog'
        BY <1>16 DEF RefreshList, BatchInLog, TypeOK, InTx, Fenced
    <2> QED BY <2>3, <2>4, <2>5
<1>17. ASSUME NEW w \in Workers, RefreshKeep(w) PROVE Shape'
    <2>1. TypeOK'
        BY <1>17 DEF RefreshKeep, TypeOK, PCs
    <2>2. RunnersOwned' /\ BatchInLog'
        BY <1>17 DEF RefreshKeep, RunnersOwned, BatchInLog, TypeOK, InTx, Fenced
    <2> QED BY <2>1, <2>2
<1>18. CASE UNCHANGED vars
    BY <1>18 DEF vars, TypeOK, RunnersOwned, BatchInLog
<1> QED
    BY <1>1, <1>2, <1>3, <1>4, <1>5, <1>6, <1>7, <1>8, <1>9, <1>10, <1>11, <1>12,
       <1>13, <1>14, <1>15, <1>16, <1>17, <1>18 DEF Next, Worker, Refresh

----------------------------------------------------------------------------
(* Steps that only end goroutines or start new ones                        *)

\* Every goroutine either keeps its transaction, or has none any more.
Ends ==
    /\ UNCHANGED <<log, owner, next, cur, end, db>>
    /\ \A n \in Nodes : nextStep'[n] \in {nextStep[n], 0}
    /\ \A v \in Workers :
        \/ pc'[v] \in {"idle", "listed", "starting"} /\ ins'[v] = {}
        \/ /\ pc'[v] = pc[v] \/ (pc[v] = "upserted" /\ pc'[v] = "orphan")
           /\ ins'[v] = ins[v]
           /\ own'[v] = own[v]

\* Stopping, restarting, crashing, losing the fence, a closed stream and a
\* rollback are such steps.
LEMMA EndsSteps ==
    ASSUME Shape, RowsOfRead,
           \/ \E n \in Nodes : Refresh(n) \/ Crash(n)
           \/ \E w \in Workers : \/ RefreshKeep(w) \/ RefreshStart(w)
                                \/ FenceLost(w) \/ Rollback(w) \/ StreamEnd(w)
    PROVE  Ends
<1> USE DEF Ends, Shape, TypeOK, RowsOfRead, InTx, db, batch, bounds
<1>1. ASSUME NEW n \in Nodes, RefreshStop(n) PROVE Ends
    BY <1>1 DEF RefreshStop, stopShard, PcStopped
<1>2. ASSUME NEW w \in Workers, RefreshStart(w) PROVE Ends
    BY <1>2 DEF RefreshStart, stopShard, PcStopped, RunsOn
<1>3. ASSUME NEW n \in Nodes, Crash(n) PROVE Ends
    BY <1>3 DEF Crash
<1>4. ASSUME NEW w \in Workers, FenceLost(w) PROVE Ends
    BY <1>4 DEF FenceLost
<1>5. ASSUME NEW w \in Workers, Rollback(w) PROVE Ends
    BY <1>5 DEF Rollback
<1>6. ASSUME NEW w \in Workers, StreamEnd(w) PROVE Ends
    BY <1>6 DEF StreamEnd
<1>7. ASSUME NEW n \in Nodes, NEW w \in Workers, RefreshList(n, w) PROVE Ends
    BY <1>7 DEF RefreshList
<1>8. ASSUME NEW w \in Workers, RefreshKeep(w) PROVE Ends
    BY <1>8 DEF RefreshKeep
<1> QED BY <1>1, <1>2, <1>3, <1>4, <1>5, <1>6, <1>7, <1>8 DEF Refresh

\* They disturb no part of the invariant.
LEMMA EndsKeepsConsumption ==
    ASSUME IInv, Shape', Ends PROVE Consumption'
<1> USE DEF IInv, Consumption, Ends, db
<1>1. RowsOfRead'
    BY DEF RowsOfRead, InTx
<1>2. ReadIsDone'
    BY DEF ReadIsDone, InTx
<1>3. OneWriter'
    BY DEF OneWriter
<1>4. OffsetsCovered'
    <2>1. \A offset : Covered(offset)' <=> Covered(offset)
        BY DEF Covered
    <2>2. Covered(0)
        BY DEF Covered, Shape, TypeOK
    <2> QED BY <2>1, <2>2 DEF OffsetsCovered, NothingSkipped
<1>5. InboxFromLog' /\ CountsMatch' /\ AppliedInLogOrder'
    BY DEF InboxFromLog, CountsMatch, AppliedInLogOrder
<1>6. FenceHolds'
    BY DEF FenceHolds, Fenced
<1> QED BY <1>1, <1>2, <1>3, <1>4, <1>5, <1>6

----------------------------------------------------------------------------
(* The other steps, one lemma each                                         *)

\* A longer partition: nothing durable or read so far changes its place.
LEMMA ProduceKeepsConsumption ==
    ASSUME IInv, Shape', NEW e \in Events, Produce(e) PROVE Consumption'
<1> USE DEF IInv, Consumption
<1>1. /\ Len(log) \in Nat
      /\ Len(log') = Len(log) + 1
      /\ log'[Len(log')] = e
      /\ \A i \in 1..Len(log) : log'[i] = log[i]
    BY DEF Produce, Shape, TypeOK
<1>2. \A v \in Workers : cur[v] \in Nat /\ (pc[v] \in InTx => cur[v] <= Len(log))
    BY DEF Shape, TypeOK, BatchInLog, Offsets, InTx
<1>3. RowsOfRead'
    BY <1>1, <1>2 DEF RowsOfRead, Produce, db, batch
<1>4. ReadIsDone'
    BY <1>1, <1>2 DEF ReadIsDone, Produce, db, batch
<1>5. OneWriter' /\ CountsMatch' /\ FenceHolds'
    BY DEF OneWriter, CountsMatch, FenceHolds, Produce, db, batch
<1>6. OffsetsCovered'
    <2>1. ASSUME NEW offset \in Nat, Covered(offset) PROVE Covered(offset)'
        BY <1>1, <2>1 DEF Covered, Produce, db
    <2>2. ckpt.offset \in Nat /\ (\A n \in Nodes : nextStep[n] \in Nat)
          /\ (\A w \in Workers : next[w] \in Nat /\ end[w] \in Nat)
        BY DEF Shape, TypeOK, Offsets, Checkpoints
    <2>3. UNCHANGED <<ckpt, nextStep, next, end, pc>>
        BY DEF Produce, db, batch
    <2>4. Covered(ckpt.offset)' /\ \A n \in Nodes : Covered(nextStep[n])'
        BY <2>1, <2>2, <2>3 DEF OffsetsCovered, NothingSkipped, Covered
    <2>5. ASSUME NEW w \in Workers
          PROVE  /\ pc'[w] \in {"ready", "applying", "fenced"} => Covered(next[w])'
                 /\ pc'[w] = "committed" => Covered(end[w])'
        BY <2>1, <2>2, <2>3 DEF OffsetsCovered, NothingSkipped, Covered
    <2> QED BY <2>4, <2>5 DEF OffsetsCovered, NothingSkipped
<1>7. InboxFromLog'
    BY <1>1 DEF InboxFromLog, Produce, db
<1>8. AppliedInLogOrder'
    <2> SUFFICES ASSUME NEW i \in 1..Len(log'), NEW j \in 1..Len(log'),
                        i < j, log'[j] \in inbox, log'[i] \notin inbox
                 PROVE  \E k \in 1..i : log'[k] = log'[j]
        BY DEF AppliedInLogOrder, Produce, db
    <2>1. i \in 1..Len(log) /\ log'[i] = log[i] /\ \A k \in 1..i : log'[k] = log[k]
        BY <1>1
    <2>2. PICK m \in 1..Len(log) : log[m] = log'[j]
        BY DEF InboxFromLog
    <2>3. CASE m <= i
        BY <2>1, <2>2, <2>3
    <2>4. CASE i < m
        <3>1. PICK k \in 1..i : log[k] = log[m]
            BY <2>1, <2>2, <2>4 DEF AppliedInLogOrder
        <3> QED BY <2>1, <2>2, <3>1
    <2> QED BY <2>1, <2>3, <2>4
<1> QED BY <1>3, <1>4, <1>5, <1>6, <1>7, <1>8

\* The epoch of etcd only grows.
LEMMA AssignKeepsConsumption ==
    ASSUME IInv, Shape', NEW n \in Nodes, Assign(n) PROVE Consumption'
<1> USE DEF IInv, Consumption, Assign, db, batch
<1>1. RowsOfRead' /\ ReadIsDone' /\ OneWriter'
    BY DEF RowsOfRead, ReadIsDone, OneWriter
<1>2. OffsetsCovered'
    BY DEF OffsetsCovered, NothingSkipped, Covered
<1>3. InboxFromLog' /\ CountsMatch' /\ AppliedInLogOrder'
    BY DEF InboxFromLog, CountsMatch, AppliedInLogOrder
<1>4. FenceHolds'
    BY DEF FenceHolds, Shape, TypeOK, Ownerships, Epochs
<1> QED BY <1>1, <1>2, <1>3, <1>4

\* A goroutine starts where everything before is durable.
LEMMA StartKeepsConsumption ==
    ASSUME IInv, Shape', NEW w \in Workers, StartShard(w) PROVE Consumption'
<1> USE DEF IInv, Consumption, StartShard, db, batch
<1>1. RowsOfRead' /\ ReadIsDone' /\ OneWriter'
    BY DEF RowsOfRead, ReadIsDone, OneWriter, InTx, Shape, TypeOK
<1>2. OffsetsCovered'
    <2>1. \A offset : Covered(offset)' <=> Covered(offset)
        BY DEF Covered
    <2>2. own[w].node \in Nodes
        BY DEF Shape, RunnersOwned
    <2>3. Covered(loadShardCheckpoint(own[w].node))
        BY <2>2 DEF OffsetsCovered, NothingSkipped, loadShardCheckpoint
    <2>4. \A n \in Nodes : nextStep'[n] \in {nextStep[n], loadShardCheckpoint(own[w].node)}
        BY DEF Shape, TypeOK
    <2>5. \A v \in Workers : \/ v # w /\ next'[v] = next[v] /\ pc'[v] = pc[v]
                             \/ v = w /\ next'[v] = loadShardCheckpoint(own[w].node) /\ pc'[v] = "ready"
        BY DEF Shape, TypeOK
    <2> QED BY <2>1, <2>3, <2>4, <2>5 DEF OffsetsCovered, NothingSkipped
<1>3. InboxFromLog' /\ CountsMatch' /\ AppliedInLogOrder'
    BY DEF InboxFromLog, CountsMatch, AppliedInLogOrder
<1>4. FenceHolds'
    BY DEF FenceHolds, Fenced, Shape, TypeOK
<1> QED BY <1>1, <1>2, <1>3, <1>4

\* A batch begins where everything before is durable, with no rows of its own.
LEMMA BeginKeepsConsumption ==
    ASSUME IInv, Shape', NEW w \in Workers, NEW size \in 1..BatchSize, BeginBatch(w, size)
    PROVE  Consumption'
<1> USE DEF IInv, Consumption, BeginBatch, db, batch
<1>1. \A v \in Workers : \/ v # w /\ pc'[v] = pc[v] /\ cur'[v] = cur[v] /\ end'[v] = end[v]
                         \/ v = w /\ pc'[v] = "applying" /\ cur'[v] = next[w]
    BY DEF Shape, TypeOK
<1>2. ins[w] = {}
    BY DEF RowsOfRead, InTx
<1>3. RowsOfRead'
    BY <1>1, <1>2 DEF RowsOfRead, InTx
<1>4. ReadIsDone'
    BY <1>1 DEF ReadIsDone, OffsetsCovered, NothingSkipped, Covered, InTx
<1>5. OneWriter'
    BY DEF OneWriter
<1>6. OffsetsCovered'
    BY <1>1 DEF OffsetsCovered, NothingSkipped, Covered
<1>7. InboxFromLog' /\ CountsMatch' /\ AppliedInLogOrder'
    BY DEF InboxFromLog, CountsMatch, AppliedInLogOrder
<1>8. FenceHolds'
    BY <1>1 DEF FenceHolds, Fenced
<1> QED BY <1>3, <1>4, <1>5, <1>6, <1>7, <1>8

\* A new inbox row is always the first undone record of the partition, so no
\* other transaction can hold one.
LEMMA ApplyKeepsConsumption ==
    ASSUME IInv, Shape', NEW w \in Workers, ApplyRecord(w) PROVE Consumption'
<1> DEFINE e == log[cur[w] + 1]
<1> USE DEF IInv, Consumption
<1>1. /\ UNCHANGED <<log, owner, nextStep, pc, own, next, end, db>>
      /\ \A v \in Workers : v # w => ins'[v] = ins[v] /\ cur'[v] = cur[v]
      /\ ins'[w] = ins[w] \cup ({e} \ inbox)
      /\ cur'[w] = cur[w] + 1
    BY DEF ApplyRecord, Shape, TypeOK
<1>2. /\ pc[w] = "applying"
      /\ \A v \in Workers : v # w => e \notin ins[v]
    BY DEF ApplyRecord
<1>3. \A v \in Workers : cur[v] \in Nat
    BY DEF Shape, TypeOK, Offsets
<1>4. RowsOfRead'
    <2> SUFFICES ASSUME NEW v \in Workers
                 PROVE  /\ pc'[v] \notin InTx => ins'[v] = {}
                        /\ ins'[v] \cap inbox' = {}
                        /\ \A f \in ins'[v] : \E i \in 1..cur'[v] : log'[i] = f
        BY DEF RowsOfRead
    <2>1. CASE v # w
        BY <1>1, <2>1 DEF RowsOfRead, db
    <2>2. CASE v = w
        <3>1. cur[w] + 1 \in 1..cur'[w] /\ 1..cur[w] \subseteq 1..cur'[w]
            BY <1>1, <1>3
        <3> QED BY <1>1, <1>2, <2>2, <3>1 DEF RowsOfRead, InTx, db
    <2> QED BY <2>1, <2>2
<1>5. ReadIsDone'
    <2> SUFFICES ASSUME NEW v \in Workers, pc[v] \in InTx, NEW i \in 1..cur'[v]
                 PROVE  log[i] \in inbox \cup ins'[v]
        BY <1>1 DEF ReadIsDone, db
    <2>1. CASE v # w
        BY <1>1, <2>1 DEF ReadIsDone
    <2>2. CASE v = w /\ i \in 1..cur[w]
        BY <1>1, <2>2 DEF ReadIsDone
    <2>3. CASE v = w /\ i = cur[w] + 1
        BY <1>1, <2>3
    <2> QED BY <1>1, <1>3, <2>1, <2>2, <2>3
<1>6. OneWriter'
    <2>1. CASE e \in inbox
        BY <1>1, <2>1 DEF OneWriter
    <2>2. CASE e \notin inbox
        <3> SUFFICES ASSUME NEW v \in Workers, v # w, NEW f \in ins[v] PROVE FALSE
            BY <1>1 DEF OneWriter
        <3>1. PICK j \in 1..cur[v] : log[j] = f
            BY DEF RowsOfRead
        <3>2. pc[v] \in InTx /\ f \notin inbox
            BY DEF RowsOfRead
        <3>3. CASE j \in 1..cur[w]
            <4>1. f \in ins[w]
                BY <1>2, <3>1, <3>2, <3>3 DEF ReadIsDone, InTx
            <4> QED BY <4>1 DEF OneWriter
        <3>4. CASE cur[w] + 1 \in 1..cur[v]
            BY <1>2, <2>2, <3>2, <3>4 DEF ReadIsDone
        <3> QED BY <1>3, <3>1, <3>3, <3>4
    <2> QED BY <2>1, <2>2
<1>7. OffsetsCovered'
    BY <1>1 DEF OffsetsCovered, NothingSkipped, Covered, db
<1>8. InboxFromLog' /\ CountsMatch' /\ AppliedInLogOrder'
    BY <1>1 DEF InboxFromLog, CountsMatch, AppliedInLogOrder, db
<1>9. FenceHolds'
    BY <1>1, <1>2 DEF FenceHolds, Fenced, db
<1> QED BY <1>4, <1>5, <1>6, <1>7, <1>8, <1>9

\* Past the fence check the goroutine has etcd's current epoch.
LEMMA CheckKeepsConsumption ==
    ASSUME IInv, Shape', NEW w \in Workers, CheckFenceAgain(w) \/ UpsertCheckpoint(w)
    PROVE  Consumption'
<1> USE DEF IInv, Consumption, CheckFenceAgain, UpsertCheckpoint, db, batch
<1>1. /\ UNCHANGED <<log, owner, nextStep, own, next, cur, end, ins, db>>
      /\ \A v \in Workers : v # w => pc'[v] = pc[v]
      /\ \/ pc[w] = "applying" /\ pc'[w] = "fenced" /\ owner = own[w]
         \/ pc[w] = "fenced" /\ pc'[w] = "upserted"
    BY DEF Shape, TypeOK, checkFence
<1> HIDE DEF CheckFenceAgain, UpsertCheckpoint
<1>2. RowsOfRead' /\ ReadIsDone' /\ OneWriter'
    BY <1>1 DEF RowsOfRead, ReadIsDone, OneWriter, InTx
<1>3. OffsetsCovered'
    BY <1>1 DEF OffsetsCovered, NothingSkipped, Covered
<1>4. InboxFromLog' /\ CountsMatch' /\ AppliedInLogOrder'
    BY <1>1 DEF InboxFromLog, CountsMatch, AppliedInLogOrder
<1>5. FenceHolds'
    BY <1>1 DEF FenceHolds, Fenced
<1> QED BY <1>2, <1>3, <1>4, <1>5

\* The effects of a whole batch become durable; no other transaction has any.
LEMMA CommitKeepsConsumption ==
    ASSUME IInv, Shape', NEW w \in Workers, Commit(w) PROVE Consumption'
<1> USE DEF IInv, Consumption
<1>1. /\ UNCHANGED <<log, owner, nextStep, own, next, cur, end>>
      /\ \A v \in Workers : v # w => ins'[v] = ins[v] /\ pc'[v] = pc[v]
      /\ ins'[w] = {}
      /\ pc'[w] \in {"idle", "committed"}
      /\ inbox' = inbox \cup ins[w]
    BY DEF Commit, Shape, TypeOK
<1>2. /\ pc[w] \in {"upserted", "orphan"}
      /\ cur[w] = end[w]
      /\ cur[w] \in Nat
      /\ cur[w] <= Len(log)
      /\ Len(log) \in Nat
    BY DEF Commit, HoldsCheckpoint, Shape, TypeOK, Offsets, BatchInLog, Fenced, InTx
<1>3. \A v \in Workers : v # w /\ ins[w] # {} => ins[v] = {}
    BY DEF OneWriter
<1>4. \A i \in 1..cur[w] : log[i] \in inbox'
    BY <1>1, <1>2 DEF ReadIsDone, InTx
<1>5. RowsOfRead'
    BY <1>1, <1>3 DEF RowsOfRead, InTx
<1>6. ReadIsDone'
    BY <1>1 DEF ReadIsDone, InTx
<1>7. OneWriter'
    BY <1>1 DEF OneWriter
<1>8. OffsetsCovered'
    <2>1. \A offset : Covered(offset) => Covered(offset)'
        BY <1>1 DEF Covered
    <2>2. Covered(end[w])'
        BY <1>1, <1>2, <1>4 DEF Covered
    <2>3. ckpt'.offset \in {ckpt.offset, end[w]}
        BY DEF Commit, upsertShardCheckpoint
    <2>4. Covered(ckpt.offset)'
        <3>1. CASE ckpt'.offset = ckpt.offset
            <4>1. Covered(ckpt.offset)
                BY DEF OffsetsCovered, NothingSkipped
            <4> QED BY <1>1, <3>1, <4>1 DEF Covered
        <3>2. CASE ckpt'.offset = end[w]
            BY <1>1, <1>2, <1>4, <3>2 DEF Covered
        <3> QED BY <2>3, <3>1, <3>2
    <2>5. \A n \in Nodes : Covered(nextStep[n])'
        <3> TAKE n \in Nodes
        <3>1. Covered(nextStep[n])
            BY DEF OffsetsCovered, NothingSkipped
        <3> QED BY <1>1, <3>1 DEF Covered
    <2>6. ASSUME NEW v \in Workers
          PROVE  /\ pc'[v] \in {"ready", "applying", "fenced"} => Covered(next[v])'
                 /\ pc'[v] = "committed" => Covered(end[v])'
        BY <1>1, <2>1, <2>2 DEF OffsetsCovered, NothingSkipped, Covered
    <2> QED BY <2>4, <2>5, <2>6 DEF OffsetsCovered, NothingSkipped
<1>9. InboxFromLog'
    <2> SUFFICES ASSUME NEW e \in ins[w] PROVE \E i \in 1..Len(log) : log[i] = e
        BY <1>1 DEF InboxFromLog
    <2>1. PICK i \in 1..cur[w] : log[i] = e
        BY DEF RowsOfRead
    <2> QED BY <1>2, <2>1
<1>10. CountsMatch'
    <2> SUFFICES ASSUME NEW e \in Events PROVE applyCount'[e] = IF e \in inbox' THEN 1 ELSE 0
        BY DEF CountsMatch
    <2>1. applyCount'[e] = IF e \in ins[w] THEN applyCount[e] + 1 ELSE applyCount[e]
        BY DEF Commit
    <2>2. e \in ins[w] => e \notin inbox
        BY DEF RowsOfRead
    <2> QED BY <1>1, <2>1, <2>2 DEF CountsMatch
<1>11. AppliedInLogOrder'
    <2> SUFFICES ASSUME NEW i \in 1..Len(log), NEW j \in 1..Len(log),
                        i < j, log[j] \in inbox', log[i] \notin inbox'
                 PROVE  \E k \in 1..i : log[k] = log[j]
        BY <1>1 DEF AppliedInLogOrder
    <2>1. CASE log[j] \in inbox
        BY <1>1, <2>1 DEF AppliedInLogOrder
    <2>2. CASE log[j] \in ins[w]
        <3>1. PICK k \in 1..cur[w] : log[k] = log[j]
            BY <2>2 DEF RowsOfRead
        <3>2. i \notin 1..cur[w]
            BY <1>4
        <3> QED BY <1>2, <3>1, <3>2
    <2> QED BY <1>1, <2>1, <2>2
<1>12. FenceHolds'
    <2>1. lastEpoch' = IF ins[w] = {} THEN lastEpoch ELSE own[w].epoch
        BY DEF Commit
    <2>2. own[w].epoch <= owner.epoch
        BY DEF Shape, RunnersOwned
    <2>3. \A v \in Workers : pc'[v] \in Fenced /\ ins'[v] # {} =>
            v # w /\ pc[v] \in Fenced /\ ins[v] # {} /\ ins[w] = {}
        BY <1>1, <1>3 DEF Fenced
    <2> QED BY <1>1, <2>1, <2>2, <2>3 DEF FenceHolds
<1> QED BY <1>5, <1>6, <1>7, <1>8, <1>9, <1>10, <1>11, <1>12

\* The next batch begins after the committed one.
LEMMA RememberKeepsConsumption ==
    ASSUME IInv, Shape', NEW w \in Workers, RememberCheckpoint(w) PROVE Consumption'
<1> USE DEF IInv, Consumption, db, batch
<1>1. /\ UNCHANGED <<log, owner, own, cur, end, ins, db>>
      /\ \A v \in Workers : v # w => next'[v] = next[v] /\ pc'[v] = pc[v]
      /\ next'[w] = end[w]
      /\ pc[w] = "committed"
      /\ pc'[w] \in {"ready", "idle"}
      /\ \A n \in Nodes : nextStep'[n] \in {nextStep[n], end[w]}
    BY DEF RememberCheckpoint, Shape, TypeOK
<1>2. RowsOfRead' /\ ReadIsDone' /\ OneWriter'
    BY <1>1 DEF RowsOfRead, ReadIsDone, OneWriter, InTx
<1>3. OffsetsCovered'
    <2>1. \A offset : Covered(offset)' <=> Covered(offset)
        BY <1>1 DEF Covered
    <2>2. Covered(end[w])
        BY <1>1 DEF OffsetsCovered
    <2> QED BY <1>1, <2>1, <2>2 DEF OffsetsCovered, NothingSkipped
<1>4. InboxFromLog' /\ CountsMatch' /\ AppliedInLogOrder'
    BY <1>1 DEF InboxFromLog, CountsMatch, AppliedInLogOrder
<1>5. FenceHolds'
    BY <1>1 DEF FenceHolds, Fenced
<1> QED BY <1>2, <1>3, <1>4, <1>5

----------------------------------------------------------------------------
(* The invariant and what follows from it                                  *)

\* No step leaves the inductive invariant.
LEMMA NextIInv == IInv /\ [Next]_vars => IInv'
<1> SUFFICES ASSUME IInv, [Next]_vars PROVE IInv'
    OBVIOUS
<1>0. Shape'
    BY ShapeStep DEF IInv
<1>1. CASE UNCHANGED vars
    <2>1. Ends
        BY <1>1 DEF Ends, vars, db, batch
    <2> QED BY <1>0, <2>1, EndsKeepsConsumption DEF IInv
<1>2. CASE \E e \in Events : Produce(e)
    BY <1>0, <1>2, ProduceKeepsConsumption DEF IInv
<1>3. CASE \E n \in Nodes : Assign(n)
    BY <1>0, <1>3, AssignKeepsConsumption DEF IInv
<1>4. CASE \/ \E n \in Nodes : Refresh(n) \/ Crash(n)
           \/ \E w \in Workers : \/ RefreshKeep(w) \/ RefreshStart(w)
                                \/ FenceLost(w) \/ Rollback(w) \/ StreamEnd(w)
    <2>1. Ends
        BY <1>4, EndsSteps DEF IInv, Consumption
    <2> QED BY <1>0, <2>1, EndsKeepsConsumption DEF IInv
<1>5. ASSUME NEW w \in Workers, StartShard(w) PROVE IInv'
    BY <1>0, <1>5, StartKeepsConsumption DEF IInv
<1>6. ASSUME NEW w \in Workers, NEW size \in 1..BatchSize, BeginBatch(w, size) PROVE IInv'
    BY <1>0, <1>6, BeginKeepsConsumption DEF IInv
<1>7. ASSUME NEW w \in Workers, ApplyRecord(w) PROVE IInv'
    BY <1>0, <1>7, ApplyKeepsConsumption DEF IInv
<1>8. ASSUME NEW w \in Workers, CheckFenceAgain(w) \/ UpsertCheckpoint(w) PROVE IInv'
    BY <1>0, <1>8, CheckKeepsConsumption DEF IInv
<1>9. ASSUME NEW w \in Workers, Commit(w) PROVE IInv'
    BY <1>0, <1>9, CommitKeepsConsumption DEF IInv
<1>10. ASSUME NEW w \in Workers, RememberCheckpoint(w) PROVE IInv'
    BY <1>0, <1>10, RememberKeepsConsumption DEF IInv
<1> QED BY <1>1, <1>2, <1>3, <1>4, <1>5, <1>6, <1>7, <1>8, <1>9, <1>10 DEF Next, Worker

\* The inductive invariant holds in every reachable state.
THEOREM Invariance == Spec => []IInv
BY InitIInv, NextIInv, PTL DEF Spec

\* Every variable keeps its type.
THEOREM TypeCorrect == Spec => []TypeOK
<1>1. IInv => TypeOK
    BY DEF IInv, Shape
<1> QED BY <1>1, Invariance, PTL

\* The effects of an event are committed at most once.
THEOREM AtMostOnce == Spec => []AppliedAtMostOnce
<1>1. IInv => AppliedAtMostOnce
    BY DEF IInv, Consumption, CountsMatch, AppliedAtMostOnce
<1> QED BY <1>1, Invariance, PTL

\* No checkpoint, cached offset or reading position has an unapplied record
\* before it.
THEOREM NoGap == Spec => []NothingSkipped
<1>1. IInv => NothingSkipped
    BY DEF IInv, Consumption, OffsetsCovered
<1> QED BY <1>1, Invariance, PTL

\* Events take effect in the order of the partition.
THEOREM LogOrder == Spec => []AppliedInLogOrder
<1>1. IInv => AppliedInLogOrder
    BY DEF IInv, Consumption
<1> QED BY <1>1, Invariance, PTL

\* At most one open transaction of the shard has effects.
THEOREM SingleWriter == Spec => []OneWriter
<1>1. IInv => OneWriter
    BY DEF IInv, Consumption
<1> QED BY <1>1, Invariance, PTL

\* No commit of an older epoch has effects after one of a newer epoch had.
THEOREM Fencing == Spec => FencedOrder
<1>1. IInv /\ [Next]_vars => [lastEpoch' >= lastEpoch]_vars
    <2> SUFFICES ASSUME IInv, Next PROVE lastEpoch' >= lastEpoch
        OBVIOUS
    <2>1. lastEpoch \in Nat
        BY DEF IInv, Shape, TypeOK, Epochs
    <2>2. ASSUME NEW w \in Workers, Commit(w) PROVE lastEpoch' >= lastEpoch
        <3>1. ins[w] # {} => lastEpoch <= own[w].epoch
            BY <2>2 DEF Commit, HoldsCheckpoint, IInv, Consumption, FenceHolds, Fenced
        <3>2. own[w].epoch \in Nat
            BY DEF IInv, Shape, TypeOK, Ownerships, Epochs
        <3> QED BY <2>1, <2>2, <3>1, <3>2 DEF Commit
    <2>3. CASE ~ \E w \in Workers : Commit(w)
        <3>1. lastEpoch' = lastEpoch
            BY <2>3 DEF Next, Worker, Refresh, Produce, Assign, RefreshStop, RefreshList, RefreshKeep, RefreshStart,
               Crash, StreamEnd, StartShard, BeginBatch, ApplyRecord, CheckFenceAgain,
               FenceLost, UpsertCheckpoint, RememberCheckpoint, Rollback, db
        <3> QED BY <2>1, <3>1
    <2> QED BY <2>2, <2>3
<1> QED BY <1>1, Invariance, PTL DEF Spec, FencedOrder

\* The checkpoint row never returns to an older epoch.
THEOREM CheckpointEpochs == Spec => CheckpointEpochMonotone
<1>1. IInv /\ [Next]_vars => [ckpt'.epoch >= ckpt.epoch]_vars
    <2> SUFFICES ASSUME IInv, Next PROVE ckpt'.epoch >= ckpt.epoch
        OBVIOUS
    <2>1. ckpt.epoch \in Nat /\ \A w \in Workers : own[w].epoch \in Nat
        BY DEF IInv, Shape, TypeOK, Checkpoints, Ownerships, Epochs
    <2>2. ASSUME NEW w \in Workers, Commit(w) PROVE ckpt'.epoch >= ckpt.epoch
        BY <2>1, <2>2 DEF Commit, upsertShardCheckpoint
    <2>3. CASE ~ \E w \in Workers : Commit(w)
        <3>1. ckpt' = ckpt
            BY <2>3 DEF Next, Worker, Refresh, Produce, Assign, RefreshStop, RefreshList, RefreshKeep, RefreshStart,
               Crash, StreamEnd, StartShard, BeginBatch, ApplyRecord, CheckFenceAgain,
               FenceLost, UpsertCheckpoint, RememberCheckpoint, Rollback, db
        <3> QED BY <2>1, <3>1
    <2> QED BY <2>2, <2>3
<1> QED BY <1>1, Invariance, PTL DEF Spec, CheckpointEpochMonotone

----------------------------------------------------------------------------
(* Refinement                                                              *)

\* All owners of the shard together implement one serial consumer.
THEOREM Refinement == Spec => ImplementsSerialConsumer
<1>1. Init => Serial!Init
    BY DEF Init, Serial!Init
<1>2. IInv /\ [Next]_vars => [Serial!Next]_(Serial!vars)
    <2> SUFFICES ASSUME IInv, [Next]_vars PROVE [Serial!Next]_(Serial!vars)
        OBVIOUS
    <2>1. ASSUME NEW e \in Events, Produce(e) PROVE Serial!Next
        BY <2>1 DEF Produce, Serial!Next, Serial!Produce, db
    <2>2. ASSUME NEW w \in Workers, Commit(w), ins[w] # {} PROVE Serial!Next
        <3>1. /\ pc[w] \in Fenced
              /\ pc[w] \in InTx
              /\ cur[w] = end[w]
              /\ cur[w] \in Nat
              /\ cur[w] <= Len(log)
              /\ Len(log) \in Nat
            BY <2>2 DEF Commit, HoldsCheckpoint, IInv, Shape, TypeOK, Offsets, BatchInLog, Fenced, InTx
        <3>2. /\ \A i \in 1..cur[w] : log[i] \in inbox \cup ins[w]
              /\ \A e \in ins[w] : \E i \in 1..cur[w] : log[i] = e
              /\ ins[w] \cap inbox = {}
            BY <3>1 DEF IInv, Consumption, ReadIsDone, RowsOfRead
        <3>3. cur[w] \in 1..Len(log)
            BY <2>2, <3>1, <3>2
        <3>4. inbox' = inbox \cup {log[i] : i \in 1..cur[w]}
            BY <2>2, <3>2 DEF Commit
        <3>5. inbox' # inbox
            BY <2>2, <3>2 DEF Commit
        <3>6. lastEpoch <= own[w].epoch /\ own[w].epoch \in Nat
            BY <2>2, <3>1 DEF IInv, Shape, TypeOK, Ownerships, Epochs, Consumption, FenceHolds
        <3>7. lastEpoch' = own[w].epoch /\ log' = log
            BY <2>2 DEF Commit
        <3> QED BY <3>3, <3>4, <3>5, <3>6, <3>7 DEF Serial!Next, Serial!Consume
    <2>3. ASSUME NEW w \in Workers, Commit(w), ins[w] = {} PROVE UNCHANGED Serial!vars
        BY <2>3 DEF Commit, Serial!vars
    <2>4. CASE UNCHANGED vars
        BY <2>4 DEF vars, db, Serial!vars
    <2>5. CASE /\ Next
               /\ ~ \E w \in Workers : Commit(w)
               /\ ~ \E e \in Events : Produce(e)
        BY <2>5 DEF Next, Worker, Refresh, Assign, RefreshStop, RefreshList, RefreshKeep, RefreshStart,
           Crash, StreamEnd, StartShard, BeginBatch, ApplyRecord, CheckFenceAgain,
           FenceLost, UpsertCheckpoint, RememberCheckpoint, Rollback, db, Serial!vars
    <2> QED BY <2>1, <2>2, <2>3, <2>4, <2>5
<1> QED BY <1>1, <1>2, Invariance, PTL DEF Spec, ImplementsSerialConsumer, Serial!Spec
============================================================================
