------------------------ MODULE DirectConsumerProofs ------------------------
(***************************************************************************)
(* Proofs about DirectConsumer, for any nodes, goroutines, events and      *)
(* bounds.                                                                 *)
(***************************************************************************)
EXTENDS DirectConsumer, WellFoundedInduction, TLAPS

----------------------------------------------------------------------------
(* The inductive invariant                                                 *)

Live(w) == g[w].pc # "idle" /\ ~Orphan(w)

\* The goroutine of the present owner, once it has loaded the checkpoint.
Current(w) == Live(w) /\ g[w].own = owner

\* Nobody has an epoch beyond the owner's, and nothing is stored without one.
Stored ==
    /\ owner.node \in Nodes => owner.epoch >= 1
    /\ ckpt.epoch <= owner.epoch
    /\ ckpt.epoch = 0 => ckpt.offset = 0

\* What a goroutine knows of its record at each of its steps.
Progress ==
    \A w \in Workers :
        /\ g[w].pc # "idle" => /\ g[w].own.node \in Nodes
                               /\ g[w].own.epoch \in 1..owner.epoch
        /\ g[w].pc \notin {"idle", "starting", "ready"} => g[w].next < LogLength
        /\ g[w].pc \in {"applied", "get", "cas", "orphanCas"} => g[w].next \in applied

\* A checkpoint that is still the one read may be replaced.
Fresh ==
    \A w \in Workers :
        g[w].fresh => g[w].pc \in {"cas", "orphanCas"} /\ shouldSaveShardCheckpoint(w)

\* The owner's goroutine is the one in active, and at the stored checkpoint
\* or beyond, unless it was overtaken.
Owned ==
    \A w \in Workers :
        Current(w) /\ g[w].pc # "starting" =>
            /\ active[g[w].own.node] = g[w].own.epoch
            /\ ~g[w].overtaken => ckpt.offset <= g[w].next

\* There is one such goroutine, and none beside one that is being started.
Alone ==
    \A v, w \in Workers :
        /\ Current(v)
        /\ Live(w)
        /\ g[w].own = owner \/ (g[w].pc = "starting" /\ g[w].own.node = owner.node)
        => v = w

IInv == TypeOK /\ Stored /\ Progress /\ Fresh /\ Owned /\ Alone /\ NoRecordPassedOver

----------------------------------------------------------------------------
(* Goroutines                                                              *)

LEMMA IdleType == Idle \in Goroutines
BY NodesAssumption, BoundsAssumption DEF Idle, Goroutines, PCs, Ownerships, Offsets

\* The fields of a goroutine.
LEMMA Fields ==
    ASSUME TypeOK, NEW w \in Workers
    PROVE  /\ g[w] \in Goroutines
           /\ g[w].pc \in PCs
           /\ g[w].own \in Ownerships
           /\ g[w].own.node \in Nodes \cup {NoNode}
           /\ g[w].own.epoch \in 0..MaxEpoch
           /\ g[w].next \in 0..LogLength
           /\ g[w].fresh \in BOOLEAN
           /\ g[w].tries \in 0..MaxSaves - 1
           /\ g[w].overtaken \in BOOLEAN
BY DEF TypeOK, Goroutines, Ownerships, Offsets

\* A step to another place in the code.
LEMMA GotoFields ==
    ASSUME TypeOK, NEW w \in Workers, NEW pc \in PCs, g' = Goto(w, pc)
    PROVE  /\ g' \in [Workers -> Goroutines]
           /\ \A v \in Workers : v # w => g'[v] = g[v]
           /\ g'[w].pc = pc
           /\ g'[w].own = g[w].own
           /\ g'[w].next = g[w].next
           /\ g'[w].fresh = g[w].fresh
           /\ g'[w].overtaken = g[w].overtaken
<1>1. g[w] \in Goroutines /\ g \in [Workers -> Goroutines]
  BY DEF TypeOK
<1>2. g' = [g EXCEPT ![w] = [g[w] EXCEPT !.pc = pc]]
  BY DEF Goto
<1>3. [g[w] EXCEPT !.pc = pc] \in Goroutines
  BY <1>1 DEF Goroutines
<1> QED
  BY <1>1, <1>2, <1>3 DEF Goroutines

\* A goroutine that returns.
LEMMA IdleFields ==
    ASSUME TypeOK, NEW w \in Workers, g' = [g EXCEPT ![w] = Idle]
    PROVE  /\ g' \in [Workers -> Goroutines]
           /\ \A v \in Workers : v # w => g'[v] = g[v]
           /\ g'[w] = Idle
BY IdleType DEF TypeOK

LEMMA IdleIs ==
    /\ Idle.pc = "idle"
    /\ Idle.next = 0
    /\ Idle.fresh = FALSE
BY DEF Idle

----------------------------------------------------------------------------
(* What ends a process                                                     *)

LEMMA EndFields ==
    ASSUME TypeOK, NEW n \in Nodes, ProcessEnds(n)
    PROVE  /\ g' \in [Workers -> Goroutines]
           /\ \A w \in Workers :
                \/ ~RunsOn(w, n) /\ g'[w] = g[w]
                \/ RunsOn(w, n) /\ g'[w] = Idle
                \/ /\ RunsOn(w, n)
                   /\ \/ g[w].pc = "saving" /\ g'[w].pc = "orphanSave"
                      \/ g[w].pc = "cas" /\ g'[w].pc = "orphanCas"
                   /\ g'[w].own = g[w].own
                   /\ g'[w].next = g[w].next
                   /\ g'[w].fresh = g[w].fresh
<1> SUFFICES ASSUME NEW w \in Workers
             PROVE  /\ g'[w] \in Goroutines
                    /\ \/ ~RunsOn(w, n) /\ g'[w] = g[w]
                       \/ RunsOn(w, n) /\ g'[w] = Idle
                       \/ /\ RunsOn(w, n)
                          /\ \/ g[w].pc = "saving" /\ g'[w].pc = "orphanSave"
                             \/ g[w].pc = "cas" /\ g'[w].pc = "orphanCas"
                          /\ g'[w].own = g[w].own
                          /\ g'[w].next = g[w].next
                          /\ g'[w].fresh = g[w].fresh
  BY DEF ProcessEnds
<1>1. g[w] \in Goroutines
  BY DEF TypeOK
<1>2. CASE ~RunsOn(w, n)
  BY <1>1, <1>2 DEF ProcessEnds
<1>3. CASE RunsOn(w, n) /\ g[w].pc = "saving"
  <2>1. g'[w] = [g[w] EXCEPT !.pc = "orphanSave"]
    BY <1>3 DEF ProcessEnds
  <2> QED
    BY <1>1, <1>3, <2>1 DEF Goroutines, PCs
<1>4. CASE RunsOn(w, n) /\ g[w].pc = "cas"
  <2>1. g'[w] = [g[w] EXCEPT !.pc = "orphanCas"]
    BY <1>4 DEF ProcessEnds
  <2> QED
    BY <1>1, <1>4, <2>1 DEF Goroutines, PCs
<1>5. CASE RunsOn(w, n) /\ g[w].pc # "saving" /\ g[w].pc # "cas"
  BY <1>5, IdleType DEF ProcessEnds
<1> QED
  BY <1>2, <1>3, <1>4, <1>5

LEMMA ProcessEndsKeeps ==
    ASSUME IInv, NEW n \in Nodes, ProcessEnds(n), crashes' \in 0..MaxCrashes
    PROVE  IInv'
<1>1. TypeOK'
  <2>1. active' \in [Nodes -> 0..MaxEpoch] /\ nextStep' \in [Nodes -> Offsets]
    BY BoundsAssumption DEF IInv, TypeOK, ProcessEnds, Offsets
  <2> QED
    BY <2>1, EndFields DEF IInv, TypeOK, ProcessEnds, etcd
<1>2. Stored'
  BY DEF IInv, Stored, ProcessEnds, etcd
<1>3. Progress'
  BY EndFields, IdleIs DEF IInv, Progress, ProcessEnds, etcd
<1>4. Fresh'
  BY EndFields, IdleIs DEF IInv, Fresh, ProcessEnds, etcd, shouldSaveShardCheckpoint
<1>5. \A w \in Workers : Live(w)' => g'[w] = g[w] /\ ~RunsOn(w, n) /\ Live(w)
  BY EndFields, IdleIs DEF IInv, Live, Orphan
<1>6. Owned'
  <2> SUFFICES ASSUME NEW w \in Workers, Current(w)', g'[w].pc # "starting"
               PROVE  /\ active'[g'[w].own.node] = g'[w].own.epoch
                      /\ ~g'[w].overtaken => ckpt'.offset <= g'[w].next
    BY DEF Owned
  <2>1. g'[w] = g[w] /\ Current(w) /\ g[w].own.node # n /\ g[w].own.node \in Nodes
    BY <1>5 DEF IInv, Current, RunsOn, Live, ProcessEnds, etcd, Progress
  <2> QED
    BY <2>1 DEF IInv, Owned, ProcessEnds, etcd, TypeOK
<1>7. Alone'
  BY <1>5 DEF IInv, Alone, Current, ProcessEnds, etcd
<1>8. NoRecordPassedOver'
  BY EndFields, IdleIs DEF IInv, NoRecordPassedOver, ProcessEnds, etcd, TypeOK
<1> QED
  BY <1>1, <1>2, <1>3, <1>4, <1>6, <1>7, <1>8 DEF IInv

----------------------------------------------------------------------------
(* The other steps                                                         *)

LEMMA AssignKeeps ==
    ASSUME IInv, NEW n \in Nodes, Assign(n)
    PROVE  IInv'
<1>1. owner'.node = n /\ owner'.epoch = owner.epoch + 1 /\ owner' \in Ownerships
  BY BoundsAssumption DEF IInv, TypeOK, Assign, Ownerships
<1>2. owner.epoch \in Nat /\ ckpt.epoch \in Nat /\ ckpt.offset \in Nat
  BY BoundsAssumption DEF IInv, TypeOK, Ownerships, Checkpoints, Offsets
<1>3. TypeOK'
  BY <1>1 DEF IInv, TypeOK, Assign, runner
<1>4. Stored'
  BY <1>1, <1>2 DEF IInv, Stored, Assign
<1>5. Progress'
  BY <1>1, <1>2 DEF IInv, Progress, Assign
<1>6. Fresh'
  BY DEF IInv, Fresh, Assign, shouldSaveShardCheckpoint
<1>7. \A w \in Workers : Live(w)' => g'[w].own # owner'
  <2> TAKE w \in Workers
  <2> HAVE Live(w)'
  <2>1. g'[w] = g[w] /\ g[w].own.epoch \in 1..owner.epoch
    BY DEF IInv, Live, Progress, Assign
  <2> QED
    BY <1>1, <1>2, <2>1
<1>8. Owned' /\ Alone'
  BY <1>7 DEF Owned, Alone, Current
<1>9. NoRecordPassedOver'
  BY DEF IInv, NoRecordPassedOver, Assign, runner
<1> QED
  BY <1>3, <1>4, <1>5, <1>6, <1>8, <1>9 DEF IInv

\* stopShard leaves goroutines as they are, or they return.
LEMMA StoppedFields ==
    ASSUME TypeOK, NEW n \in Nodes
    PROVE  /\ Stopped(n) \in [Workers -> Goroutines]
           /\ \A w \in Workers : Stopped(n)[w] = g[w] \/ (RunsOn(w, n) /\ Stopped(n)[w] = Idle)
BY IdleType DEF Stopped, TypeOK

LEMMA RefreshStopKeeps ==
    ASSUME IInv, NEW n \in Nodes, RefreshStop(n)
    PROVE  IInv'
<1>1. /\ g' \in [Workers -> Goroutines]
      /\ \A w \in Workers : g'[w] = g[w] \/ g'[w] = Idle
  BY StoppedFields DEF IInv, RefreshStop
<1>2. TypeOK'
  <2>1. active' \in [Nodes -> 0..MaxEpoch]
    BY BoundsAssumption DEF IInv, TypeOK, RefreshStop
  <2> QED
    BY <1>1, <2>1 DEF IInv, TypeOK, RefreshStop, etcd
<1>3. Stored'
  BY DEF IInv, Stored, RefreshStop, etcd
<1>4. Progress'
  BY <1>1, IdleIs DEF IInv, Progress, RefreshStop, etcd
<1>5. Fresh'
  BY <1>1, IdleIs DEF IInv, Fresh, RefreshStop, etcd, shouldSaveShardCheckpoint
<1>6. \A w \in Workers : Live(w)' => g'[w] = g[w] /\ Live(w)
  BY <1>1, IdleIs DEF Live, Orphan
<1>7. Owned'
  <2> SUFFICES ASSUME NEW w \in Workers, Current(w)', g'[w].pc # "starting"
               PROVE  /\ active'[g'[w].own.node] = g'[w].own.epoch
                      /\ ~g'[w].overtaken => ckpt'.offset <= g'[w].next
    BY DEF Owned
  <2>1. g'[w] = g[w] /\ Current(w) /\ g[w].own.node # n /\ g[w].own.node \in Nodes
    BY <1>6 DEF IInv, Current, Live, RefreshStop, etcd, Progress
  <2> QED
    BY <2>1 DEF IInv, Owned, RefreshStop, etcd, TypeOK
<1>8. Alone'
  BY <1>6 DEF IInv, Alone, Current, RefreshStop, etcd
<1>9. NoRecordPassedOver'
  BY <1>1, IdleIs DEF IInv, NoRecordPassedOver, RefreshStop, etcd
<1> QED
  BY <1>2, <1>3, <1>4, <1>5, <1>7, <1>8, <1>9 DEF IInv

LEMMA RefreshStartKeeps ==
    ASSUME IInv, NEW n \in Nodes, RefreshStart(n)
    PROVE  IInv'
<1> DEFINE x == CHOOSE w \in Unused : TRUE
           new == [Idle EXCEPT !.pc = "starting", !.own = owner]
<1>1. x \in Workers /\ g[x].pc = "idle"
  BY DEF RefreshStart, Unused
<1>2. owner.node = n /\ owner.epoch \in 1..MaxEpoch /\ owner \in Ownerships
  BY BoundsAssumption DEF IInv, TypeOK, Stored, RefreshStart, Ownerships
<1>3. /\ new \in Goroutines
      /\ new.pc = "starting"
      /\ new.own = owner
      /\ new.next = 0
      /\ new.fresh = FALSE
  BY <1>2, IdleType DEF Idle, Goroutines, PCs
<1> HIDE DEF x, new
<1>4. /\ g' \in [Workers -> Goroutines]
      /\ g'[x] = new
      /\ \A w \in Workers \ {x} : g'[w] = g[w] \/ (RunsOn(w, n) /\ g'[w] = Idle)
  <2>1. g' = [Stopped(n) EXCEPT ![x] = new]
    BY DEF RefreshStart, x, new
  <2>2. TypeOK
    BY DEF IInv
  <2> QED
    BY <1>1, <1>3, <2>1, <2>2, StoppedFields
<1>5. TypeOK'
  <2>1. active' \in [Nodes -> 0..MaxEpoch]
    BY BoundsAssumption DEF IInv, TypeOK, RefreshStart
  <2> QED
    BY <1>4, <2>1 DEF IInv, TypeOK, RefreshStart, etcd
<1>6. Stored'
  BY DEF IInv, Stored, RefreshStart, etcd
<1>7. Progress'
  <2>1. owner' = owner /\ applied' = applied
    BY DEF RefreshStart, etcd
  <2> QED
    BY <1>2, <1>3, <1>4, <2>1, IdleIs DEF IInv, Progress
<1>8. Fresh'
  BY <1>3, <1>4, IdleIs DEF IInv, Fresh, RefreshStart, etcd, shouldSaveShardCheckpoint
\* Nobody else has this ownership, and nobody else is being started here.
<1>9. \A w \in Workers \ {x} : Live(w)' =>
        g'[w] = g[w] /\ Live(w) /\ g[w].own # owner /\ ~(g[w].pc = "starting" /\ g[w].own.node = n)
  <2> TAKE w \in Workers \ {x}
  <2> HAVE Live(w)'
  <2>1. g'[w] = g[w] /\ Live(w)
    BY <1>4, IdleIs DEF Live, Orphan
  <2>2. ~(g[w].pc = "starting" /\ g[w].own.node = n)
    BY <2>1 DEF RefreshStart, Starting, RunsOn, Live
  <2>3. g[w].own # owner
    BY <1>2, <2>1, <2>2 DEF IInv, Owned, Current, RefreshStart
  <2> QED
    BY <2>1, <2>2, <2>3
<1>10. Owned'
  BY <1>3, <1>4, <1>9 DEF Owned, Current, RefreshStart, etcd
<1>11. Alone'
  <2>1. owner' = owner
    BY DEF RefreshStart, etcd
  <2> SUFFICES ASSUME NEW v \in Workers, NEW w \in Workers, Current(v)', Live(w)',
                      g'[w].own = owner \/ (g'[w].pc = "starting" /\ g'[w].own.node = owner.node)
               PROVE  v = w
    BY <2>1 DEF Alone
  <2>2. v = x
    BY <1>9, <2>1 DEF Current
  <2>3. w = x
    BY <1>2, <1>9
  <2> QED
    BY <2>2, <2>3
<1>12. NoRecordPassedOver'
  BY <1>3, <1>4, IdleIs DEF IInv, NoRecordPassedOver, RefreshStart, etcd
<1> QED
  BY <1>5, <1>6, <1>7, <1>8, <1>10, <1>11, <1>12 DEF IInv

LEMMA StartShardKeeps ==
    ASSUME IInv, NEW w \in Workers, StartShard(w)
    PROVE  IInv'
<1> DEFINE n == g[w].own.node
           k == loadShardCheckpoint(n)
<1>1. TypeOK /\ n \in Nodes /\ g[w].own.epoch \in 1..owner.epoch /\ g[w].pc = "starting"
  BY DEF IInv, Progress, StartShard
<1>2. k \in Offsets /\ ckpt.offset <= k /\ 0..k - 1 \subseteq applied
  <2>1. ckpt.offset \in Nat /\ nextStep[n] \in Offsets /\ ckpt.offset \in Offsets
    BY <1>1, BoundsAssumption DEF TypeOK, Checkpoints, Offsets
  <2>2. 0..ckpt.offset - 1 \subseteq applied /\ 0..nextStep[n] - 1 \subseteq applied
    BY <1>1 DEF IInv, NoRecordPassedOver
  <2>3. CASE ckpt.epoch # 0
    BY <2>1, <2>2, <2>3 DEF loadShardCheckpoint
  <2>4. CASE ckpt.epoch = 0
    <3>1. ckpt.offset = 0 /\ k = nextStep[n]
      BY <2>4 DEF IInv, Stored, loadShardCheckpoint
    <3> QED
      BY <2>1, <2>2, <3>1, BoundsAssumption DEF Offsets
  <2> QED
    BY <2>3, <2>4
<1> HIDE DEF n, k
<1>3. /\ nextStep' = [nextStep EXCEPT ![n] = k]
      /\ active' = [active EXCEPT ![n] = g[w].own.epoch]
      /\ exposed' = (exposed \/ (ckpt.epoch = 0 /\ nextStep[n] > 0))
      /\ UNCHANGED <<log, owner, status, ckpt, crashes, applied>>
  BY DEF StartShard, n, k, etcd
<1>4. /\ g' \in [Workers -> Goroutines]
      /\ \A v \in Workers : v # w => g'[v] = g[v]
      /\ g'[w].pc = "ready"
      /\ g'[w].own = g[w].own
      /\ g'[w].next = k
      /\ g'[w].fresh = g[w].fresh
  <2> DEFINE new == [g[w] EXCEPT !.pc = "ready", !.next = k, !.overtaken = FALSE]
  <2>1. g[w] \in Goroutines /\ g \in [Workers -> Goroutines]
    BY <1>1 DEF TypeOK
  <2>2. g' = [g EXCEPT ![w] = new]
    BY <2>1 DEF StartShard, k, n
  <2>3. /\ new \in Goroutines
        /\ new.pc = "ready"
        /\ new.own = g[w].own
        /\ new.next = k
        /\ new.fresh = g[w].fresh
    BY <1>2, <2>1 DEF Goroutines, PCs
  <2> HIDE DEF new
  <2> QED
    BY <2>1, <2>2, <2>3
<1>5. TypeOK'
  <2>1. owner.epoch \in 0..MaxEpoch
    BY <1>1 DEF TypeOK, Ownerships
  <2>2. g[w].own.epoch \in 0..MaxEpoch
    BY <1>1, Fields
  <2> QED
    BY <1>1, <1>2, <1>3, <1>4, <2>2 DEF TypeOK
<1>6. Stored'
  BY <1>3 DEF IInv, Stored
<1>7. Progress'
  BY <1>1, <1>3, <1>4 DEF IInv, Progress, n
<1>8. Fresh'
  BY <1>1, <1>3, <1>4 DEF IInv, Fresh, shouldSaveShardCheckpoint
<1>9. /\ \A v \in Workers : Live(v)' => Live(v) /\ g'[v].own = g[v].own
      /\ \A v \in Workers : g'[v].pc = "starting" => g'[v] = g[v]
  BY <1>1, <1>4 DEF Live, Orphan
<1>10. Owned'
  <2> SUFFICES ASSUME NEW v \in Workers, Current(v)', g'[v].pc # "starting"
               PROVE  /\ active'[g'[v].own.node] = g'[v].own.epoch
                      /\ ~g'[v].overtaken => ckpt'.offset <= g'[v].next
    BY DEF Owned
  <2>1. CASE v = w
    BY <1>1, <1>2, <1>3, <1>4, <2>1 DEF TypeOK, n
  <2>2. CASE v # w
    <3>1. g'[v] = g[v] /\ Current(v) /\ g[v].own.node \in Nodes
      BY <1>3, <1>4, <1>9, <2>2 DEF Current, IInv, Progress, Live
    <3>2. g[v].own.node # n
      BY <1>1, <2>2, <3>1 DEF IInv, Alone, Live, Orphan, Current, n
    <3> QED
      BY <1>1, <1>3, <3>1, <3>2 DEF IInv, Owned, TypeOK
  <2> QED
    BY <2>1, <2>2
<1>11. Alone'
  BY <1>3, <1>9 DEF IInv, Alone, Current
<1>12. NoRecordPassedOver'
  BY <1>1, <1>2, <1>3, <1>4 DEF IInv, NoRecordPassedOver, TypeOK
<1> QED
  BY <1>5, <1>6, <1>7, <1>8, <1>10, <1>11, <1>12 DEF IInv

\* A goroutine goes on to another step, and at most the order's state, the
\* history and its process's memory change with it.
LEMMA GotoKeeps ==
    ASSUME IInv, NEW w \in Workers, NEW pc \in PCs \ {"idle", "starting"},
           Live(w), g[w].pc # "starting", g' = Goto(w, pc),
           UNCHANGED <<log, owner, ckpt, active, crashes>>,
           status' \in OrderStatuses, exposed' \in BOOLEAN,
           nextStep' \in [Nodes -> Offsets],
           applied \subseteq applied', applied' \subseteq Offsets,
           \A n \in Nodes : 0..nextStep'[n] - 1 \subseteq applied',
           pc # "ready" => g[w].next < LogLength,
           pc \in {"applied", "get", "cas", "orphanCas"} => g[w].next \in applied',
           g[w].fresh = FALSE, pc \notin {"orphanSave", "orphanCas"}
    PROVE  IInv'
<1>1. TypeOK
  BY DEF IInv
<1>2. /\ g' \in [Workers -> Goroutines]
      /\ \A v \in Workers : v # w => g'[v] = g[v]
      /\ g'[w].pc = pc
      /\ g'[w].own = g[w].own
      /\ g'[w].next = g[w].next
      /\ g'[w].fresh = g[w].fresh
      /\ g'[w].overtaken = g[w].overtaken
  BY <1>1, GotoFields
<1>3. TypeOK'
  BY <1>1, <1>2 DEF TypeOK
<1>4. Stored'
  BY DEF IInv, Stored
<1>5. Progress'
  BY <1>2 DEF IInv, Progress, Live
<1>6. Fresh'
  BY <1>2 DEF IInv, Fresh, shouldSaveShardCheckpoint
<1>7. \A v \in Workers : Live(v)' => Live(v) /\ g'[v].own = g[v].own
  BY <1>2 DEF Live, Orphan
<1>8. \A v \in Workers : g'[v].pc = "starting" => g[v].pc = "starting"
  BY <1>2
<1>9. Owned'
  BY <1>2, <1>7 DEF IInv, Owned, Current
<1>10. Alone'
  BY <1>2, <1>7, <1>8 DEF IInv, Alone, Current
<1>11. NoRecordPassedOver'
  BY <1>2 DEF IInv, NoRecordPassedOver, Live
<1> QED
  BY <1>3, <1>4, <1>5, <1>6, <1>9, <1>10, <1>11 DEF IInv

\* A goroutine returns, and at most the order's state, the history and its
\* process's memory change with it.
LEMMA ReturnKeeps ==
    ASSUME IInv, NEW w \in Workers, g' = [g EXCEPT ![w] = Idle],
           UNCHANGED <<log, owner, ckpt, crashes>>,
           status' \in OrderStatuses, exposed' \in BOOLEAN,
           nextStep' \in [Nodes -> Offsets],
           applied \subseteq applied', applied' \subseteq Offsets,
           \A n \in Nodes : 0..nextStep'[n] - 1 \subseteq applied',
           active' = active \/ (~Cancelled(w) /\ ~checkFence(w) /\ g[w].own.node \in Nodes
                                /\ active' = [active EXCEPT ![g[w].own.node] = 0])
    PROVE  IInv'
<1>1. TypeOK
  BY DEF IInv
<1>2. /\ g' \in [Workers -> Goroutines]
      /\ \A v \in Workers : v # w => g'[v] = g[v]
      /\ g'[w] = Idle
  BY <1>1, IdleFields
<1>3. TypeOK'
  <2>1. active' \in [Nodes -> 0..MaxEpoch]
    BY <1>1, BoundsAssumption DEF TypeOK
  <2> QED
    BY <1>1, <1>2, <2>1 DEF TypeOK
<1>4. Stored'
  BY DEF IInv, Stored
<1>5. Progress'
  BY <1>2, IdleIs DEF IInv, Progress
<1>6. Fresh'
  BY <1>2, IdleIs DEF IInv, Fresh, shouldSaveShardCheckpoint
<1>7. \A v \in Workers : Live(v)' => Live(v) /\ g'[v] = g[v]
  BY <1>2, IdleIs DEF Live, Orphan
<1>8. Owned'
  <2> SUFFICES ASSUME NEW v \in Workers, Current(v)', g'[v].pc # "starting"
               PROVE  /\ active'[g'[v].own.node] = g'[v].own.epoch
                      /\ ~g'[v].overtaken => ckpt'.offset <= g'[v].next
    BY DEF Owned
  <2>1. g'[v] = g[v] /\ Current(v) /\ g[v].own.node \in Nodes
    BY <1>7 DEF Current, IInv, Progress, Live
  <2>2. active[g[v].own.node] = g[v].own.epoch /\ (~g[v].overtaken => ckpt.offset <= g[v].next)
    BY <2>1 DEF IInv, Owned
  <2>3. CASE active' = active
    BY <2>1, <2>2, <2>3
  <2>4. CASE ~Cancelled(w) /\ ~checkFence(w) /\ active' = [active EXCEPT ![g[w].own.node] = 0]
    <3>1. g[v].own # g[w].own /\ g[v].own \in Ownerships /\ g[w].own \in Ownerships
      BY <1>1, <2>1, <2>4, Fields DEF Current, checkFence
    <3>2. g[v].own.node # g[w].own.node
      BY <2>2, <2>4, <3>1 DEF Cancelled, Ownerships
    <3> QED
      BY <1>1, <2>1, <2>2, <2>4, <3>2 DEF TypeOK
  <2> QED
    BY <2>3, <2>4
<1>9. Alone'
  BY <1>7 DEF IInv, Alone, Current
<1>10. NoRecordPassedOver'
  BY <1>2, IdleIs DEF IInv, NoRecordPassedOver
<1> QED
  BY <1>3, <1>4, <1>5, <1>6, <1>8, <1>9, <1>10 DEF IInv

\* The status an event leads to is one of an order.
LEMMA StatusAfterType == \A type : StatusAfter(type) \in OrderStatuses
BY DEF StatusAfter, OrderStatuses

LEMMA ApplyKeeps ==
    ASSUME IInv, NEW w \in Workers,
           CheckFence(w) \/ FenceLost(w) \/ LoadOrder(w) \/ ApplyFails(w) \/ SaveOrder(w)
    PROVE  IInv'
<1>1. TypeOK
  BY DEF IInv
<1>2. g[w].pc # "idle" => g[w].own.node \in Nodes
  BY DEF IInv, Progress
<1>3. /\ status \in OrderStatuses /\ exposed \in BOOLEAN
      /\ nextStep \in [Nodes -> Offsets]
      /\ applied \subseteq Offsets
      /\ \A n \in Nodes : 0..nextStep[n] - 1 \subseteq applied
  BY DEF IInv, TypeOK, NoRecordPassedOver
<1>4. g[w].next \in Offsets
  BY <1>1, Fields DEF Offsets
<1>5. g[w].pc \notin {"cas", "orphanCas"} => g[w].fresh = FALSE
  BY <1>1, Fields DEF IInv, Fresh
<1>6. CASE CheckFence(w)
  <2>1. /\ g[w].pc = "ready" /\ g[w].next < LogLength
        /\ g' = Goto(w, "reading")
        /\ UNCHANGED <<log, owner, status, ckpt, active, nextStep, crashes, applied, exposed>>
    BY <1>6 DEF CheckFence, etcd, runner
  <2>2. Live(w) /\ "reading" \in PCs \ {"idle", "starting"}
    BY <2>1 DEF Live, Orphan, PCs
  <2> QED
    BY <1>3, <1>5, <2>1, <2>2, GotoKeeps
<1>7. CASE FenceLost(w)
  <2>1. /\ g[w].own.node \in Nodes
        /\ ~checkFence(w)
        /\ g' = [g EXCEPT ![w] = Idle]
        /\ UNCHANGED <<log, owner, status, ckpt, nextStep, crashes, applied, exposed>>
        /\ active' = [active EXCEPT ![g[w].own.node] = IF Cancelled(w) THEN @ ELSE 0]
    BY <1>2, <1>7 DEF FenceLost, etcd
  <2>2. active' = active \/ (~Cancelled(w) /\ active' = [active EXCEPT ![g[w].own.node] = 0])
    BY <1>1, <2>1 DEF TypeOK
  <2> QED
    BY <1>3, <2>1, <2>2, ReturnKeeps
<1>8. CASE LoadOrder(w)
  <2>1. /\ g[w].pc = "reading"
        /\ UNCHANGED <<log, owner, status, ckpt, active, nextStep, crashes, exposed>>
        /\ \/ g' = Goto(w, "applied") /\ applied' = applied \cup {g[w].next}
           \/ g' = Goto(w, "saving") /\ applied' = applied
    BY <1>8 DEF LoadOrder, etcd, runner
  <2>2. /\ Live(w)
        /\ g[w].next < LogLength
        /\ "applied" \in PCs \ {"idle", "starting"}
        /\ "saving" \in PCs \ {"idle", "starting"}
    BY <2>1 DEF IInv, Progress, Live, Orphan, PCs
  <2>3. applied \subseteq applied' /\ applied' \subseteq Offsets
    BY <1>3, <1>4, <2>1
  <2>4. CASE g' = Goto(w, "applied") /\ applied' = applied \cup {g[w].next}
    BY <1>3, <1>5, <2>1, <2>2, <2>3, <2>4, GotoKeeps
  <2>5. CASE g' = Goto(w, "saving") /\ applied' = applied
    BY <1>3, <1>5, <2>1, <2>2, <2>5, GotoKeeps
  <2> QED
    BY <2>1, <2>4, <2>5
<1>9. CASE ApplyFails(w)
  <2>1. g[w].own.node \in Nodes /\ crashes' \in 0..MaxCrashes
    BY <1>1, <1>2, <1>9 DEF ApplyFails, TypeOK
  <2> QED
    BY <1>9, <2>1, ProcessEndsKeeps DEF ApplyFails
<1>10. CASE SaveOrder(w)
  <2>1. /\ g[w].pc \in {"saving", "orphanSave"}
        /\ applied' = applied \cup {g[w].next}
        /\ exposed' \in BOOLEAN
        /\ status' \in OrderStatuses
        /\ UNCHANGED <<log, owner, ckpt, active, nextStep, crashes>>
        /\ g' = IF Orphan(w) THEN [g EXCEPT ![w] = Idle] ELSE Goto(w, "applied")
    BY <1>10, StatusAfterType DEF SaveOrder, runner
  <2>2. applied \subseteq applied' /\ applied' \subseteq Offsets
    BY <1>3, <1>4, <2>1
  <2>3. CASE Orphan(w)
    BY <1>3, <2>1, <2>2, <2>3, ReturnKeeps
  <2>4. CASE ~Orphan(w)
    <3>1. /\ Live(w)
          /\ g[w].pc # "starting"
          /\ g[w].next < LogLength
          /\ "applied" \in PCs \ {"idle", "starting"}
      BY <2>1, <2>4 DEF IInv, Progress, Live, Orphan, PCs
    <3> QED
      BY <1>3, <1>5, <2>1, <2>2, <2>4, <3>1, GotoKeeps
  <2> QED
    BY <2>3, <2>4
<1> QED
  BY <1>6, <1>7, <1>8, <1>9, <1>10

LEMMA CheckFenceAgainKeeps ==
    ASSUME IInv, NEW w \in Workers, CheckFenceAgain(w)
    PROVE  IInv'
<1> DEFINE n == g[w].own.node
           k == g[w].next + 1
<1>1. TypeOK
  BY DEF IInv
<1>2. /\ n \in Nodes
      /\ g[w].next \in applied /\ g[w].next < LogLength
      /\ 0..g[w].next - 1 \subseteq applied
      /\ Live(w)
      /\ g[w].pc = "applied"
  BY DEF IInv, Progress, NoRecordPassedOver, CheckFenceAgain, Live, Orphan
<1>3. k \in Offsets /\ 0..k - 1 \subseteq applied
  BY <1>1, <1>2, Fields, BoundsAssumption DEF Offsets
<1>4. g[w].fresh = FALSE
  BY <1>1, <1>2, Fields DEF IInv, Fresh
<1> HIDE DEF n, k
<1>5. /\ nextStep' = [nextStep EXCEPT ![n] = k]
      /\ UNCHANGED <<log, owner, status, ckpt, active, crashes, applied, exposed>>
      /\ g' = [g EXCEPT ![w] = Idle] \/ g' = Goto(w, "get")
  BY DEF CheckFenceAgain, etcd, n, k
<1>6. /\ nextStep' \in [Nodes -> Offsets]
      /\ \A m \in Nodes : 0..nextStep'[m] - 1 \subseteq applied
      /\ status \in OrderStatuses /\ exposed \in BOOLEAN /\ applied \subseteq Offsets
  BY <1>1, <1>2, <1>3, <1>5 DEF IInv, TypeOK, NoRecordPassedOver
<1>7. CASE g' = [g EXCEPT ![w] = Idle]
  BY <1>5, <1>6, <1>7, ReturnKeeps
<1>8. CASE g' = Goto(w, "get")
  <2>1. "get" \in PCs \ {"idle", "starting"}
    BY DEF PCs
  <2> QED
    BY <1>2, <1>4, <1>5, <1>6, <1>8, <2>1, GotoKeeps
<1> QED
  BY <1>5, <1>7, <1>8

LEMMA GetCheckpointKeeps ==
    ASSUME IInv, NEW w \in Workers, GetCheckpoint(w)
    PROVE  IInv'
<1>1. TypeOK /\ g[w].pc = "get" /\ shouldSaveShardCheckpoint(w)
  BY DEF IInv, GetCheckpoint
<1>2. UNCHANGED <<log, owner, status, ckpt, active, nextStep, crashes, applied, exposed>>
  BY DEF GetCheckpoint, etcd, runner
<1>3. /\ g' \in [Workers -> Goroutines]
      /\ \A v \in Workers : v # w => g'[v] = g[v]
      /\ g'[w].pc = "cas"
      /\ g'[w].own = g[w].own
      /\ g'[w].next = g[w].next
      /\ g'[w].overtaken = g[w].overtaken
  <2> DEFINE new == [g[w] EXCEPT !.pc = "cas", !.fresh = TRUE]
  <2>1. g[w] \in Goroutines /\ g \in [Workers -> Goroutines]
    BY <1>1 DEF TypeOK
  <2>2. g' = [g EXCEPT ![w] = new]
    BY <2>1 DEF GetCheckpoint
  <2>3. /\ new \in Goroutines
        /\ new.pc = "cas"
        /\ new.own = g[w].own
        /\ new.next = g[w].next
        /\ new.overtaken = g[w].overtaken
    BY <2>1 DEF Goroutines, PCs
  <2> HIDE DEF new
  <2> QED
    BY <2>1, <2>2, <2>3
<1>4. TypeOK'
  BY <1>1, <1>2, <1>3 DEF TypeOK
<1>5. Stored'
  BY <1>2 DEF IInv, Stored
<1>6. Progress'
  BY <1>1, <1>2, <1>3 DEF IInv, Progress
<1>7. Fresh'
  BY <1>1, <1>2, <1>3 DEF IInv, Fresh, shouldSaveShardCheckpoint
<1>8. \A v \in Workers : /\ Live(v)' => Live(v) /\ g'[v].own = g[v].own
                         /\ g'[v].pc = "starting" => g[v].pc = "starting"
  BY <1>1, <1>3 DEF Live, Orphan
<1>9. Owned'
  BY <1>1, <1>2, <1>3, <1>8 DEF IInv, Owned, Current
<1>10. Alone'
  BY <1>2, <1>8 DEF IInv, Alone, Current
<1>11. NoRecordPassedOver'
  BY <1>1, <1>2, <1>3 DEF IInv, NoRecordPassedOver
<1> QED
  BY <1>4, <1>5, <1>6, <1>7, <1>9, <1>10, <1>11 DEF IInv

\* The write of the checkpoint.
LEMMA SaveCheckpointKeeps ==
    ASSUME IInv, NEW w \in Workers, SaveCheckpoint(w)
    PROVE  IInv'
<1> DEFINE k == g[w].next + 1
<1>1. /\ TypeOK /\ g[w].pc \in {"cas", "orphanCas"} /\ g[w].fresh
      /\ ckpt' = [offset |-> k, epoch |-> g[w].own.epoch]
      /\ exposed' = (exposed \/ Late(w))
      /\ UNCHANGED <<log, owner, status, active, nextStep, crashes, applied>>
  BY DEF IInv, SaveCheckpoint, Saved, runner
<1>2. /\ g[w].own.node \in Nodes
      /\ g[w].own.epoch \in 1..owner.epoch
      /\ g[w].own.epoch \in 0..MaxEpoch
      /\ g[w].next \in applied
      /\ k \in Offsets
      /\ 0..k - 1 \subseteq applied
  <2>1. /\ g[w].own.node \in Nodes
        /\ g[w].own.epoch \in 1..owner.epoch
        /\ g[w].next \in applied
        /\ g[w].next < LogLength
        /\ 0..g[w].next - 1 \subseteq applied
    BY <1>1 DEF IInv, Progress, NoRecordPassedOver
  <2> QED
    BY <1>1, <2>1, Fields, BoundsAssumption DEF Offsets
\* The goroutine that writes goes on with the next record or returns.
<1>3. /\ g'[w] \in Goroutines
      /\ g'[w].fresh = FALSE
      /\ \/ /\ ~Orphan(w) /\ ~Cancelled(w)
            /\ g'[w].pc = "ready" /\ g'[w].own = g[w].own /\ g'[w].next = k
         \/ g'[w] = Idle
  <2>1. CASE Orphan(w) \/ Cancelled(w)
    BY <2>1, IdleType, IdleIs DEF SaveCheckpoint, Saved
  <2>2. CASE ~(Orphan(w) \/ Cancelled(w))
    <3>1. g'[w] = [g[w] EXCEPT !.pc = "ready", !.next = @ + 1, !.fresh = FALSE, !.tries = 0]
      BY <2>2 DEF SaveCheckpoint, Saved
    <3>2. g[w] \in Goroutines
      BY <1>1 DEF TypeOK
    <3>3. 0 \in 0..MaxSaves - 1 /\ g[w].next + 1 \in Offsets
      BY <1>2, BoundsAssumption
    <3> HIDE DEF k
    <3>4. /\ g'[w] \in Goroutines
          /\ g'[w].fresh = FALSE
          /\ g'[w].pc = "ready" /\ g'[w].own = g[w].own /\ g'[w].next = g[w].next + 1
      BY <3>1, <3>2, <3>3 DEF Goroutines, PCs
    <3> QED
      BY <2>2, <3>4 DEF k
  <2> QED
    BY <2>1, <2>2
\* What the others have read is out of date.
<1>4. \A v \in Workers \ {w} :
        /\ g'[v] \in Goroutines
        /\ g'[v].fresh = FALSE
        /\ g'[v].pc = g[v].pc /\ g'[v].own = g[v].own /\ g'[v].next = g[v].next
        /\ Late(w) /\ g[v].pc # "idle" => g'[v].overtaken
  <2> TAKE v \in Workers \ {w}
  <2>1. g'[v] = [g[v] EXCEPT !.fresh = FALSE,
                             !.overtaken = @ \/ (Late(w) /\ g[v].pc # "idle")]
    BY DEF SaveCheckpoint, Saved
  <2>2. g[v] \in Goroutines
    BY <1>1 DEF TypeOK
  <2>3. (g[v].overtaken \/ (Late(w) /\ g[v].pc # "idle")) \in BOOLEAN
    OBVIOUS
  <2> QED
    BY <2>1, <2>2, <2>3 DEF Goroutines
<1> HIDE DEF k
<1>5. TypeOK'
  <2>1. g' \in [Workers -> Goroutines]
    <3>1. \A v \in Workers : g'[v] \in Goroutines
      BY <1>3, <1>4
    <3> QED
      BY <3>1 DEF SaveCheckpoint, Saved
  <2>2. ckpt' \in Checkpoints
    BY <1>1, <1>2 DEF Checkpoints
  <2>3. exposed' \in BOOLEAN
    BY <1>1
  <2> QED
    BY <1>1, <2>1, <2>2, <2>3 DEF TypeOK
<1>6. ckpt'.offset = k /\ ckpt'.epoch = g[w].own.epoch
  BY <1>1
<1>7. Stored'
  <2>1. owner.epoch \in Nat
    BY <1>1, BoundsAssumption DEF TypeOK, Ownerships
  <2> QED
    BY <1>1, <1>2, <1>6, <2>1 DEF IInv, Stored
<1>8. Progress'
  BY <1>1, <1>2, <1>3, <1>4, IdleIs DEF IInv, Progress
<1>9. Fresh'
  BY <1>3, <1>4 DEF Fresh
<1>10. \A v \in Workers : /\ Live(v)' => Live(v) /\ g'[v].own = g[v].own
                          /\ g'[v].pc = "starting" => g[v].pc = "starting"
  BY <1>1, <1>3, <1>4, IdleIs DEF Live, Orphan
<1>11. Owned'
  <2> SUFFICES ASSUME NEW v \in Workers, Current(v)', g'[v].pc # "starting"
               PROVE  /\ active'[g'[v].own.node] = g'[v].own.epoch
                      /\ ~g'[v].overtaken => ckpt'.offset <= g'[v].next
    BY DEF Owned
  <2>1. Current(v) /\ g'[v].own = g[v].own
    BY <1>1, <1>10 DEF Current
  <2>2. CASE v = w
    <3>1. g'[w].next = k
      BY <1>3, <2>2, IdleIs DEF Current, Live
    <3>2. active[g[w].own.node] = g[w].own.epoch
      BY <1>1, <2>1, <2>2 DEF IInv, Owned
    <3>3. k \in Nat
      BY <1>2, BoundsAssumption DEF Offsets
    <3> QED
      BY <1>1, <1>6, <2>1, <2>2, <3>1, <3>2, <3>3
  <2>3. CASE v # w
    <3>1. g[v].pc # "starting" /\ g[v].pc # "idle"
      BY <1>4, <2>1, <2>3 DEF Current, Live
    <3>2. Late(w)
      BY <1>1, <2>1, <2>3 DEF IInv, Alone, Current, Live, Late, checkFence
    <3> QED
      BY <1>1, <1>4, <2>1, <2>3, <3>1, <3>2 DEF IInv, Owned
  <2> QED
    BY <2>2, <2>3
<1>12. Alone'
  BY <1>1, <1>10 DEF IInv, Alone, Current
<1>13. NoRecordPassedOver'
  <2>1. \A v \in Workers : g'[v].pc # "idle" => 0..g'[v].next - 1 \subseteq applied
    BY <1>2, <1>3, <1>4, IdleIs DEF IInv, NoRecordPassedOver
  <2> QED
    BY <1>1, <1>2, <1>6, <2>1 DEF IInv, NoRecordPassedOver
<1> QED
  BY <1>5, <1>7, <1>8, <1>9, <1>11, <1>12, <1>13 DEF IInv

\* The checkpoint is read again.
LEMMA SaveConflictKeeps ==
    ASSUME IInv, NEW w \in Workers, SaveConflict(w)
    PROVE  IInv'
<1>1. TypeOK /\ g[w].pc = "cas" /\ ~g[w].fresh /\ g[w].own.node \in Nodes
  BY DEF IInv, SaveConflict, Progress
<1>2. CASE UNCHANGED crashes /\ ProcessEnds(g[w].own.node)
  <2>1. crashes' \in 0..MaxCrashes
    BY <1>1, <1>2 DEF TypeOK
  <2> QED
    BY <1>1, <1>2, <2>1, ProcessEndsKeeps
<1>3. CASE /\ g[w].tries + 1 < MaxSaves
           /\ g' = [g EXCEPT ![w].pc = "get", ![w].tries = @ + 1]
           /\ UNCHANGED <<log, etcd, runner, crashes, applied, exposed>>
  <2>1. UNCHANGED <<log, owner, status, ckpt, active, nextStep, crashes, applied, exposed>>
    BY <1>3 DEF etcd, runner
  <2>2. /\ g' \in [Workers -> Goroutines]
        /\ \A v \in Workers : v # w => g'[v] = g[v]
        /\ g'[w].pc = "get"
        /\ g'[w].own = g[w].own
        /\ g'[w].next = g[w].next
        /\ g'[w].fresh = g[w].fresh
        /\ g'[w].overtaken = g[w].overtaken
    <3> DEFINE new == [g[w] EXCEPT !.pc = "get", !.tries = @ + 1]
    <3>1. g[w] \in Goroutines /\ g \in [Workers -> Goroutines]
      BY <1>1 DEF TypeOK
    <3>2. g' = [g EXCEPT ![w] = new]
      BY <1>3, <3>1
    <3>3. g[w].tries + 1 \in 0..MaxSaves - 1
      BY <1>1, <1>3, Fields, BoundsAssumption
    <3>4. /\ new \in Goroutines
          /\ new.pc = "get"
          /\ new.own = g[w].own
          /\ new.next = g[w].next
          /\ new.fresh = g[w].fresh
          /\ new.overtaken = g[w].overtaken
      BY <3>1, <3>3 DEF Goroutines, PCs
    <3> HIDE DEF new
    <3> QED
      BY <3>1, <3>2, <3>4
  <2>3. TypeOK'
    BY <1>1, <2>1, <2>2 DEF TypeOK
  <2>4. Stored'
    BY <2>1 DEF IInv, Stored
  <2>5. Progress'
    BY <1>1, <2>1, <2>2 DEF IInv, Progress
  <2>6. Fresh'
    BY <1>1, <2>1, <2>2 DEF IInv, Fresh, shouldSaveShardCheckpoint
  <2>7. \A v \in Workers : /\ Live(v)' => Live(v) /\ g'[v].own = g[v].own
                           /\ g'[v].pc = "starting" => g[v].pc = "starting"
    BY <1>1, <2>2 DEF Live, Orphan
  <2>8. Owned'
    BY <1>1, <2>1, <2>2, <2>7 DEF IInv, Owned, Current
  <2>9. Alone'
    BY <2>1, <2>7 DEF IInv, Alone, Current
  <2>10. NoRecordPassedOver'
    BY <1>1, <2>1, <2>2 DEF IInv, NoRecordPassedOver
  <2> QED
    BY <2>3, <2>4, <2>5, <2>6, <2>8, <2>9, <2>10 DEF IInv
<1> QED
  BY <1>2, <1>3 DEF SaveConflict

----------------------------------------------------------------------------
(* The theorems                                                            *)

LEMMA InitEstablishes == ASSUME Init PROVE IInv
<1>1. \A w \in Workers : g[w] = Idle
  BY DEF Init
<1>2. TypeOK
  <2>1. g \in [Workers -> Goroutines]
    BY IdleType DEF Init
  <2>2. owner \in Ownerships /\ ckpt \in Checkpoints
    BY BoundsAssumption DEF Init, Ownerships, Checkpoints, Offsets
  <2>3. active \in [Nodes -> 0..MaxEpoch] /\ nextStep \in [Nodes -> Offsets]
    BY BoundsAssumption DEF Init, Offsets
  <2>4. status \in OrderStatuses /\ exposed \in BOOLEAN
    BY Zenon DEF Init, OrderStatuses
  <2>5. crashes \in 0..MaxCrashes
    BY BoundsAssumption DEF Init
  <2> QED
    BY <2>1, <2>2, <2>3, <2>4, <2>5 DEF Init, TypeOK
<1>3. Stored
  BY NodesAssumption DEF Init, Stored
<1>4. Progress /\ Fresh
  BY <1>1, IdleIs DEF Progress, Fresh
<1>5. Owned /\ Alone
  BY <1>1, IdleIs DEF Owned, Alone, Current, Live
<1>6. NoRecordPassedOver
  BY <1>1, IdleIs DEF Init, NoRecordPassedOver
<1> QED
  BY <1>2, <1>3, <1>4, <1>5, <1>6 DEF IInv

LEMMA NextKeeps == ASSUME IInv, [Next]_vars PROVE IInv'
<1>1. ASSUME NEW n \in Nodes, Crash(n) PROVE IInv'
  <2>1. crashes' \in 0..MaxCrashes
    BY <1>1, BoundsAssumption DEF IInv, TypeOK, Crash
  <2> QED
    BY <1>1, <2>1, ProcessEndsKeeps DEF Crash
<1>2. ASSUME NEW w \in Workers, SaveRefused(w) PROVE IInv'
  <2>1. g[w].own.node \in Nodes /\ crashes' \in 0..MaxCrashes
    BY <1>2 DEF IInv, TypeOK, Progress, SaveRefused
  <2> QED
    BY <1>2, <2>1, ProcessEndsKeeps DEF SaveRefused
<1>3. ASSUME NEW w \in Workers, Abandon(w) PROVE IInv'
  <2>1. /\ g' = [g EXCEPT ![w] = Idle]
        /\ UNCHANGED <<log, owner, status, ckpt, active, nextStep, crashes, applied, exposed>>
    BY <1>3 DEF Abandon, etcd, runner
  <2>2. /\ status \in OrderStatuses /\ exposed \in BOOLEAN
        /\ nextStep \in [Nodes -> Offsets]
        /\ applied \subseteq Offsets
        /\ \A n \in Nodes : 0..nextStep[n] - 1 \subseteq applied
    BY DEF IInv, TypeOK, NoRecordPassedOver
  <2> QED
    BY <2>1, <2>2, ReturnKeeps
<1>4. CASE UNCHANGED vars
  <2>1. UNCHANGED <<log, owner, status, ckpt, active, nextStep, g, crashes, applied, exposed>>
    BY <1>4 DEF vars, etcd, runner
  <2>2. TypeOK' /\ Stored' /\ Progress'
    BY <2>1 DEF IInv, TypeOK, Stored, Progress
  <2>3. Fresh' /\ NoRecordPassedOver'
    BY <2>1 DEF IInv, Fresh, shouldSaveShardCheckpoint, NoRecordPassedOver
  <2>4. Owned' /\ Alone'
    BY <2>1 DEF IInv, Owned, Alone, Current, Live, Orphan
  <2> QED
    BY <2>2, <2>3, <2>4 DEF IInv
<1>5. ASSUME NEW w \in Workers, Goroutine(w) PROVE IInv'
  BY <1>2, <1>3, <1>5, StartShardKeeps, ApplyKeeps, CheckFenceAgainKeeps, GetCheckpointKeeps,
     SaveCheckpointKeeps, SaveConflictKeeps
     DEF Goroutine
<1> QED
  BY <1>1, <1>4, <1>5, AssignKeeps, RefreshStopKeeps, RefreshStartKeeps DEF Next, Refresh

THEOREM Invariance == Spec => []IInv
BY InitEstablishes, NextKeeps, PTL DEF Spec

\* The variables of the direct consumer keep their types.
THEOREM TypeCorrect == Spec => []TypeOK
<1>1. IInv => TypeOK
  BY DEF IInv
<1> QED
  BY <1>1, Invariance, PTL

\* Whatever offset the store, a process or a goroutine would go on from, every
\* record before it has been applied (advanceCheckpoint, SaveShardCheckpoint).
THEOREM NothingPassedOver == Spec => []NoRecordPassedOver
<1>1. IInv => NoRecordPassedOver
  BY DEF IInv
<1> QED
  BY <1>1, Invariance, PTL

\* The owner's checkpoint is refused (ErrStaleShardCheckpoint) only after a
\* late request has moved the stored one: Owned and Stored say the rest.
THEOREM Refusals == Spec => []RefusedOnlyIfOvertaken
<1>1. IInv => RefusedOnlyIfOvertaken
  <2> SUFFICES ASSUME IInv, NEW w \in Workers, g[w].pc = "get", checkFence(w),
                      ~shouldSaveShardCheckpoint(w), ~g[w].overtaken
               PROVE  FALSE
    BY DEF RefusedOnlyIfOvertaken
  <2>1. Current(w)
    BY DEF Current, Live, Orphan, checkFence
  <2>2. ckpt.offset <= g[w].next
    BY <2>1 DEF IInv, Owned
  <2>3. ckpt.epoch <= g[w].own.epoch
    BY DEF IInv, Stored, checkFence
  <2>4. ckpt.offset \in Nat /\ ckpt.epoch \in Nat
    BY BoundsAssumption DEF IInv, TypeOK, Checkpoints, Offsets
  <2>5. g[w].next \in Nat /\ g[w].own.epoch \in Nat
    BY Fields, BoundsAssumption DEF IInv
  <2> QED
    BY <2>2, <2>3, <2>4, <2>5 DEF shouldSaveShardCheckpoint
<1> QED
  BY <1>1, Invariance, PTL

\* The stored checkpoint never goes back: what the compare of the revision
\* finds unchanged is what shouldSaveShardCheckpoint has accepted (Fresh).
THEOREM Monotone == Spec => CheckpointMonotone
<1> DEFINE Forward == ckpt'.offset >= ckpt.offset /\ ckpt'.epoch >= ckpt.epoch
<1>1. ASSUME IInv, [Next]_vars PROVE [Forward]_vars
  <2>1. ckpt.offset \in Nat /\ ckpt.epoch \in Nat
    BY <1>1, BoundsAssumption DEF IInv, TypeOK, Checkpoints, Offsets
  <2>2. CASE UNCHANGED ckpt
    BY <2>1, <2>2
  <2>3. ASSUME NEW w \in Workers, SaveCheckpoint(w) PROVE Forward
    <3>1. /\ ckpt'.offset = g[w].next + 1
          /\ ckpt'.epoch = g[w].own.epoch
      BY <2>3 DEF SaveCheckpoint, Saved
    <3>2. shouldSaveShardCheckpoint(w)
      BY <1>1, <2>3 DEF IInv, Fresh, SaveCheckpoint
    <3>3. ckpt.epoch = 0 => ckpt.offset = 0
      BY <1>1 DEF IInv, Stored
    <3>4. g[w].next \in Nat /\ g[w].own.epoch \in Nat
      BY <1>1, Fields, BoundsAssumption DEF IInv
    <3> QED
      BY <2>1, <3>1, <3>2, <3>3, <3>4 DEF shouldSaveShardCheckpoint
  <2>4. ASSUME NEW n \in Nodes, Assign(n) \/ Refresh(n) \/ Crash(n) PROVE UNCHANGED ckpt
    BY <2>4 DEF Assign, Refresh, RefreshStop, RefreshStart, Crash, ProcessEnds, etcd
  <2>5. ASSUME NEW w \in Workers, Goroutine(w), ~SaveCheckpoint(w) PROVE UNCHANGED ckpt
    BY <2>5 DEF Goroutine, StartShard, CheckFence, FenceLost, LoadOrder, ApplyFails, SaveOrder,
                CheckFenceAgain, GetCheckpoint, SaveRefused, SaveConflict, Abandon,
                ProcessEnds, etcd
  <2> QED
    BY <1>1, <2>2, <2>3, <2>4, <2>5 DEF Next, vars, etcd
<1> QED
  BY <1>1, Invariance, PTL DEF Spec, CheckpointMonotone

----------------------------------------------------------------------------
(* The replay of the log                                                   *)

\* The status after record k, when it was st before.
After(k, st) ==
    IF Ignored(log[k], [status |-> st]) THEN st ELSE StatusAfter(log[k].type)

\* The recursive definition defines a function: otherwise there would be a
\* shortest log it fails for.
LEMMA ReplayedExists ==
    ASSUME NEW n \in Nat
    PROVE  \E f : f = [k \in 0..n |-> IF k = 0 THEN "none" ELSE After(k, f[k - 1])]
<1> DEFINE Fine(m) == \E f : f = [k \in 0..m |-> IF k = 0 THEN "none" ELSE After(k, f[k - 1])]
           Bad == {m \in Nat : ~Fine(m)}
<1> SUFFICES ASSUME Bad # {} PROVE FALSE
  OBVIOUS
<1>1. PICK x \in Bad : \A y \in Bad : ~(<<y, x>> \in OpToRel(<, Nat))
  BY WFMin, NatLessThanWellFounded
<1>2. x \in Nat /\ ~Fine(x)
  OBVIOUS
<1>3. CASE x = 0
  <2> DEFINE f == [k \in 0..0 |-> "none"]
  <2>1. f = [k \in 0..0 |-> IF k = 0 THEN "none" ELSE After(k, f[k - 1])]
    OBVIOUS
  <2> QED
    BY <1>2, <1>3, <2>1
<1>4. CASE x # 0
  <2>1. x - 1 \in Nat /\ x - 1 < x
    BY <1>2, <1>4
  <2>2. <<x - 1, x>> \in OpToRel(<, Nat)
    BY <1>2, <2>1 DEF OpToRel
  <2>3. Fine(x - 1)
    BY <1>1, <2>1, <2>2
  <2>4. PICK f : f = [k \in 0..x - 1 |-> IF k = 0 THEN "none" ELSE After(k, f[k - 1])]
    BY <2>3
  <2> DEFINE h == [k \in 0..x |-> IF k = x THEN After(x, f[x - 1]) ELSE f[k]]
  <2>5. \A k \in 0..x - 1 : h[k] = f[k]
    BY <1>2
  <2>6. h[x] = After(x, f[x - 1])
    BY <1>2
  <2>7. \A k \in 0..x : h[k] = IF k = 0 THEN "none" ELSE After(k, h[k - 1])
    <3> SUFFICES ASSUME NEW k \in 0..x
                 PROVE  h[k] = IF k = 0 THEN "none" ELSE After(k, h[k - 1])
      OBVIOUS
    <3>1. CASE k = x
      BY <1>2, <1>4, <2>5, <2>6, <3>1
    <3>2. CASE k # x
      <4>1. k \in 0..x - 1 /\ (k # 0 => k - 1 \in 0..x - 1)
        BY <1>2, <3>2
      <4>2. f[k] = IF k = 0 THEN "none" ELSE After(k, f[k - 1])
        BY <2>4, <4>1
      <4> QED
        BY <2>5, <4>1, <4>2
    <3> QED
      BY <3>1, <3>2
  <2>8. h = [k \in 0..x |-> h[k]]
    OBVIOUS
  <2> HIDE DEF h
  <2>9. h = [k \in 0..x |-> IF k = 0 THEN "none" ELSE After(k, h[k - 1])]
    BY <2>7, <2>8
  <2> QED
    BY <1>2, <2>9
<1> QED
  BY <1>3, <1>4

LEMMA ReplayedIs ==
    /\ Replayed[0] = "none"
    /\ \A k \in 1..LogLength : Replayed[k] = After(k, Replayed[k - 1])
<1> DEFINE Def(f) == [k \in Offsets |-> IF k = 0 THEN "none" ELSE After(k, f[k - 1])]
<1>1. LogLength \in Nat
  BY BoundsAssumption
<1>2. \E f : f = Def(f)
  BY <1>1, ReplayedExists DEF Offsets
<1>3. Replayed = CHOOSE f : f = Def(f)
  BY DEF Replayed, After
<1>4. Replayed = Def(Replayed)
  BY <1>2, <1>3
<1> HIDE DEF Replayed
<1> QED
  BY <1>1, <1>4 DEF Offsets

LEMMA ReplayedKept ==
    ASSUME log' = log
    PROVE  Replayed' = Replayed
BY DEF Replayed, Offsets, Ignored

\* Applying a record again changes nothing.
LEMMA Idempotent ==
    ASSUME NEW k, NEW st
    PROVE  /\ After(k, After(k, st)) = After(k, st)
           /\ ~Ignored(log[k], [status |-> st]) => StatusAfter(log[k].type) = After(k, st)
           /\ Ignored(log[k], [status |-> st]) => st = After(k, st)
<1>1. CASE Ignored(log[k], [status |-> st])
  BY <1>1 DEF After
<1>2. CASE ~Ignored(log[k], [status |-> st])
  <2>1. After(k, st) = StatusAfter(log[k].type)
    BY <1>2 DEF After
  <2>2. After(k, StatusAfter(log[k].type)) = StatusAfter(log[k].type)
    BY DEF After
  <2> QED
    BY <1>2, <2>1, <2>2
<1> QED
  BY <1>1, <1>2

----------------------------------------------------------------------------
(* Convergence                                                             *)

\* The owner's goroutine is at the record behind the stored checkpoint; what
\* it is about to put, or has put, is the status after that record.
InStep ==
    ~exposed => \A w \in Workers :
        Current(w) /\ g[w].pc # "starting" =>
            /\ g[w].next = ckpt.offset
            /\ g[w].pc = "saving" => StatusAfter(Event(w).type) = Replayed[g[w].next + 1]
            /\ g[w].pc \in {"applied", "get", "cas"} => status = Replayed[g[w].next + 1]

CInv == IInv /\ Converges /\ InStep

\* Steps that write neither the order nor the checkpoint, and after which the
\* owner's goroutine knows nothing new.
LEMMA FrameKeeps ==
    ASSUME CInv, UNCHANGED <<log, status, ckpt, exposed>>,
           \A w \in Workers :
              Current(w)' /\ g'[w].pc # "starting" =>
                 /\ Current(w) /\ g[w].pc # "starting"
                 /\ g'[w].next = g[w].next
                 /\ g'[w].pc = "saving" => g[w].pc = "saving"
                 /\ g'[w].pc \in {"applied", "get", "cas"} => g[w].pc \in {"applied", "get", "cas"}
    PROVE  Converges' /\ InStep'
<1>1. Replayed' = Replayed
  BY ReplayedKept
<1>2. Converges'
  BY <1>1 DEF CInv, Converges
<1>3. InStep'
  <2> SUFFICES ASSUME ~exposed, NEW w \in Workers, Current(w)', g'[w].pc # "starting"
               PROVE  /\ g'[w].next = ckpt.offset
                      /\ g'[w].pc = "saving" => StatusAfter(Event(w).type)' = Replayed[g'[w].next + 1]
                      /\ g'[w].pc \in {"applied", "get", "cas"} => status = Replayed[g'[w].next + 1]
    BY <1>1 DEF InStep
  <2>1. /\ Current(w) /\ g[w].pc # "starting"
        /\ g'[w].next = g[w].next
        /\ g'[w].pc = "saving" => g[w].pc = "saving"
        /\ g'[w].pc \in {"applied", "get", "cas"} => g[w].pc \in {"applied", "get", "cas"}
    OBVIOUS
  <2>2. /\ g[w].next = ckpt.offset
        /\ g[w].pc = "saving" => StatusAfter(Event(w).type) = Replayed[g[w].next + 1]
        /\ g[w].pc \in {"applied", "get", "cas"} => status = Replayed[g[w].next + 1]
    BY <2>1 DEF CInv, InStep
  <2>3. Event(w)' = Event(w)
    BY <2>1 DEF Event
  <2>4. StatusAfter(Event(w).type)' = StatusAfter(Event(w).type)
    BY <2>3 DEF StatusAfter
  <2> QED
    BY <2>1, <2>2, <2>4
<1> QED
  BY <1>2, <1>3

LEMMA EndConverges ==
    ASSUME CInv, NEW n \in Nodes, ProcessEnds(n)
    PROVE  Converges' /\ InStep'
<1>1. UNCHANGED <<log, owner, status, ckpt, exposed>>
  BY DEF ProcessEnds, etcd
<1>2. \A w \in Workers : Live(w)' => g'[w] = g[w] /\ Live(w)
  BY EndFields, IdleIs DEF CInv, IInv, Live, Orphan
<1>3. \A w \in Workers : Current(w)' => g'[w] = g[w] /\ Current(w)
  BY <1>1, <1>2 DEF Current
<1> QED
  BY <1>1, <1>3, FrameKeeps

LEMMA ProcessesConverge ==
    ASSUME CInv, NEW n \in Nodes, Assign(n) \/ Refresh(n) \/ Crash(n)
    PROVE  Converges' /\ InStep'
<1>0. TypeOK
  BY DEF CInv, IInv
<1>1. CASE Assign(n)
  <2>1. \A w \in Workers : ~Current(w)'
    <3> SUFFICES ASSUME NEW w \in Workers, Live(w)', g'[w].own = owner' PROVE FALSE
      BY DEF Current
    <3>1. g'[w] = g[w] /\ owner'.epoch = owner.epoch + 1
      BY <1>1 DEF Assign
    <3>2. g[w].own.epoch \in 1..owner.epoch /\ owner.epoch \in Nat
      BY <1>0, <3>1, BoundsAssumption DEF CInv, IInv, Live, Progress, TypeOK, Ownerships
    <3> QED
      BY <3>1, <3>2
  <2> QED
    BY <1>1, <2>1, FrameKeeps DEF Assign
<1>2. CASE RefreshStop(n)
  <2>1. \A w \in Workers : g'[w] = g[w] \/ g'[w] = Idle
    BY <1>0, <1>2, StoppedFields DEF RefreshStop
  <2>2. UNCHANGED <<log, owner, status, ckpt, exposed>>
    BY <1>2 DEF RefreshStop, etcd
  <2>3. \A w \in Workers : Current(w)' => g'[w] = g[w] /\ Current(w)
    BY <2>1, <2>2, IdleIs DEF Current, Live, Orphan
  <2> QED
    BY <2>2, <2>3, FrameKeeps
<1>3. CASE RefreshStart(n)
  <2> DEFINE x == CHOOSE w \in Unused : TRUE
             new == [Idle EXCEPT !.pc = "starting", !.own = owner]
  <2>1. x \in Workers
    BY <1>3 DEF RefreshStart, Unused
  <2>2. new.pc = "starting"
    BY DEF Idle
  <2> HIDE DEF x, new
  <2>3. \A w \in Workers : g'[w] = g[w] \/ g'[w] = Idle \/ g'[w] = new
    <3>1. g' = [Stopped(n) EXCEPT ![x] = new]
      BY <1>3 DEF RefreshStart, x, new
    <3> QED
      BY <1>0, <2>1, <3>1, StoppedFields
  <2>4. UNCHANGED <<log, owner, status, ckpt, exposed>>
    BY <1>3 DEF RefreshStart, etcd
  <2>5. \A w \in Workers : Current(w)' /\ g'[w].pc # "starting" => g'[w] = g[w] /\ Current(w)
    BY <2>2, <2>3, <2>4, IdleIs DEF Current, Live, Orphan
  <2> QED
    BY <2>4, <2>5, FrameKeeps
<1>4. CASE Crash(n)
  BY <1>4, EndConverges DEF Crash
<1> QED
  BY <1>1, <1>2, <1>3, <1>4 DEF Refresh

\* A goroutine that loads the checkpoint is in step, unless it goes on from
\* its memory.
LEMMA StartConverges ==
    ASSUME CInv, NEW w \in Workers, StartShard(w)
    PROVE  Converges' /\ InStep'
<1> DEFINE n == g[w].own.node
           k == loadShardCheckpoint(n)
<1>1. TypeOK /\ g[w].pc = "starting" /\ n \in Nodes
  BY DEF CInv, IInv, StartShard, Progress
<1>2. /\ UNCHANGED <<log, owner, status, ckpt>>
      /\ exposed' = (exposed \/ (ckpt.epoch = 0 /\ nextStep[n] > 0))
  BY DEF StartShard, etcd
<1>3. ~exposed' => k = ckpt.offset
  <2> SUFFICES ASSUME ~exposed' PROVE k = ckpt.offset
    OBVIOUS
  <2>1. CASE ckpt.epoch # 0
    BY <2>1 DEF loadShardCheckpoint
  <2>2. CASE ckpt.epoch = 0
    <3>1. nextStep[n] \in Nat
      BY <1>1, BoundsAssumption DEF TypeOK, Offsets
    <3>2. ~(nextStep[n] > 0)
      BY <1>2, <2>2, Zenon
    <3>3. nextStep[n] = 0
      BY <3>1, <3>2
    <3>4. k = nextStep[n] /\ ckpt.offset = 0
      BY <2>2 DEF CInv, IInv, Stored, loadShardCheckpoint
    <3> QED
      BY <3>3, <3>4
  <2> QED
    BY <2>1, <2>2
<1> HIDE DEF k
<1>4. /\ \A v \in Workers : v # w => g'[v] = g[v]
      /\ g'[w].pc = "ready"
      /\ g'[w].next = k
  <2> DEFINE new == [g[w] EXCEPT !.pc = "ready", !.next = k, !.overtaken = FALSE]
  <2>1. g[w] \in Goroutines /\ g \in [Workers -> Goroutines]
    BY <1>1 DEF TypeOK
  <2>2. g' = [g EXCEPT ![w] = new]
    BY <2>1 DEF StartShard, k, n
  <2>3. new.pc = "ready" /\ new.next = k
    BY <2>1 DEF Goroutines
  <2> HIDE DEF new
  <2> QED
    BY <2>1, <2>2, <2>3
<1>5. Replayed' = Replayed
  BY <1>2, ReplayedKept
<1>6. Converges'
  BY <1>2, <1>5 DEF CInv, Converges
<1>7. InStep'
  <2> SUFFICES ASSUME ~exposed', NEW v \in Workers, Current(v)', g'[v].pc # "starting"
               PROVE  /\ g'[v].next = ckpt'.offset
                      /\ g'[v].pc = "saving" => StatusAfter(Event(v).type)' = (Replayed[g[v].next + 1])'
                      /\ g'[v].pc \in {"applied", "get", "cas"} => status' = (Replayed[g[v].next + 1])'
    BY DEF InStep
  <2>1. CASE v = w
    BY <1>2, <1>3, <1>4, <2>1
  <2>2. CASE v # w
    <3>1. g'[v] = g[v] /\ Current(v) /\ ~exposed
      BY <1>2, <1>4, <2>2 DEF Current, Live, Orphan
    <3>2. StatusAfter(Event(v).type)' = StatusAfter(Event(v).type)
      BY <1>2, <3>1 DEF Event, StatusAfter
    <3> QED
      BY <1>2, <1>5, <3>1, <3>2 DEF CInv, InStep
  <2> QED
    BY <2>1, <2>2
<1> QED
  BY <1>6, <1>7

\* What the owner's goroutine is about to put, or finds there, is the status
\* after its record, whether or not somebody has put it before.
LEMMA LoadConverges ==
    ASSUME CInv, NEW w \in Workers, LoadOrder(w)
    PROVE  Converges' /\ InStep'
<1>1. /\ TypeOK /\ g[w].pc = "reading" /\ g[w].next < LogLength /\ g[w].next \in 0..LogLength
      /\ UNCHANGED <<log, owner, status, ckpt, exposed>>
  BY Fields DEF CInv, IInv, Progress, LoadOrder, etcd
<1>2. \/ g' = Goto(w, "applied") /\ Ignored(Event(w), [status |-> status])
      \/ g' = Goto(w, "saving") /\ ~Ignored(Event(w), [status |-> status])
  BY DEF LoadOrder
<1>3. "applied" \in PCs /\ "saving" \in PCs
  BY DEF PCs
<1>4. /\ \A v \in Workers : v # w => g'[v] = g[v]
      /\ g'[w].own = g[w].own /\ g'[w].next = g[w].next
      /\ \/ g'[w].pc = "applied" /\ Ignored(Event(w), [status |-> status])
         \/ g'[w].pc = "saving" /\ ~Ignored(Event(w), [status |-> status])
  BY <1>1, <1>2, <1>3, GotoFields
<1>5. Replayed' = Replayed
  BY <1>1, ReplayedKept
<1>6. Converges'
  BY <1>1, <1>5 DEF CInv, Converges
<1>7. InStep'
  <2> SUFFICES ASSUME ~exposed, NEW v \in Workers, Current(v)', g'[v].pc # "starting"
               PROVE  /\ g'[v].next = ckpt.offset
                      /\ g'[v].pc = "saving" => StatusAfter(Event(v).type)' = Replayed[g'[v].next + 1]
                      /\ g'[v].pc \in {"applied", "get", "cas"} => status = Replayed[g'[v].next + 1]
    BY <1>1, <1>5 DEF InStep
  <2>1. Current(v) /\ g[v].pc # "starting" /\ g'[v].next = g[v].next
    BY <1>1, <1>4 DEF Current, Live, Orphan
  <2>2. g[v].next = ckpt.offset
    BY <2>1 DEF CInv, InStep
  <2>3. StatusAfter(Event(v).type)' = StatusAfter(Event(v).type)
    BY <1>1, <2>1 DEF Event, StatusAfter
  <2>4. CASE v = w
    <3> DEFINE k == g[w].next + 1
    <3>1. k \in 1..LogLength /\ k - 1 = ckpt.offset /\ k = ckpt.offset + 1 /\ Event(w) = log[k]
      BY <1>1, <2>2, <2>4, BoundsAssumption DEF Event
    <3> HIDE DEF k
    <3>2. Replayed[k] = After(k, Replayed[k - 1])
      BY <3>1, ReplayedIs
    <3>3. status = Replayed[k - 1] \/ status = Replayed[k]
      BY <3>1 DEF CInv, Converges
    <3>4. After(k, status) = Replayed[k]
      BY <3>2, <3>3, Idempotent
    <3>5. /\ ~Ignored(log[k], [status |-> status]) => StatusAfter(log[k].type) = Replayed[k]
          /\ Ignored(log[k], [status |-> status]) => status = Replayed[k]
      BY <3>4, Idempotent
    <3> QED
      BY <1>4, <2>1, <2>2, <2>3, <2>4, <3>1, <3>5 DEF k
  <2>5. CASE v # w
    BY <1>4, <2>1, <2>2, <2>3, <2>5 DEF CInv, InStep
  <2> QED
    BY <2>4, <2>5
<1> QED
  BY <1>6, <1>7

\* A put that is not late is the owner's, of the status after its record.
LEMMA PutConverges ==
    ASSUME CInv, NEW w \in Workers, SaveOrder(w)
    PROVE  Converges' /\ InStep'
<1>1. /\ TypeOK /\ g[w].pc \in {"saving", "orphanSave"}
      /\ g[w].next < LogLength /\ g[w].next \in 0..LogLength
      /\ status' = StatusAfter(Event(w).type)
      /\ exposed' = (exposed \/ Late(w))
      /\ UNCHANGED <<log, owner, ckpt>>
  BY Fields DEF CInv, IInv, Progress, SaveOrder
<1>2. SUFFICES ASSUME ~exposed' PROVE Converges' /\ InStep'
  BY DEF Converges, InStep
<1>3. ~exposed /\ ~Orphan(w) /\ checkFence(w)
  BY <1>1, <1>2 DEF Late
<1>4. g[w].pc = "saving" /\ Current(w)
  BY <1>1, <1>3 DEF Current, Live, Orphan, checkFence
<1>5. g[w].next = ckpt.offset /\ StatusAfter(Event(w).type) = Replayed[g[w].next + 1]
  BY <1>3, <1>4 DEF CInv, InStep
<1>6. Replayed' = Replayed
  BY <1>1, ReplayedKept
<1>7. Converges'
  <2>1. ckpt.offset + 1 \in Offsets
    BY <1>1, <1>5, BoundsAssumption DEF Offsets
  <2> QED
    BY <1>1, <1>5, <1>6, <2>1 DEF Converges
<1>8. /\ \A v \in Workers : v # w => g'[v] = g[v]
      /\ g'[w].pc = "applied" /\ g'[w].own = g[w].own /\ g'[w].next = g[w].next
  <2>1. g' = Goto(w, "applied") /\ "applied" \in PCs
    BY <1>3 DEF SaveOrder, PCs
  <2> QED
    BY <1>1, <2>1, GotoFields
<1>9. InStep'
  <2> SUFFICES ASSUME NEW v \in Workers, Current(v)', g'[v].pc # "starting"
               PROVE  /\ g'[v].next = ckpt.offset
                      /\ g'[v].pc = "saving" => StatusAfter(Event(v).type)' = Replayed[g'[v].next + 1]
                      /\ g'[v].pc \in {"applied", "get", "cas"} => status' = Replayed[g'[v].next + 1]
    BY <1>1, <1>6 DEF InStep
  <2>1. v = w
    <3>1. Current(v)
      BY <1>1, <1>4, <1>8 DEF Current, Live, Orphan
    <3> QED
      BY <1>4, <3>1 DEF CInv, IInv, Alone, Current
  <2> QED
    BY <1>1, <1>5, <1>8, <2>1
<1> QED
  BY <1>7, <1>9

\* So is a checkpoint that is not late, and it follows the put.
LEMMA SaveConverges ==
    ASSUME CInv, NEW w \in Workers, SaveCheckpoint(w)
    PROVE  Converges' /\ InStep'
<1>1. /\ TypeOK /\ g[w].pc \in {"cas", "orphanCas"}
      /\ g[w].next < LogLength /\ g[w].next \in 0..LogLength
      /\ ckpt'.offset = g[w].next + 1
      /\ exposed' = (exposed \/ Late(w))
      /\ UNCHANGED <<log, owner, status>>
  BY Fields DEF CInv, IInv, Progress, SaveCheckpoint, Saved
<1>2. SUFFICES ASSUME ~exposed' PROVE Converges' /\ InStep'
  BY DEF Converges, InStep
<1>3. ~exposed /\ ~Orphan(w) /\ checkFence(w) /\ ~Cancelled(w)
  BY <1>1, <1>2 DEF Late
<1>4. g[w].pc = "cas" /\ Current(w)
  BY <1>1, <1>3 DEF Current, Live, Orphan, checkFence
<1>5. status = Replayed[g[w].next + 1]
  BY <1>3, <1>4 DEF CInv, InStep
<1>6. Replayed' = Replayed
  BY <1>1, ReplayedKept
<1>7. Converges'
  <2>1. ckpt'.offset \in Offsets
    BY <1>1, BoundsAssumption DEF Offsets
  <2> QED
    BY <1>1, <1>5, <1>6, <2>1 DEF Converges
<1>8. g'[w].pc = "ready" /\ g'[w].next = g[w].next + 1
  <2>1. g'[w] = [g[w] EXCEPT !.pc = "ready", !.next = @ + 1, !.fresh = FALSE, !.tries = 0]
    BY <1>3 DEF SaveCheckpoint, Saved
  <2>2. g[w] \in Goroutines
    BY <1>1 DEF TypeOK
  <2> QED
    BY <2>1, <2>2 DEF Goroutines
<1>9. \A v \in Workers \ {w} : g'[v].pc = g[v].pc /\ g'[v].own = g[v].own
  <2> TAKE v \in Workers \ {w}
  <2>1. g'[v] = [g[v] EXCEPT !.fresh = FALSE,
                             !.overtaken = @ \/ (Late(w) /\ g[v].pc # "idle")]
    BY DEF SaveCheckpoint, Saved
  <2>2. g[v] \in Goroutines
    BY <1>1 DEF TypeOK
  <2> QED
    BY <2>1, <2>2 DEF Goroutines
<1>10. InStep'
  <2> SUFFICES ASSUME NEW v \in Workers, Current(v)', g'[v].pc # "starting"
               PROVE  v = w
    BY <1>1, <1>8 DEF InStep
  <2> SUFFICES ASSUME v # w PROVE FALSE
    OBVIOUS
  <2>1. Current(v)
    BY <1>1, <1>9 DEF Current, Live, Orphan
  <2> QED
    BY <1>4, <2>1 DEF CInv, IInv, Alone, Current
<1> QED
  BY <1>7, <1>10

\* The other steps of a goroutine.
LEMMA StepsConverge ==
    ASSUME CInv, NEW w \in Workers,
           \/ CheckFence(w) \/ FenceLost(w) \/ ApplyFails(w) \/ CheckFenceAgain(w)
           \/ GetCheckpoint(w) \/ SaveRefused(w) \/ SaveConflict(w) \/ Abandon(w)
    PROVE  Converges' /\ InStep'
<1>1. TypeOK /\ (g[w].pc # "idle" => g[w].own.node \in Nodes)
  BY DEF CInv, IInv, Progress
\* A step from one place to another at which no more is known.
<1>2. ASSUME NEW pc, UNCHANGED <<log, owner, status, ckpt, exposed>>,
             \A v \in Workers : v # w => g'[v] = g[v],
             g'[w].pc = pc, g'[w].own = g[w].own, g'[w].next = g[w].next,
             \/ g[w].pc = "ready" /\ pc = "reading"
             \/ g[w].pc \in {"applied", "get", "cas"} /\ pc \in {"get", "cas"}
      PROVE  Converges' /\ InStep'
  <2>1. \A v \in Workers : Current(v)' => Current(v)
    BY <1>2 DEF Current, Live, Orphan
  <2> QED
    BY <1>2, <2>1, FrameKeeps
\* A goroutine that returns.
<1>3. ASSUME UNCHANGED <<log, owner, status, ckpt, exposed>>, g' = [g EXCEPT ![w] = Idle]
      PROVE  Converges' /\ InStep'
  <2>1. \A v \in Workers : Current(v)' => g'[v] = g[v] /\ Current(v)
    BY <1>1, <1>3, IdleFields, IdleIs DEF Current, Live, Orphan
  <2> QED
    BY <1>3, <2>1, FrameKeeps
<1>4. CASE CheckFence(w)
  <2>1. /\ g[w].pc = "ready" /\ g' = Goto(w, "reading") /\ "reading" \in PCs
        /\ UNCHANGED <<log, owner, status, ckpt, exposed>>
    BY <1>4 DEF CheckFence, etcd, PCs
  <2> QED
    BY <1>1, <1>2, <2>1, GotoFields
<1>5. CASE FenceLost(w) \/ Abandon(w)
  BY <1>3, <1>5 DEF FenceLost, Abandon, etcd
<1>6. CASE ApplyFails(w) \/ SaveRefused(w)
  BY <1>1, <1>6, EndConverges DEF ApplyFails, SaveRefused
<1>7. CASE CheckFenceAgain(w)
  <2>1. /\ g[w].pc = "applied" /\ "get" \in PCs
        /\ g' = [g EXCEPT ![w] = Idle] \/ g' = Goto(w, "get")
        /\ UNCHANGED <<log, owner, status, ckpt, exposed>>
    BY <1>7 DEF CheckFenceAgain, etcd, PCs
  <2>2. CASE g' = Goto(w, "get")
    BY <1>1, <1>2, <2>1, <2>2, GotoFields
  <2> QED
    BY <1>3, <2>1, <2>2
<1>8. CASE GetCheckpoint(w)
  <2> DEFINE new == [g[w] EXCEPT !.pc = "cas", !.fresh = TRUE]
  <2>1. g[w] \in Goroutines /\ g \in [Workers -> Goroutines]
    BY <1>1 DEF TypeOK
  <2>2. g' = [g EXCEPT ![w] = new]
    BY <1>8, <2>1 DEF GetCheckpoint
  <2>3. new.pc = "cas" /\ new.own = g[w].own /\ new.next = g[w].next
    BY <2>1 DEF Goroutines
  <2> HIDE DEF new
  <2>4. g[w].pc = "get" /\ UNCHANGED <<log, owner, status, ckpt, exposed>>
    BY <1>8 DEF GetCheckpoint, etcd
  <2> QED
    BY <1>2, <2>1, <2>2, <2>3, <2>4
<1>9. CASE SaveConflict(w)
  <2>1. g[w].pc = "cas"
    BY <1>9 DEF SaveConflict
  <2>2. CASE ProcessEnds(g[w].own.node)
    BY <1>1, <2>1, <2>2, EndConverges
  <2>3. CASE /\ g' = [g EXCEPT ![w].pc = "get", ![w].tries = @ + 1]
             /\ UNCHANGED <<log, etcd, runner, crashes, applied, exposed>>
    <3> DEFINE new == [g[w] EXCEPT !.pc = "get", !.tries = @ + 1]
    <3>1. g[w] \in Goroutines /\ g \in [Workers -> Goroutines]
      BY <1>1 DEF TypeOK
    <3>2. g' = [g EXCEPT ![w] = new]
      BY <2>3, <3>1
    <3>3. new.pc = "get" /\ new.own = g[w].own /\ new.next = g[w].next
      BY <3>1 DEF Goroutines
    <3> HIDE DEF new
    <3>4. UNCHANGED <<log, owner, status, ckpt, exposed>>
      BY <2>3 DEF etcd
    <3> QED
      BY <1>2, <2>1, <3>1, <3>2, <3>3, <3>4
  <2> QED
    BY <1>9, <2>2, <2>3 DEF SaveConflict
<1> QED
  BY <1>4, <1>5, <1>6, <1>7, <1>8, <1>9

LEMMA InitCInv == ASSUME Init PROVE CInv
<1>1. IInv
  BY InitEstablishes
<1>2. Converges
  BY ReplayedIs, BoundsAssumption DEF Init, Converges, Offsets
<1>3. InStep
  BY IdleIs DEF Init, InStep, Current, Live
<1> QED
  BY <1>1, <1>2, <1>3 DEF CInv

LEMMA NextCInv == ASSUME CInv, [Next]_vars PROVE CInv'
<1>1. IInv'
  BY NextKeeps DEF CInv
<1>2. ASSUME NEW w \in Workers, Goroutine(w) PROVE Converges' /\ InStep'
  BY <1>2, StartConverges, LoadConverges, PutConverges, SaveConverges, StepsConverge DEF Goroutine
<1>3. CASE UNCHANGED vars
  <2>1. UNCHANGED <<log, owner, status, ckpt, g, exposed>>
    BY <1>3 DEF vars, etcd
  <2>2. \A w \in Workers : Current(w)' => Current(w)
    BY <2>1 DEF Current, Live, Orphan
  <2> QED
    BY <1>1, <2>1, <2>2, FrameKeeps DEF CInv
<1> QED
  BY <1>1, <1>2, <1>3, ProcessesConverge DEF Next, CInv

\* The order's status is that of one replay of the log, however often records
\* are applied again, unless a request came late or a node went on from its
\* memory (ApplyWithFence, loadShardCheckpoint).
THEOREM Convergence == Spec => []Converges
<1>1. CInv => Converges
  BY DEF CInv
<1> QED
  BY <1>1, InitCInv, NextCInv, PTL DEF Spec
=============================================================================
