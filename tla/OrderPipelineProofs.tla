------------------------ MODULE OrderPipelineProofs ------------------------
(***************************************************************************)
(* Proofs about OrderPipeline for any number of orders, riders, attempts,  *)
(* restarts and rollbacks.                                                 *)
(***************************************************************************)
EXTENDS OrderPipeline, FiniteSetTheorems, TLAPS

Reserved(o, r) == \E x \in reservations : x.order = o /\ x.rider = r

\* A transaction of the order worker belongs to the event at the head of the
\* log, and can only make the order pending if that event queues a request.
TxOfHead ==
    \A o \in Orders : ow[o].pc # "idle" =>
        /\ orderLog[o] # <<>>
        /\ ow[o].pc = "reload" \/ ow[o].row.status = "match_pending"
            => queuesMatchRequest(Head(orderLog[o]))

\* The row locks: at most one of the two workers has the order's row, and
\* what the matcher read under its lock still holds.
RowLocks ==
    \A o \in Orders :
        /\ mt[o].pc # "idle" => ow[o].pc # "saved" /\ matchLog[o] # <<>>
        /\ mt[o].pc = "skip" => order[o].status # "match_pending"

\* A reserved rider is locked by one transaction and still has room.
RiderLocks ==
    \A o \in Orders : mt[o].rider # NoRider =>
        /\ mt[o].pc = "matching"
        /\ count[mt[o].rider] < MaxRiderOrders
        /\ \A p \in Orders : mt[p].rider = mt[o].rider => p = o

\* A matched result, on its way or being applied, has its reservation.
ResultsReserved ==
    \A o \in Orders :
        /\ \A e \in outbox[o] : e.type = "order_matched" => Reserved(o, e.rider)
        /\ \A i \in 1..Len(orderLog[o]) :
              orderLog[o][i].type = "order_matched" => Reserved(o, orderLog[o][i].rider)
        /\ ow[o].row.status = "matched" => Reserved(o, ow[o].row.rider)

\* Reservations of a rider: those before the last start and those counted.
Counted ==
    /\ IsFiniteSet(reservations)
    /\ \A r \in Riders :
        Cardinality({x \in reservations : x.rider = r}) <= MaxRiderOrders * restarts + count[r]

IInv == /\ TypeOK
        /\ TxOfHead
        /\ RowLocks
        /\ RiderLocks
        /\ NoStrandedOrder
        /\ ResultsReserved
        /\ MatchedIsReserved
        /\ Counted

----------------------------------------------------------------------------
(* The operators the actions are built from                                *)

USE DEF MarkOrderMatched, MarkOrderMissed, matchedEvent, missedEvent

LEMMA EventTypes ==
    /\ \A e \in Sources : e.type \in {"order_created", "order_cancelled", "order_retry_request"}
    /\ \A e \in Requests : e.type = "match_requested"
    /\ \A e \in Results : e.type \in {"order_matched", "order_missed"}
    /\ \A e \in Sources \cup Requests \cup Results : e.attempt \in Attempts \cup {0}
    /\ \A e \in Results : e.type = "order_matched" => e.rider \in Riders
  BY DEF Sources, Requests, Results, Event, Created, Cancelled, Retry, MatchRequested

\* What Apply saves is a row, never a pending one, and a matched one only on a
\* matched result, with the rider of the result.
LEMMA AppliedRow ==
    ASSUME NEW e \in Sources \cup Results, NEW row \in Rows
    PROVE  /\ Applied(e, row) \in Rows
           /\ Applied(e, row).status # "match_pending"
           /\ Applied(e, row).status = "matched"
                => e.type = "order_matched" /\ Applied(e, row).rider = e.rider
  <1>1. e.type \in {"order_created", "order_cancelled", "order_retry_request",
                    "order_matched", "order_missed"}
        /\ e.attempt \in Attempts \cup {0}
        /\ (e.type = "order_matched" => e.rider \in Riders)
    BY EventTypes
  <1>2. CASE e.type = "order_created"
    BY <1>2 DEF Applied, StatusAfter, Rows, Statuses
  <1>3. CASE e.type = "order_cancelled"
    BY <1>3 DEF Applied, StatusAfter, Rows, Statuses
  <1>4. CASE e.type = "order_retry_request"
    BY <1>1, <1>4 DEF Applied, StatusAfter, Rows, Statuses
  <1>5. CASE e.type = "order_matched"
    BY <1>1, <1>5 DEF Applied, StatusAfter, Rows, Statuses
  <1>6. CASE e.type = "order_missed"
    BY <1>6 DEF Applied, StatusAfter, Rows, Statuses
  <1> QED
    BY <1>1, <1>2, <1>3, <1>4, <1>5, <1>6

\* Queueing keeps the head of a log that has one; consuming keeps the rest.
LEMMA LogFacts ==
    ASSUME NEW S, NEW s \in Seq(S), NEW e \in S
    PROVE  /\ Append(s, e) \in Seq(S)
           /\ s # <<>> => Head(Append(s, e)) = Head(s)
           /\ Append(s, e) # <<>>
           /\ Len(Append(s, e)) = Len(s) + 1
           /\ \A i \in 1..Len(s) : Append(s, e)[i] = s[i]
           /\ Append(s, e)[Len(s) + 1] = e
           /\ s # <<>> => /\ Head(s) \in S
                          /\ Head(s) = s[1]
                          /\ Len(s) > 0
                          /\ Tail(s) \in Seq(S)
                          /\ Len(Tail(s)) = Len(s) - 1
                          /\ \A i \in 1..Len(Tail(s)) : Tail(s)[i] = s[i + 1]
  OBVIOUS

----------------------------------------------------------------------------
\* The types of what the actions build.
LEMMA Typed ==
    /\ NoTx \in [pc : {"idle", "reload", "save", "saved", "done"}, row : Rows]
    /\ NoMatch \in [pc : {"idle", "matching", "skip"}, cands : SUBSET Riders,
                    rider : Riders \cup {NoRider}]
    /\ Created \in Sources /\ Cancelled \in Sources
    /\ \A a \in Attempts : Retry(a) \in Sources
    /\ \A a \in Attempts \cup {0} : MatchRequested(a) \in Requests
    /\ \A a \in Attempts \cup {0} : missedEvent(a) \in Results
    /\ \A a \in Attempts \cup {0}, r \in Riders : matchedEvent(a, r) \in Results
  BY DEF NoTx, NoMatch, NoRow, Rows, Statuses, Sources, Requests, Results

LEMMA RowEdits ==
    ASSUME NEW row \in Rows, NEW status \in Statuses
    PROVE  /\ [row EXCEPT !.status = status] \in Rows
           /\ \A r \in Riders : [row EXCEPT !.status = status, !.rider = r] \in Rows
  BY DEF Rows

LEMMA StatusNames == {"match_pending", "matched", "missed"} \subseteq Statuses
  BY DEF Statuses

\* Producers append events to a log and remember them.
LEMMA SendTyped ==
    ASSUME TypeOK, NEW o \in Orders, NEW e \in Sources, Send(o, e)
    PROVE  /\ orderLog' \in [Orders -> Seq(Sources \cup Results)]
           /\ sent' \in [Orders -> SUBSET Sources]
  BY DEF TypeOK, Send

LEMMA TypeStep ==
    ASSUME IInv, Next
    PROVE  TypeOK'
  <1> USE DEF IInv
  <1>1. ASSUME NEW o \in Orders, CreateOrder(o) PROVE TypeOK'
    BY <1>1, SendTyped, Typed DEF CreateOrder, TypeOK
  <1>2. ASSUME NEW o \in Orders, CancelOrder(o) PROVE TypeOK'
    BY <1>2, SendTyped, Typed DEF CancelOrder, TypeOK
  <1>3. ASSUME NEW o \in Orders, NEW a \in Attempts, ListMissedOrdersForRetry(o, a)
        PROVE  TypeOK'
    BY <1>3 DEF ListMissedOrdersForRetry, TypeOK, logs
  <1>4. ASSUME NEW o \in Orders, NEW a \in Attempts, SendRetry(o, a) PROVE TypeOK'
    BY <1>4, SendTyped, Typed DEF SendRetry, TypeOK
  <1>5. ASSUME NEW o \in Orders, NEW e \in outbox[o], Publish(o, e) PROVE TypeOK'
    <2>1. e \in Requests \/ (e \notin Requests /\ e \in Sources \cup Results)
      BY <1>5 DEF TypeOK
    <2>2. /\ orderLog' \in [Orders -> Seq(Sources \cup Results)]
          /\ matchLog' \in [Orders -> Seq(Requests)]
          /\ outbox' \in [Orders -> SUBSET (Requests \cup Results)]
      <3>1. outbox' \in [Orders -> SUBSET (Requests \cup Results)]
        BY <1>5 DEF Publish, TypeOK
      <3>2. ASSUME e \in Requests
            PROVE  matchLog' \in [Orders -> Seq(Requests)] /\ orderLog' = orderLog
        <4>1. matchLog' = [matchLog EXCEPT ![o] = Append(matchLog[o], e)] /\ orderLog' = orderLog
          BY <1>5, <3>2 DEF Publish
        <4>2. Append(matchLog[o], e) \in Seq(Requests)
          BY <3>2 DEF TypeOK
        <4> QED
          BY <4>1, <4>2 DEF TypeOK
      <3>3. ASSUME e \notin Requests
            PROVE  orderLog' \in [Orders -> Seq(Sources \cup Results)] /\ matchLog' = matchLog
        <4>1. orderLog' = [orderLog EXCEPT ![o] = Append(orderLog[o], e)] /\ matchLog' = matchLog
          BY <1>5, <3>3 DEF Publish
        <4>2. Append(orderLog[o], e) \in Seq(Sources \cup Results)
          BY <2>1, <3>3 DEF TypeOK
        <4> QED
          BY <4>1, <4>2 DEF TypeOK
      <3> QED
        BY <3>1, <3>2, <3>3 DEF TypeOK
    <2> QED
      BY <1>5, <2>2 DEF Publish, TypeOK, env
  <1>6. ASSUME NEW o \in Orders, LoadOrder(o) PROVE TypeOK'
    <2>1. Head(orderLog[o]) \in Sources \cup Results /\ order[o] \in Rows
      BY <1>6 DEF LoadOrder, TypeOK
    <2>2. Applied(Head(orderLog[o]), order[o]) \in Rows /\ NoRow \in Rows
      BY <2>1, AppliedRow DEF NoRow, Rows, Statuses
    <2> QED
      BY <1>6, <2>2 DEF LoadOrder, TypeOK, logs, env
  <1>7. ASSUME NEW o \in Orders, ReloadOrder(o) PROVE TypeOK'
    BY <1>7 DEF ReloadOrder, TypeOK, logs, env
  <1>8. ASSUME NEW o \in Orders, SaveOrder(o) PROVE TypeOK'
    <2>1. ow[o].row \in Rows /\ [ow[o].row EXCEPT !.status = "match_pending"] \in Rows
      BY RowEdits, StatusNames DEF TypeOK
    <2> QED
      BY <1>8, <2>1 DEF SaveOrder, TypeOK, logs, env
  <1>9. ASSUME NEW o \in Orders, CommitOrder(o) PROVE TypeOK'
    <2>1. Queued(Head(orderLog[o])) \subseteq Requests
      BY <1>9, Typed, EventTypes DEF TypeOK, IInv, TxOfHead, CommitOrder, Queued
    <2>2. Tail(orderLog[o]) \in Seq(Sources \cup Results)
      BY <1>9 DEF TypeOK, IInv, TxOfHead, CommitOrder
    <2> QED
      BY <1>9, <2>1, <2>2, Typed DEF CommitOrder, TypeOK, env
  <1>10. ASSUME NEW o \in Orders, RollbackOrder(o) PROVE TypeOK'
    BY <1>10, Typed, BoundsAssumption DEF RollbackOrder, TypeOK, logs, env
  <1>11. ASSUME NEW o \in Orders, NEW cands \in SUBSET Riders, LockOrder(o, cands)
         PROVE  TypeOK'
    BY <1>11 DEF LockOrder, TypeOK, logs, env
  <1>12. ASSUME NEW o \in Orders, NEW r \in Riders, ReserveRider(o, r) PROVE TypeOK'
    <2>1. mt'[o] \in [pc : {"idle", "matching", "skip"}, cands : SUBSET Riders,
                      rider : Riders \cup {NoRider}]
      <3>1. mt[o].pc \in {"idle", "matching", "skip"} /\ mt[o].cands \in SUBSET Riders
            /\ mt[o].rider \in Riders \cup {NoRider}
        BY DEF TypeOK
      <3>2. mt'[o] = [mt[o] EXCEPT !.rider = r] \/ mt'[o] = [mt[o] EXCEPT !.cands = mt[o].cands \ {r}]
        BY <1>12 DEF ReserveRider, TypeOK
      <3> QED
        BY <3>1, <3>2 DEF TypeOK
    <2>2. mt' = [mt EXCEPT ![o] = mt'[o]]
      BY <1>12 DEF ReserveRider, TypeOK
    <2> QED
      BY <1>12, <2>1, <2>2 DEF ReserveRider, TypeOK, logs, env
  <1>13. ASSUME NEW o \in Orders, CommitMatched(o) PROVE TypeOK'
    <2> DEFINE r == mt[o].rider
               a == Head(matchLog[o]).attempt
    <2>1. /\ r \in Riders
          /\ mt[o].pc = "matching"
          /\ matchLog[o] # <<>>
          /\ count[r] < MaxRiderOrders
      BY <1>13 DEF CommitMatched, TypeOK, RiderLocks, RowLocks
    <2>2. a \in Attempts \cup {0} /\ Tail(matchLog[o]) \in Seq(Requests)
      BY <2>1, EventTypes DEF TypeOK
    <2>3. order' \in [Orders -> Rows]
      <3>1. [order[o] EXCEPT !.status = "matched", !.rider = r] \in Rows
        BY <2>1, RowEdits, StatusNames DEF TypeOK
      <3> QED
        BY <1>13, <3>1 DEF CommitMatched, TypeOK
    <2>4. count' \in [Riders -> 0..MaxRiderOrders]
      BY <1>13, <2>1, BoundsAssumption DEF CommitMatched, TypeOK
    <2>5. [order |-> o, attempt |-> a, rider |-> r]
            \in [order : Orders, attempt : Attempts \cup {0}, rider : Riders]
      BY <2>1, <2>2
    <2>6. outbox' \in [Orders -> SUBSET (Requests \cup Results)]
          /\ matchLog' \in [Orders -> Seq(Requests)]
      <3>1. matchedEvent(a, r) \in Results
        BY <2>1, <2>2, Typed
      <3> QED
        BY <1>13, <2>2, <3>1 DEF CommitMatched, TypeOK
    <2>7. mt' = [mt EXCEPT ![o] = NoMatch]
          /\ reservations' = reservations \cup {[order |-> o, attempt |-> a, rider |-> r]}
          /\ UNCHANGED <<orderLog, ow, env, restarts, aborts>>
      BY <1>13 DEF CommitMatched
    <2> QED
      BY <2>3, <2>4, <2>5, <2>6, <2>7, Typed DEF TypeOK, env
  <1>14. ASSUME NEW o \in Orders, CommitMissed(o) PROVE TypeOK'
    <2>1. Head(matchLog[o]).attempt \in Attempts \cup {0} /\ Tail(matchLog[o]) \in Seq(Requests)
      BY <1>14, EventTypes DEF CommitMissed, TypeOK, RowLocks
    <2>2. order' \in [Orders -> Rows]
      <3>1. [order[o] EXCEPT !.status = "missed"] \in Rows
        BY RowEdits, StatusNames DEF TypeOK
      <3> QED
        BY <1>14, <3>1 DEF CommitMissed, TypeOK
    <2>3. outbox' \in [Orders -> SUBSET (Requests \cup Results)]
          /\ matchLog' \in [Orders -> Seq(Requests)]
      BY <1>14, <2>1, Typed DEF CommitMissed, TypeOK
    <2> QED
      BY <1>14, <2>2, <2>3, Typed DEF CommitMissed, TypeOK, env
  <1>15. ASSUME NEW o \in Orders, CommitSkipped(o) PROVE TypeOK'
    <2>1. Tail(matchLog[o]) \in Seq(Requests)
      BY <1>15 DEF CommitSkipped, TypeOK, RowLocks
    <2> QED
      BY <1>15, <2>1, Typed DEF CommitSkipped, TypeOK, env
  <1>16. ASSUME NEW o \in Orders, RollbackMatch(o) PROVE TypeOK'
    BY <1>16, Typed, BoundsAssumption DEF RollbackMatch, TypeOK, logs, env
  <1>17. ASSUME NEW r \in Riders, UpsertRider(r) PROVE TypeOK'
    BY <1>17, BoundsAssumption DEF UpsertRider, TypeOK, logs, env
  <1> QED
    BY <1>1, <1>2, <1>3, <1>4, <1>5, <1>6, <1>7, <1>8, <1>9, <1>10, <1>11, <1>12, <1>13,
       <1>14, <1>15, <1>16, <1>17
       DEF Next, OrderWorker, Matcher, Publisher

----------------------------------------------------------------------------
(* The order worker's transactions                                         *)

LEMMA AppendKeepsTx ==
    ASSUME TypeOK, TxOfHead, NEW o \in Orders, NEW e \in Sources \cup Results,
           orderLog' = [orderLog EXCEPT ![o] = Append(orderLog[o], e)], ow' = ow
    PROVE  TxOfHead'
  <1>1. orderLog[o] \in Seq(Sources \cup Results)
    BY DEF TypeOK
  <1>2. /\ orderLog'[o] = Append(orderLog[o], e)
        /\ \A p \in Orders \ {o} : orderLog'[p] = orderLog[p]
    BY DEF TypeOK
  <1>3. orderLog'[o] # <<>> /\ (orderLog[o] # <<>> => Head(orderLog'[o]) = Head(orderLog[o]))
    BY <1>1, <1>2, LogFacts
  <1> QED
    BY <1>2, <1>3 DEF TxOfHead, queuesMatchRequest

LEMMA TxStep ==
    ASSUME IInv, Next
    PROVE  TxOfHead'
  <1> USE DEF IInv
  <1>1. ASSUME UNCHANGED <<ow, orderLog>> PROVE TxOfHead'
    BY <1>1 DEF TxOfHead
  <1>2. ASSUME NEW o \in Orders, NEW e \in Sources, Send(o, e), ow' = ow PROVE TxOfHead'
    BY <1>2, AppendKeepsTx DEF Send
  <1>3. ASSUME NEW o \in Orders, NEW e \in outbox[o], Publish(o, e) PROVE TxOfHead'
    <2>1. CASE e \in Requests
      BY <1>3, <2>1, <1>1 DEF Publish
    <2>2. CASE e \notin Requests
      BY <1>3, <2>2, AppendKeepsTx DEF Publish, TypeOK
    <2> QED
      BY <2>1, <2>2
  <1>4. ASSUME NEW o \in Orders, LoadOrder(o) PROVE TxOfHead'
    <2> DEFINE e == Head(orderLog[o])
    <2>1. e \in Sources \cup Results /\ order[o] \in Rows /\ orderLog[o] # <<>>
      BY <1>4 DEF LoadOrder, TypeOK
    <2>2. Applied(e, order[o]).status # "match_pending"
      BY <2>1, AppliedRow
    <2>3. \/ ow'[o] = [pc |-> "save", row |-> Applied(e, order[o])]
          \/ ow'[o] = [pc |-> "reload", row |-> NoRow] /\ queuesMatchRequest(e)
          \/ ow'[o] = [pc |-> "done", row |-> NoRow]
      BY <1>4 DEF LoadOrder, TypeOK
    <2>4. ow'[o].pc = "reload" \/ ow'[o].row.status = "match_pending" => queuesMatchRequest(e)
      BY <2>2, <2>3 DEF NoRow
    <2>5. orderLog' = orderLog /\ \A p \in Orders \ {o} : ow'[p] = ow[p]
      BY <1>4 DEF LoadOrder, TypeOK, logs
    <2> QED
      BY <2>1, <2>4, <2>5 DEF TxOfHead
  <1>5. ASSUME NEW o \in Orders, ReloadOrder(o) PROVE TxOfHead'
    BY <1>5 DEF ReloadOrder, TypeOK, logs, TxOfHead
  <1>6. ASSUME NEW o \in Orders, SaveOrder(o) PROVE TxOfHead'
    <2> DEFINE queues == queuesMatchRequest(Head(orderLog[o]))
    <2>1. /\ orderLog' = orderLog
          /\ \A p \in Orders \ {o} : ow'[p] = ow[p]
          /\ ow'[o].pc = "saved"
          /\ ~queues => ow'[o].row = ow[o].row
      BY <1>6 DEF SaveOrder, TypeOK, logs
    <2>2. ow[o].pc = "save"
      BY <1>6 DEF SaveOrder
    <2> QED
      BY <2>1, <2>2 DEF TxOfHead
  <1>7. ASSUME NEW o \in Orders, ow' = [ow EXCEPT ![o] = NoTx],
               \A p \in Orders \ {o} : orderLog'[p] = orderLog[p]
        PROVE  TxOfHead'
    BY <1>7 DEF TxOfHead, NoTx, TypeOK
  <1>8. ASSUME NEW o \in Orders, CommitOrder(o) \/ RollbackOrder(o) PROVE TxOfHead'
    BY <1>7, <1>8 DEF CommitOrder, RollbackOrder, TypeOK, logs
  <1>9. ASSUME NEW o \in Orders, CreateOrder(o) \/ CancelOrder(o) PROVE TxOfHead'
    BY <1>2, <1>9, Typed DEF CreateOrder, CancelOrder
  <1>10. ASSUME NEW o \in Orders, NEW a \in Attempts, SendRetry(o, a) PROVE TxOfHead'
    BY <1>2, <1>10, Typed DEF SendRetry
  <1>11. ASSUME NEW o \in Orders, NEW a \in Attempts, ListMissedOrdersForRetry(o, a)
         PROVE  TxOfHead'
    BY <1>1, <1>11 DEF ListMissedOrdersForRetry, logs
  <1>12. ASSUME NEW o \in Orders, Matcher(o) \/ RollbackMatch(o) PROVE TxOfHead'
    BY <1>1, <1>12 DEF Matcher, LockOrder, ReserveRider, CommitMatched, CommitMissed,
                       CommitSkipped, RollbackMatch, logs
  <1>13. ASSUME NEW r \in Riders, UpsertRider(r) PROVE TxOfHead'
    BY <1>1, <1>13 DEF UpsertRider, logs
  <1> QED
    BY <1>3, <1>4, <1>5, <1>6, <1>8, <1>9, <1>10, <1>11, <1>12, <1>13
       DEF Next, OrderWorker, Publisher

----------------------------------------------------------------------------
(* The row locks                                                           *)

LEMMA RowLocksStep ==
    ASSUME IInv, Next
    PROVE  RowLocks'
  <1> USE DEF IInv
  <1>1. ASSUME UNCHANGED <<ow, mt, order, matchLog>> PROVE RowLocks'
    BY <1>1 DEF RowLocks
  <1>2. ASSUME NEW o \in Orders, CreateOrder(o) \/ CancelOrder(o) PROVE RowLocks'
    BY <1>1, <1>2 DEF CreateOrder, CancelOrder
  <1>3. ASSUME NEW o \in Orders, NEW a \in Attempts,
               ListMissedOrdersForRetry(o, a) \/ SendRetry(o, a)
        PROVE  RowLocks'
    BY <1>1, <1>3 DEF ListMissedOrdersForRetry, SendRetry, logs
  <1>4. ASSUME NEW r \in Riders, UpsertRider(r) PROVE RowLocks'
    BY <1>1, <1>4 DEF UpsertRider, logs
  <1>5. ASSUME NEW o \in Orders, NEW e \in outbox[o], Publish(o, e) PROVE RowLocks'
    <2>1. \A p \in Orders : matchLog[p] # <<>> => matchLog'[p] # <<>>
      <3>1. CASE e \in Requests
        <4>1. matchLog' = [matchLog EXCEPT ![o] = Append(matchLog[o], e)]
          BY <1>5, <3>1 DEF Publish
        <4>2. matchLog[o] \in Seq(Requests)
          BY DEF TypeOK
        <4>3. Append(matchLog[o], e) # <<>>
          BY <3>1, <4>2, LogFacts
        <4> QED
          BY <4>1, <4>3 DEF TypeOK
      <3>2. CASE e \notin Requests
        BY <1>5, <3>2 DEF Publish
      <3> QED
        BY <3>1, <3>2
    <2> QED
      BY <1>5, <2>1 DEF Publish, RowLocks
  <1>6. ASSUME NEW o \in Orders, ow'[o].pc # "saved",
               \A p \in Orders \ {o} : ow'[p] = ow[p], UNCHANGED <<mt, order, matchLog>>
        PROVE  RowLocks'
    BY <1>6 DEF RowLocks
  <1>7. ASSUME NEW o \in Orders, LoadOrder(o) \/ ReloadOrder(o) \/ RollbackOrder(o)
        PROVE  RowLocks'
    <2>1. ow'[o].pc # "saved"
      BY <1>7 DEF LoadOrder, ReloadOrder, RollbackOrder, TypeOK, NoTx
    <2>2. UNCHANGED <<mt, order, matchLog>> /\ \A p \in Orders \ {o} : ow'[p] = ow[p]
      BY <1>7 DEF LoadOrder, ReloadOrder, RollbackOrder, TypeOK, logs
    <2> QED
      BY <1>6, <2>1, <2>2
  <1>8. ASSUME NEW o \in Orders, SaveOrder(o) PROVE RowLocks'
    BY <1>8 DEF SaveOrder, TypeOK, logs, RowLocks
  <1>9. ASSUME NEW o \in Orders, CommitOrder(o) PROVE RowLocks'
    <2>1. /\ UNCHANGED <<mt, matchLog>>
          /\ \A p \in Orders \ {o} : ow'[p] = ow[p] /\ order'[p] = order[p]
          /\ ow'[o].pc # "saved"
          /\ ow[o].pc = "saved" \/ order'[o] = order[o]
      BY <1>9 DEF CommitOrder, TypeOK, NoTx
    <2> QED
      BY <2>1 DEF RowLocks
  <1>10. ASSUME NEW o \in Orders, NEW cands \in SUBSET Riders, LockOrder(o, cands)
         PROVE  RowLocks'
    BY <1>10 DEF LockOrder, TypeOK, logs, RowLocks
  <1>11. ASSUME NEW o \in Orders, NEW r \in Riders, ReserveRider(o, r) PROVE RowLocks'
    <2>1. mt'[o].pc = mt[o].pc
      BY <1>11 DEF ReserveRider, TypeOK
    <2> QED
      BY <1>11, <2>1 DEF ReserveRider, TypeOK, logs, RowLocks
  <1>12. ASSUME NEW o \in Orders, CommitMatched(o) \/ CommitMissed(o) \/ CommitSkipped(o)
                                  \/ RollbackMatch(o)
         PROVE  RowLocks'
    <2>1. /\ ow' = ow
          /\ mt' = [mt EXCEPT ![o] = NoMatch]
          /\ \A p \in Orders \ {o} : matchLog'[p] = matchLog[p] /\ order'[p] = order[p]
      BY <1>12 DEF CommitMatched, CommitMissed, CommitSkipped, RollbackMatch, TypeOK, logs
    <2> QED
      BY <2>1 DEF RowLocks, TypeOK, NoMatch
  <1> QED
    BY <1>2, <1>3, <1>4, <1>5, <1>7, <1>8, <1>9, <1>10, <1>11, <1>12
       DEF Next, OrderWorker, Matcher, Publisher

LEMMA RiderLocksStep ==
    ASSUME IInv, Next
    PROVE  RiderLocks'
  <1> USE DEF IInv
  <1>1. ASSUME UNCHANGED <<mt, count>> PROVE RiderLocks'
    BY <1>1 DEF RiderLocks
  <1>2. ASSUME NEW o \in Orders, \/ CreateOrder(o) \/ CancelOrder(o) \/ OrderWorker(o)
                                 \/ Publisher(o) \/ RollbackOrder(o)
        PROVE  RiderLocks'
    BY <1>1, <1>2 DEF CreateOrder, CancelOrder, OrderWorker, LoadOrder, ReloadOrder, SaveOrder,
                      CommitOrder, Publisher, Publish, RollbackOrder
  <1>3. ASSUME NEW o \in Orders, NEW a \in Attempts,
               ListMissedOrdersForRetry(o, a) \/ SendRetry(o, a)
        PROVE  RiderLocks'
    BY <1>1, <1>3 DEF ListMissedOrdersForRetry, SendRetry
  <1>4. ASSUME NEW r \in Riders, UpsertRider(r) PROVE RiderLocks'
    <2>1. mt' = mt /\ \A o \in Orders : mt[o].rider # NoRider => count'[mt[o].rider] = count[mt[o].rider]
      BY <1>4 DEF UpsertRider, TypeOK
    <2> QED
      BY <2>1 DEF RiderLocks
  <1>5. ASSUME NEW o \in Orders, mt'[o].rider = NoRider,
               \A p \in Orders \ {o} : /\ mt'[p] = mt[p]
                                       /\ mt[p].rider # NoRider
                                            => count'[mt[p].rider] = count[mt[p].rider]
        PROVE  RiderLocks'
    BY <1>5 DEF RiderLocks
  <1>6. ASSUME NEW o \in Orders, NEW cands \in SUBSET Riders, LockOrder(o, cands)
         PROVE  RiderLocks'
    BY <1>5, <1>6 DEF LockOrder, TypeOK
  <1>7. ASSUME NEW o \in Orders, NEW r \in Riders, ReserveRider(o, r) PROVE RiderLocks'
    <2>1. count' = count /\ \A p \in Orders \ {o} : mt'[p] = mt[p] /\ mt[p].rider # r
      BY <1>7 DEF ReserveRider, TypeOK
    <2>2. mt'[o].pc = "matching"
          /\ \/ mt'[o].rider = r /\ count[r] < MaxRiderOrders
             \/ mt'[o].rider = NoRider
      BY <1>7 DEF ReserveRider, TypeOK
    <2> QED
      BY <2>1, <2>2 DEF RiderLocks
  <1>8. ASSUME NEW o \in Orders, CommitMissed(o) \/ CommitSkipped(o) \/ RollbackMatch(o)
        PROVE  RiderLocks'
    BY <1>5, <1>8 DEF CommitMissed, CommitSkipped, RollbackMatch, TypeOK, NoMatch
  <1>9. ASSUME NEW o \in Orders, CommitMatched(o) PROVE RiderLocks'
    <2>1. mt'[o].rider = NoRider /\ \A p \in Orders \ {o} : mt'[p] = mt[p]
      BY <1>9 DEF CommitMatched, TypeOK, NoMatch
    <2>2. \A p \in Orders \ {o} : mt[p].rider # mt[o].rider
      BY <1>9 DEF CommitMatched, RiderLocks
    <2>3. \A r \in Riders : r # mt[o].rider => count'[r] = count[r]
      BY <1>9 DEF CommitMatched, TypeOK
    <2>4. \A p \in Orders : mt[p].rider # NoRider => mt[p].rider \in Riders
      BY DEF TypeOK
    <2> QED
      BY <1>5, <2>1, <2>2, <2>3, <2>4
  <1> QED
    BY <1>2, <1>3, <1>4, <1>6, <1>7, <1>8, <1>9 DEF Next, Matcher

----------------------------------------------------------------------------
(* No order is stranded                                                    *)

\* Something that will bring the matcher to order o.
Awaited(o) == matchLog[o] # <<>> \/ \E e \in outbox[o] : e \in Requests

LEMMA StrandedStep ==
    ASSUME IInv, Next
    PROVE  NoStrandedOrder'
  <1> USE DEF IInv
  <1>1. ASSUME NEW o \in Orders, order'[o].status # "match_pending" \/ Awaited(o)',
               \A p \in Orders \ {o} : /\ order'[p] = order[p]
                                       /\ matchLog'[p] = matchLog[p]
                                       /\ outbox'[p] = outbox[p]
        PROVE  NoStrandedOrder'
    BY <1>1 DEF NoStrandedOrder, Awaited
  <1>2. ASSUME UNCHANGED <<order, matchLog, outbox>> PROVE NoStrandedOrder'
    BY <1>2 DEF NoStrandedOrder
  <1>3. ASSUME NEW o \in Orders, \/ CreateOrder(o) \/ CancelOrder(o) \/ LoadOrder(o)
                                 \/ ReloadOrder(o) \/ SaveOrder(o) \/ RollbackOrder(o)
                                 \/ RollbackMatch(o)
        PROVE  NoStrandedOrder'
    BY <1>2, <1>3 DEF CreateOrder, CancelOrder, LoadOrder, ReloadOrder, SaveOrder, RollbackOrder,
                      RollbackMatch, logs
  <1>4. ASSUME NEW o \in Orders, NEW a \in Attempts,
               ListMissedOrdersForRetry(o, a) \/ SendRetry(o, a)
        PROVE  NoStrandedOrder'
    BY <1>2, <1>4 DEF ListMissedOrdersForRetry, SendRetry, logs
  <1>5. ASSUME NEW r \in Riders, UpsertRider(r) PROVE NoStrandedOrder'
    BY <1>2, <1>5 DEF UpsertRider, logs
  <1>6. ASSUME NEW o \in Orders, NEW cands \in SUBSET Riders, LockOrder(o, cands)
        PROVE  NoStrandedOrder'
    BY <1>2, <1>6 DEF LockOrder, logs
  <1>7. ASSUME NEW o \in Orders, NEW r \in Riders, ReserveRider(o, r) PROVE NoStrandedOrder'
    BY <1>2, <1>7 DEF ReserveRider, logs
  <1>8. ASSUME NEW o \in Orders, NEW e \in outbox[o], Publish(o, e) PROVE NoStrandedOrder'
    <2>1. order' = order /\ outbox' = [outbox EXCEPT ![o] = outbox[o] \ {e}]
      BY <1>8 DEF Publish
    <2>2. CASE e \in Requests
      <3>1. matchLog' = [matchLog EXCEPT ![o] = Append(matchLog[o], e)]
        BY <1>8, <2>2 DEF Publish
      <3>2. matchLog[o] \in Seq(Requests)
        BY DEF TypeOK
      <3>3. Append(matchLog[o], e) # <<>>
        BY <2>2, <3>2, LogFacts
      <3>4. Awaited(o)'
        BY <3>1, <3>3 DEF TypeOK, Awaited
      <3> QED
        BY <1>1, <2>1, <3>1, <3>4 DEF TypeOK
    <2>3. CASE e \notin Requests
      <3>1. matchLog' = matchLog
        BY <1>8, <2>3 DEF Publish
      <3>2. outbox'[o] = outbox[o] \ {e}
        BY <2>1 DEF TypeOK
      <3>3. order'[o].status # "match_pending" \/ Awaited(o)'
        BY <2>1, <2>3, <3>1, <3>2 DEF NoStrandedOrder, Awaited
      <3> QED
        BY <1>1, <2>1, <3>1, <3>3 DEF TypeOK
    <2> QED
      BY <2>2, <2>3
  <1>9. ASSUME NEW o \in Orders, CommitOrder(o) PROVE NoStrandedOrder'
    <2> DEFINE e == Head(orderLog[o])
    <2>1. /\ \A p \in Orders \ {o} : order'[p] = order[p] /\ outbox'[p] = outbox[p]
          /\ matchLog' = matchLog
          /\ outbox'[o] = outbox[o] \cup Queued(e)
          /\ order'[o] = ow[o].row \/ order'[o] = order[o]
      BY <1>9 DEF CommitOrder, TypeOK
    <2>2. CASE order'[o] = order[o]
      <3>1. order'[o].status # "match_pending" \/ Awaited(o)'
        BY <2>1, <2>2 DEF NoStrandedOrder, Awaited
      <3> QED
        BY <1>1, <2>1, <3>1
    <2>3. CASE order'[o] = ow[o].row
      <3>1. ow[o].row.status = "match_pending" => queuesMatchRequest(e)
        BY <1>9 DEF CommitOrder, TxOfHead
      <3>2. orderLog[o] \in Seq(Sources \cup Results) /\ orderLog[o] # <<>>
        BY <1>9 DEF CommitOrder, TypeOK, TxOfHead
      <3>3. e.attempt \in Attempts \cup {0}
        BY <3>2, EventTypes
      <3>4. queuesMatchRequest(e) => MatchRequested(e.attempt) \in Queued(e)
                                      /\ MatchRequested(e.attempt) \in Requests
        BY <3>3, Typed DEF Queued
      <3>5. order'[o].status # "match_pending" \/ Awaited(o)'
        BY <2>1, <2>3, <3>1, <3>4 DEF Awaited
      <3> QED
        BY <1>1, <2>1, <3>5
    <2> QED
      BY <2>1, <2>2, <2>3
  <1>10. ASSUME NEW o \in Orders, CommitMatched(o) \/ CommitMissed(o) PROVE NoStrandedOrder'
    <2>1. order'[o].status # "match_pending"
      <3>1. order[o] \in Rows
        BY DEF TypeOK
      <3>2. /\ [order[o] EXCEPT !.status = "matched", !.rider = mt[o].rider].status = "matched"
            /\ [order[o] EXCEPT !.status = "missed"].status = "missed"
        BY <3>1 DEF Rows
      <3>3. \/ order'[o] = [order[o] EXCEPT !.status = "matched", !.rider = mt[o].rider]
            \/ order'[o] = [order[o] EXCEPT !.status = "missed"]
        BY <1>10 DEF CommitMatched, CommitMissed, TypeOK
      <3> QED
        BY <3>2, <3>3
    <2>2. \A p \in Orders \ {o} : /\ order'[p] = order[p]
                                  /\ matchLog'[p] = matchLog[p]
                                  /\ outbox'[p] = outbox[p]
      BY <1>10 DEF CommitMatched, CommitMissed, TypeOK
    <2> QED
      BY <1>1, <2>1, <2>2
  <1>11. ASSUME NEW o \in Orders, CommitSkipped(o) PROVE NoStrandedOrder'
    <2>1. order' = order /\ outbox' = outbox /\ order[o].status # "match_pending"
      BY <1>11 DEF CommitSkipped, RowLocks
    <2>2. \A p \in Orders \ {o} : matchLog'[p] = matchLog[p]
      BY <1>11 DEF CommitSkipped, TypeOK
    <2> QED
      BY <1>1, <2>1, <2>2
  <1> QED
    BY <1>3, <1>4, <1>5, <1>6, <1>7, <1>8, <1>9, <1>10, <1>11
       DEF Next, OrderWorker, Matcher, Publisher

----------------------------------------------------------------------------
(* Results and matched rows have their reservation                         *)

LEMMA ReservedStays ==
    ASSUME IInv, Next, NEW o \in Orders, NEW r, Reserved(o, r)
    PROVE  Reserved(o, r)'
  <1>1. reservations \subseteq reservations'
    BY DEF Next, CreateOrder, CancelOrder, ListMissedOrdersForRetry, SendRetry, OrderWorker,
           LoadOrder, ReloadOrder, SaveOrder, CommitOrder, RollbackOrder, Matcher, LockOrder,
           ReserveRider, CommitMatched, CommitMissed, CommitSkipped, RollbackMatch, Publisher,
           Publish, UpsertRider
  <1> QED
    BY <1>1 DEF Reserved

\* What ResultsReserved and MatchedIsReserved say of one order.
Truthful(o) ==
    /\ \A e \in outbox[o] : e.type = "order_matched" => Reserved(o, e.rider)
    /\ \A i \in 1..Len(orderLog[o]) :
          orderLog[o][i].type = "order_matched" => Reserved(o, orderLog[o][i].rider)
    /\ ow[o].row.status = "matched" => Reserved(o, ow[o].row.rider)
    /\ order[o].status = "matched" => Reserved(o, order[o].rider)

LEMMA ReservedStep ==
    ASSUME IInv, Next
    PROVE  ResultsReserved' /\ MatchedIsReserved'
  <1> USE DEF IInv
  <1>1. \A o \in Orders : Truthful(o)
    BY DEF Truthful, ResultsReserved, MatchedIsReserved, Reserved
  <1>2. ASSUME NEW o \in Orders, UNCHANGED <<outbox[o], orderLog[o], ow[o], order[o]>>
        PROVE  Truthful(o)'
    BY <1>1, <1>2, ReservedStays DEF Truthful
  <1>3. ASSUME NEW o \in Orders, Truthful(o)',
               \A p \in Orders \ {o} : UNCHANGED <<outbox[p], orderLog[p], ow[p], order[p]>>
        PROVE  \A p \in Orders : Truthful(p)'
    BY <1>2, <1>3
  <1>4. ASSUME NEW o \in Orders, NEW e \in Sources \cup Results,
               e.type = "order_matched" => Reserved(o, e.rider),
               orderLog'[o] = Append(orderLog[o], e), outbox'[o] \subseteq outbox[o],
               UNCHANGED <<ow[o], order[o]>>
        PROVE  Truthful(o)'
    <2>1. orderLog[o] \in Seq(Sources \cup Results)
      BY DEF TypeOK
    <2>2. /\ Len(orderLog'[o]) = Len(orderLog[o]) + 1
          /\ \A i \in 1..Len(orderLog[o]) : orderLog'[o][i] = orderLog[o][i]
          /\ orderLog'[o][Len(orderLog[o]) + 1] = e
      BY <1>4, <2>1, LogFacts
    <2>3. \A i \in 1..Len(orderLog'[o]) : i \in 1..Len(orderLog[o]) \/ i = Len(orderLog[o]) + 1
      BY <2>1, <2>2
    <2>4. \A i \in 1..Len(orderLog'[o]) :
             orderLog'[o][i].type = "order_matched" => Reserved(o, orderLog'[o][i].rider)
      BY <1>1, <1>4, <2>2, <2>3 DEF Truthful
    <2> QED
      BY <1>1, <1>4, <2>4, ReservedStays DEF Truthful
  <1>5. ASSUME NEW o \in Orders, NEW e \in Sources, Send(o, e), UNCHANGED <<outbox, ow, order>>
        PROVE  \A p \in Orders : Truthful(p)'
    <2>1. orderLog'[o] = Append(orderLog[o], e) /\ \A p \in Orders \ {o} : orderLog'[p] = orderLog[p]
      BY <1>5 DEF Send, TypeOK
    <2>2. e.type # "order_matched"
      BY EventTypes
    <2> QED
      BY <1>3, <1>4, <1>5, <2>1, <2>2
  <1>6. ASSUME NEW o \in Orders, CreateOrder(o) \/ CancelOrder(o)
        PROVE  \A p \in Orders : Truthful(p)'
    BY <1>5, <1>6, Typed DEF CreateOrder, CancelOrder
  <1>7. ASSUME NEW o \in Orders, NEW a \in Attempts, SendRetry(o, a)
        PROVE  \A p \in Orders : Truthful(p)'
    BY <1>5, <1>7, Typed DEF SendRetry
  <1>8. ASSUME UNCHANGED <<outbox, orderLog, ow, order>> PROVE \A p \in Orders : Truthful(p)'
    BY <1>2, <1>8
  <1>9. ASSUME NEW o \in Orders, NEW a \in Attempts, ListMissedOrdersForRetry(o, a)
        PROVE  \A p \in Orders : Truthful(p)'
    BY <1>8, <1>9 DEF ListMissedOrdersForRetry, logs
  <1>10. ASSUME NEW r \in Riders, UpsertRider(r) PROVE \A p \in Orders : Truthful(p)'
    BY <1>8, <1>10 DEF UpsertRider, logs
  <1>11. ASSUME NEW o \in Orders, NEW e \in outbox[o], Publish(o, e)
         PROVE  \A p \in Orders : Truthful(p)'
    <2>1. /\ UNCHANGED <<ow, order>>
          /\ outbox'[o] = outbox[o] \ {e}
          /\ \A p \in Orders \ {o} : outbox'[p] = outbox[p]
      BY <1>11 DEF Publish, TypeOK
    <2>2. CASE e \in Requests
      <3>1. orderLog' = orderLog
        BY <1>11, <2>2 DEF Publish
      <3>2. Truthful(o)'
        BY <1>1, <2>1, <3>1, ReservedStays DEF Truthful
      <3> QED
        BY <1>3, <2>1, <3>1, <3>2
    <2>3. CASE e \notin Requests
      <3>1. e \in Sources \cup Results
        BY <2>3 DEF TypeOK
      <3>2. orderLog' = [orderLog EXCEPT ![o] = Append(orderLog[o], e)]
        BY <1>11, <2>3 DEF Publish
      <3>3. orderLog'[o] = Append(orderLog[o], e)
            /\ \A p \in Orders \ {o} : orderLog'[p] = orderLog[p]
        BY <3>2 DEF TypeOK
      <3>4. e.type = "order_matched" => Reserved(o, e.rider)
        BY <1>1 DEF Truthful
      <3> QED
        BY <1>3, <1>4, <2>1, <3>1, <3>3, <3>4
    <2> QED
      BY <2>2, <2>3
  <1>12. ASSUME NEW o \in Orders, UNCHANGED <<outbox, orderLog, order>>,
                \A p \in Orders \ {o} : ow'[p] = ow[p],
                ow'[o].row.status = "matched" => Reserved(o, ow'[o].row.rider)
         PROVE  \A p \in Orders : Truthful(p)'
    <2>1. Truthful(o)'
      BY <1>1, <1>12, ReservedStays DEF Truthful
    <2> QED
      BY <1>3, <1>12, <2>1
  <1>13. ASSUME NEW o \in Orders, LoadOrder(o) PROVE \A p \in Orders : Truthful(p)'
    <2> DEFINE e == Head(orderLog[o])
    <2>1. orderLog[o] \in Seq(Sources \cup Results) /\ orderLog[o] # <<>> /\ order[o] \in Rows
      BY <1>13 DEF LoadOrder, TypeOK
    <2>2. e \in Sources \cup Results /\ e = orderLog[o][1] /\ 1 \in 1..Len(orderLog[o])
      BY <2>1
    <2>3. e.type = "order_matched" => Reserved(o, e.rider)
      BY <1>1, <2>2 DEF Truthful
    <2>4. ow'[o].row = Applied(e, order[o]) \/ ow'[o].row = NoRow
      BY <1>13 DEF LoadOrder, TypeOK
    <2>5. ow'[o].row.status = "matched" => Reserved(o, ow'[o].row.rider)
      BY <2>1, <2>2, <2>3, <2>4, AppliedRow DEF NoRow
    <2>6. UNCHANGED <<outbox, orderLog, order>> /\ \A p \in Orders \ {o} : ow'[p] = ow[p]
      BY <1>13 DEF LoadOrder, TypeOK, logs
    <2> QED
      BY <1>12, <2>5, <2>6
  <1>14. ASSUME NEW o \in Orders, ReloadOrder(o) PROVE \A p \in Orders : Truthful(p)'
    <2>1. /\ ow'[o].row = order[o]
          /\ UNCHANGED <<outbox, orderLog, order>>
          /\ \A p \in Orders \ {o} : ow'[p] = ow[p]
      BY <1>14 DEF ReloadOrder, TypeOK, logs
    <2> QED
      BY <1>1, <1>12, <2>1 DEF Truthful
  <1>15. ASSUME NEW o \in Orders, SaveOrder(o) PROVE \A p \in Orders : Truthful(p)'
    <2>1. /\ ow'[o].row = ow[o].row \/ ow'[o].row = [ow[o].row EXCEPT !.status = "match_pending"]
          /\ UNCHANGED <<outbox, orderLog, order>>
          /\ \A p \in Orders \ {o} : ow'[p] = ow[p]
      BY <1>15 DEF SaveOrder, TypeOK, logs
    <2>2. ow[o].row \in Rows
      BY DEF TypeOK
    <2>3. ow'[o].row = ow[o].row \/ ow'[o].row.status # "matched"
      BY <2>1, <2>2 DEF Rows
    <2> QED
      BY <1>1, <1>12, <2>1, <2>3 DEF Truthful
  <1>16. ASSUME NEW o \in Orders, RollbackOrder(o) PROVE \A p \in Orders : Truthful(p)'
    <2>1. /\ ow'[o].row.status # "matched"
          /\ UNCHANGED <<outbox, orderLog, order>>
          /\ \A p \in Orders \ {o} : ow'[p] = ow[p]
      BY <1>16 DEF RollbackOrder, TypeOK, logs, NoTx, NoRow
    <2> QED
      BY <1>12, <2>1
  <1>17. ASSUME NEW o \in Orders, CommitOrder(o) PROVE \A p \in Orders : Truthful(p)'
    <2> DEFINE log == orderLog[o]
    <2>1. /\ \A p \in Orders \ {o} : UNCHANGED <<outbox[p], orderLog[p], ow[p], order[p]>>
          /\ outbox'[o] = outbox[o] \cup Queued(Head(log))
          /\ orderLog'[o] = Tail(log)
          /\ order'[o] = ow[o].row \/ order'[o] = order[o]
          /\ ow'[o].row.status # "matched"
      BY <1>17 DEF CommitOrder, TypeOK, NoTx, NoRow
    <2>2. log \in Seq(Sources \cup Results) /\ log # <<>>
      BY <1>17 DEF CommitOrder, TypeOK, TxOfHead
    <2>3. \A i \in 1..Len(Tail(log)) : Tail(log)[i] = log[i + 1] /\ i + 1 \in 1..Len(log)
      BY <2>2
    <2>4. \A e \in Queued(Head(log)) : e.type # "order_matched"
      BY DEF Queued, MatchRequested, Event
    <2>5. \A i \in 1..Len(orderLog'[o]) :
            orderLog'[o][i].type = "order_matched" => Reserved(o, orderLog'[o][i].rider)
      BY <1>1, <2>1, <2>3 DEF Truthful
    <2>6. Truthful(o)'
      BY <1>1, <2>1, <2>4, <2>5, ReservedStays DEF Truthful
    <2> QED
      BY <1>3, <2>1, <2>6
  <1>18. ASSUME NEW o \in Orders, NEW cands \in SUBSET Riders, LockOrder(o, cands)
         PROVE  \A p \in Orders : Truthful(p)'
    BY <1>8, <1>18 DEF LockOrder, logs
  <1>19. ASSUME NEW o \in Orders, NEW r \in Riders, ReserveRider(o, r)
         PROVE  \A p \in Orders : Truthful(p)'
    BY <1>8, <1>19 DEF ReserveRider, logs
  <1>20. ASSUME NEW o \in Orders, RollbackMatch(o) \/ CommitSkipped(o)
         PROVE  \A p \in Orders : Truthful(p)'
    BY <1>8, <1>20 DEF RollbackMatch, CommitSkipped, logs
  <1>21. ASSUME NEW o \in Orders, CommitMatched(o) PROVE \A p \in Orders : Truthful(p)'
    <2>0. PICK r, a : r = mt[o].rider /\ a = Head(matchLog[o]).attempt
      OBVIOUS
    <2>1. /\ \A p \in Orders \ {o} : UNCHANGED <<outbox[p], orderLog[p], ow[p], order[p]>>
          /\ outbox'[o] = outbox[o] \cup {matchedEvent(a, r)}
          /\ UNCHANGED <<orderLog, ow>>
          /\ order'[o].rider = r
      <3>1. order[o] \in Rows
        BY DEF TypeOK
      <3>2. [order[o] EXCEPT !.status = "matched", !.rider = r].rider = r
        BY <3>1 DEF Rows
      <3> QED
        BY <1>21, <2>0, <3>2 DEF CommitMatched, TypeOK
    <2>2. Reserved(o, r)'
      <3>1. [order |-> o, attempt |-> a, rider |-> r] \in reservations'
        BY <1>21, <2>0 DEF CommitMatched
      <3>2. \E x \in reservations' : x.order = o /\ x.rider = r
        BY <3>1
      <3> QED
        BY <3>2 DEF Reserved
    <2>3. matchedEvent(a, r).rider = r
      BY DEF Event
    <2>4. Truthful(o)'
      BY <1>1, <2>1, <2>2, <2>3, ReservedStays DEF Truthful
    <2> QED
      BY <1>3, <2>1, <2>4
  <1>22. ASSUME NEW o \in Orders, CommitMissed(o) PROVE \A p \in Orders : Truthful(p)'
    <2> DEFINE a == Head(matchLog[o]).attempt
    <2>1. /\ \A p \in Orders \ {o} : UNCHANGED <<outbox[p], orderLog[p], ow[p], order[p]>>
          /\ outbox'[o] = outbox[o] \cup {missedEvent(a)}
          /\ UNCHANGED <<orderLog, ow>>
          /\ order'[o].status = "missed"
      <3>1. order[o] \in Rows
        BY DEF TypeOK
      <3>2. [order[o] EXCEPT !.status = "missed"].status = "missed"
        BY <3>1 DEF Rows
      <3> QED
        BY <1>22, <3>2 DEF CommitMissed, TypeOK
    <2>2. missedEvent(a).type # "order_matched"
      BY DEF Event
    <2>3. Truthful(o)'
      BY <1>1, <2>1, <2>2, ReservedStays DEF Truthful
    <2> QED
      BY <1>3, <2>1, <2>3
  <1>23. \A p \in Orders : Truthful(p)'
    BY <1>6, <1>7, <1>9, <1>10, <1>11, <1>13, <1>14, <1>15, <1>16, <1>17, <1>18, <1>19, <1>20,
       <1>21, <1>22
       DEF Next, OrderWorker, Matcher, Publisher
  <1> QED
    BY <1>23 DEF Truthful, ResultsReserved, MatchedIsReserved, Reserved

----------------------------------------------------------------------------
(* Rider capacity                                                          *)

Of(r) == {x \in reservations : x.rider = r}

LEMMA CountedStep ==
    ASSUME IInv, Next
    PROVE  Counted'
  <1> USE DEF IInv
  <1>1. ASSUME UNCHANGED <<reservations, restarts, count>> PROVE Counted'
    BY <1>1 DEF Counted
  <1>2. ASSUME NEW o \in Orders, \/ CreateOrder(o) \/ CancelOrder(o) \/ OrderWorker(o)
                                 \/ Publisher(o) \/ RollbackOrder(o) \/ RollbackMatch(o)
                                 \/ CommitMissed(o) \/ CommitSkipped(o)
        PROVE  Counted'
    BY <1>1, <1>2 DEF CreateOrder, CancelOrder, OrderWorker, LoadOrder, ReloadOrder, SaveOrder,
                      CommitOrder, Publisher, Publish, RollbackOrder, RollbackMatch, CommitMissed,
                      CommitSkipped
  <1>3. ASSUME NEW o \in Orders, NEW a \in Attempts,
               ListMissedOrdersForRetry(o, a) \/ SendRetry(o, a)
        PROVE  Counted'
    BY <1>1, <1>3 DEF ListMissedOrdersForRetry, SendRetry
  <1>4. ASSUME NEW o \in Orders, NEW cands \in SUBSET Riders, LockOrder(o, cands)
        PROVE  Counted'
    BY <1>1, <1>4 DEF LockOrder
  <1>5. ASSUME NEW o \in Orders, NEW r \in Riders, ReserveRider(o, r) PROVE Counted'
    BY <1>1, <1>5 DEF ReserveRider
  <1>6. ASSUME NEW o \in Orders, CommitMatched(o) PROVE Counted'
    <2>1. PICK r \in Riders : r = mt[o].rider
      BY <1>6 DEF CommitMatched, TypeOK
    <2>2. PICK x : x.rider = r /\ reservations' = reservations \cup {x}
      <3>1. [order |-> o, attempt |-> Head(matchLog[o]).attempt, rider |-> r].rider = r
        OBVIOUS
      <3> QED
        BY <1>6, <2>1, <3>1 DEF CommitMatched
    <2>3. /\ restarts' = restarts
          /\ count'[r] = count[r] + 1
          /\ \A q \in Riders \ {r} : count'[q] = count[q]
      BY <1>6, <2>1 DEF CommitMatched, TypeOK
    <2>4. IsFiniteSet(reservations')
      BY <2>2, FS_AddElement DEF Counted
    <2>5. \A q \in Riders \ {r} : Of(q)' = Of(q)
      BY <2>2 DEF Of
    <2>6. Of(r)' = Of(r) \cup {x}
      BY <2>2 DEF Of
    <2>7. IsFiniteSet(Of(r))
      BY FS_Subset DEF Of, Counted
    <2>8. Cardinality(Of(r)) \in Nat /\ Cardinality(Of(r)') <= Cardinality(Of(r)) + 1
      <3>1. /\ Cardinality(Of(r)) \in Nat
            /\ Cardinality(Of(r) \cup {x}) = IF x \in Of(r) THEN Cardinality(Of(r))
                                              ELSE Cardinality(Of(r)) + 1
        BY <2>7, FS_AddElement, FS_CardinalityType
      <3> QED
        BY <2>6, <3>1
    <2>9. Cardinality(Of(r)') \in Nat
      <3>1. IsFiniteSet(Of(r) \cup {x})
        BY <2>7, FS_AddElement
      <3> QED
        BY <2>6, <3>1, FS_CardinalityType
    <2>10. MaxRiderOrders * restarts \in Nat /\ count[r] \in Nat
      BY BoundsAssumption DEF TypeOK
    <2>11. Cardinality(Of(r)) <= MaxRiderOrders * restarts + count[r]
      BY DEF Counted, Of
    <2>12. Cardinality(Of(r)') <= MaxRiderOrders * restarts' + count'[r]
      BY <2>3, <2>8, <2>9, <2>10, <2>11
    <2>13. \A q \in Riders : Cardinality(Of(q)') <= MaxRiderOrders * restarts' + count'[q]
      BY <2>3, <2>5, <2>12 DEF Counted, Of
    <2> QED
      BY <2>4, <2>13 DEF Counted, Of
  <1>7. ASSUME NEW r \in Riders, UpsertRider(r) PROVE Counted'
    <2>1. /\ reservations' = reservations
          /\ restarts' = restarts + 1
          /\ count'[r] = 0
          /\ \A q \in Riders \ {r} : count'[q] = count[q]
      BY <1>7 DEF UpsertRider, TypeOK
    <2>2. ASSUME NEW q \in Riders
          PROVE  Cardinality(Of(q)) <= MaxRiderOrders * restarts' + count'[q]
      <3>1. IsFiniteSet(Of(q))
        BY FS_Subset DEF Of, Counted
      <3>2. Cardinality(Of(q)) \in Nat
        BY <3>1, FS_CardinalityType
      <3>3. Cardinality(Of(q)) <= MaxRiderOrders * restarts + count[q]
        BY DEF Counted, Of
      <3>4. count[q] \in 0..MaxRiderOrders /\ restarts \in Nat /\ MaxRiderOrders \in Nat
        BY BoundsAssumption DEF TypeOK
      <3>5. count'[q] \in Nat
        <4>1. q = r \/ q \in Riders \ {r}
          OBVIOUS
        <4> QED
          BY <2>1, <3>4, <4>1
      <3>6. MaxRiderOrders * restarts' = MaxRiderOrders * restarts + MaxRiderOrders
            /\ MaxRiderOrders * restarts \in Nat
        BY <2>1, <3>4
      <3> QED
        BY <3>2, <3>3, <3>4, <3>5, <3>6
    <2> QED
      BY <2>1, <2>2 DEF Counted, Of
  <1> QED
    BY <1>2, <1>3, <1>4, <1>5, <1>6, <1>7 DEF Next, Matcher

----------------------------------------------------------------------------
(* The theorems                                                            *)

LEMMA InitIInv == Init => IInv
  <1> SUFFICES ASSUME Init PROVE IInv
    OBVIOUS
  <1>1. TypeOK
    BY Typed, BoundsAssumption DEF Init, TypeOK, NoRow, Rows, Statuses
  <1>2. TxOfHead /\ RowLocks /\ RiderLocks /\ NoStrandedOrder
    BY DEF Init, TxOfHead, RowLocks, RiderLocks, NoStrandedOrder, NoTx, NoMatch, NoRow
  <1>3. ResultsReserved /\ MatchedIsReserved
    BY DEF Init, ResultsReserved, MatchedIsReserved, NoTx, NoRow
  <1>4. Counted
    <2>1. \A r \in Riders : {x \in reservations : x.rider = r} = {}
      BY DEF Init
    <2>2. restarts = 0 /\ reservations = {} /\ \A r \in Riders : count[r] = 0
      BY DEF Init
    <2> QED
      BY <2>1, <2>2, FS_EmptySet, BoundsAssumption DEF Counted
  <1> QED
    BY <1>1, <1>2, <1>3, <1>4 DEF IInv

LEMMA NextIInv == IInv /\ [Next]_vars => IInv'
  <1>1. ASSUME IInv, Next PROVE IInv'
    BY <1>1, TypeStep, TxStep, RowLocksStep, RiderLocksStep, StrandedStep, ReservedStep,
       CountedStep DEF IInv
  <1>2. ASSUME IInv, UNCHANGED vars PROVE IInv'
    BY <1>2 DEF IInv, vars, logs, env, TypeOK, TxOfHead, RowLocks, RiderLocks, NoStrandedOrder,
                ResultsReserved, MatchedIsReserved, Reserved, Counted
  <1> QED
    BY <1>1, <1>2

\* The inductive invariant holds in every reachable state.
THEOREM Invariance == Spec => []IInv
  BY InitIInv, NextIInv, PTL DEF Spec

\* Every variable keeps its type: in particular no rider's count ever passes
\* MaxRiderOrders (ReserveRider under concurrent transactions).
THEOREM TypeCorrect == Spec => []TypeOK
  <1>1. IInv => TypeOK
    BY DEF IInv
  <1> QED
    BY <1>1, Invariance, PTL

\* A pending order always has a match request on its way, although the order
\* worker writes back rows it read without a lock.
THEOREM NotStranded == Spec => []NoStrandedOrder
  <1>1. IInv => NoStrandedOrder
    BY DEF IInv
  <1> QED
    BY <1>1, Invariance, PTL

\* A matched order names a rider that was reserved for it.
THEOREM MatchedReserved == Spec => []MatchedIsReserved
  <1>1. IInv => MatchedIsReserved
    BY DEF IInv
  <1> QED
    BY <1>1, Invariance, PTL

\* A rider gets at most MaxRiderOrders orders, and as many more with every
\* start of a shard (ReserveRider and the start hook).
THEOREM CapacityPerStart == Spec => []ReservationsBounded
  <1>1. ASSUME IInv PROVE ReservationsBounded
    <2>1. ASSUME NEW r \in Riders
          PROVE  Cardinality({x \in reservations : x.rider = r}) <= MaxRiderOrders * (1 + restarts)
      <3>1. IsFiniteSet({x \in reservations : x.rider = r})
        BY <1>1, FS_Subset DEF IInv, Counted
      <3>2. Cardinality({x \in reservations : x.rider = r}) \in Nat
        BY <3>1, FS_CardinalityType
      <3>3. Cardinality({x \in reservations : x.rider = r})
              <= MaxRiderOrders * restarts + count[r]
        BY <1>1 DEF IInv, Counted
      <3>4. count[r] \in 0..MaxRiderOrders /\ restarts \in Nat /\ MaxRiderOrders \in Nat
        BY <1>1, BoundsAssumption DEF IInv, TypeOK
      <3>5. MaxRiderOrders * (1 + restarts) = MaxRiderOrders * restarts + MaxRiderOrders
            /\ MaxRiderOrders * restarts \in Nat
        BY <3>4
      <3> QED
        BY <3>2, <3>3, <3>4, <3>5
    <2> QED
      BY <2>1 DEF ReservationsBounded
  <1> QED
    BY <1>1, Invariance, PTL
============================================================================
