----------------------- MODULE OutboxPublisherProofs -----------------------
(***************************************************************************)
(* Proofs about OutboxPublisher for any number of publishers, events,      *)
(* topics and faults.                                                      *)
(***************************************************************************)
EXTENDS OutboxPublisher, RankTheorems

----------------------------------------------------------------------------
(* The inductive invariant                                                 *)

\* The append of an event waiting to be marked published succeeded.
AckedWasWritten == \A p \in Publishers : \A e \in acked[p] : copies[e] > 0 \/ e \in lost

\* The publishers that will append e if nothing stops them.
Pending(e) == {p \in Publishers : e \in batch[p]}

\* Another publisher can come to claim e, now or when time has passed.
Free(e) == e \notin published /\ ~(e \in leased /\ InUse(e))

One(b) == IF b THEN 1 ELSE 0

\* The copies there are, those under way and the next claim: all but one of
\* them are paid for by faults.
Charged ==
    \A e \in Events :
        /\ IsFiniteSet(Pending(e))
        /\ copies[e] + Cardinality(Pending(e)) + One(Free(e)) <= 1 + faults

IInv == TypeOK /\ AckedWasWritten /\ PublishedWasWritten /\ Charged

----------------------------------------------------------------------------
(* Lemmas about the helpers                                                *)

\* What an append adds to Kafka is bounded by the attempts, all but one of
\* which are faults, and what it adds to no event is lost.
LEMMA Written ==
    ASSUME TypeOK, NEW p \in Publishers, NEW t \in Topics,
           NEW failed \in SUBSET Items(p, t), WriteMessages(p, t, failed)
    PROVE  /\ copies' \in [Events -> Nat]
           /\ faults' \in faults..MaxFaults
           /\ failed # {} => faults' > faults
           /\ lost \subseteq lost' /\ lost' \subseteq lost \cup Items(p, t)
           /\ \A e \in Events :
                /\ copies[e] <= copies'[e]
                /\ e \notin Items(p, t) => copies'[e] = copies[e]
                /\ e \in failed => copies'[e] <= copies[e] + (faults' - faults)
                /\ copies'[e] <= copies[e] + 1 + (faults' - faults)
                /\ e \in Items(p, t) \ failed => copies'[e] > 0 \/ e \in lost'
  <1> DEFINE items == Items(p, t)
  <1>0. PICK retries \in 0..(MaxFaults - faults) : \E landed \in [items -> 0..(retries + 1)] :
          /\ failed # {} => retries > 0
          /\ \A e \in failed : landed[e] <= retries
          /\ copies' = [e \in Events |-> IF e \in items THEN copies[e] + landed[e] ELSE copies[e]]
          /\ lost' = lost \cup {e \in items \ failed : landed[e] = 0}
          /\ faults' = faults + retries
    BY Zenon DEF WriteMessages
  <1>1. PICK landed \in [items -> 0..(retries + 1)] :
          /\ failed # {} => retries > 0
          /\ \A e \in failed : landed[e] <= retries
          /\ copies' = [e \in Events |-> IF e \in items THEN copies[e] + landed[e] ELSE copies[e]]
          /\ lost' = lost \cup {e \in items \ failed : landed[e] = 0}
          /\ faults' = faults + retries
    BY <1>0
  <1>2. faults \in Nat /\ MaxFaults \in Nat /\ faults <= MaxFaults /\ copies \in [Events -> Nat]
    BY BoundsAssumption DEF TypeOK
  <1>3. retries \in Nat /\ faults' - faults = retries /\ faults' \in faults..MaxFaults
    BY <1>1, <1>2
  <1> HIDE DEF items
  <1>4. \A e \in items : landed[e] \in Nat /\ landed[e] <= retries + 1
    BY <1>1, <1>3
  <1>5. copies' \in [Events -> Nat]
    BY <1>1, <1>2, <1>4
  <1>6. failed # {} => faults' > faults
    BY <1>1, <1>2, <1>3
  <1>7. ASSUME NEW e \in Events
        PROVE  /\ copies[e] <= copies'[e]
               /\ e \notin items => copies'[e] = copies[e]
               /\ e \in failed => copies'[e] <= copies[e] + retries
               /\ copies'[e] <= copies[e] + 1 + retries
               /\ e \in items \ failed => copies'[e] > 0 \/ e \in lost'
    <2>1. copies[e] \in Nat
      BY <1>2
    <2>2. CASE e \in items
      <3>1. copies'[e] = copies[e] + landed[e]
        BY <1>1, <2>2
      <3>2. e \in failed => landed[e] <= retries
        BY <1>1
      <3>3. e \notin failed => landed[e] # 0 \/ e \in lost'
        BY <1>1, <2>2
      <3> QED
        BY <1>3, <1>4, <2>1, <2>2, <3>1, <3>2, <3>3
    <2>3. CASE e \notin items
      <3>1. copies'[e] = copies[e] /\ e \notin failed
        BY <1>1, <2>3 DEF items
      <3> QED
        BY <1>3, <2>1, <2>3, <3>1
    <2> QED
      BY <2>2, <2>3
  <1>8. lost \subseteq lost' /\ lost' \subseteq lost \cup items
    BY <1>1
  <1> QED
    BY <1>3, <1>5, <1>6, <1>7, <1>8 DEF items

\* ORDER BY occurred_at LIMIT BatchSize returns no more than that.
LEMMA FirstIsBatch ==
    ASSUME NEW S \in SUBSET Events
    PROVE  First(S) \subseteq S /\ Cardinality(First(S)) <= BatchSize
  <1> DEFINE R == {pair \in S \X S : pair[1] < pair[2]}
  <1>1. S \subseteq Nat /\ IsFiniteSet(S) /\ BatchSize \in Nat
    BY EventsAssumption, BoundsAssumption, FS_Subset
  <1>2. \A d, e \in S : <<d, e>> \in R <=> d < e
    OBVIOUS
  <1>3. Orders(R, S)
    <2> HIDE DEF R
    <2> QED
      BY <1>1, <1>2 DEF Orders
  <1>4. \A e \in S : Rank(R, S, e) = Cardinality({d \in S : d < e})
    <2> TAKE e \in S
    <2>1. {d \in S : <<d, e>> \in R} = {d \in S : d < e}
      BY <1>2
    <2> QED
      BY <2>1 DEF Rank
  <1>5. First(S) = {e \in S : Rank(R, S, e) < BatchSize}
    BY <1>4 DEF First
  <1> QED
    BY <1>1, <1>3, <1>5, FirstBounded

\* A batch that shrinks keeps to the limit.
LEMMA SmallerBatch ==
    ASSUME TypeOK, NEW p \in Publishers, NEW S \in SUBSET batch[p]
    PROVE  Cardinality(S) <= BatchSize
  <1>1. IsFiniteSet(batch[p])
    BY EventsAssumption, FS_Subset DEF TypeOK
  <1>2. IsFiniteSet(S) /\ Cardinality(S) <= Cardinality(batch[p])
    BY <1>1, FS_Subset
  <1>3. Cardinality(S) \in Nat /\ Cardinality(batch[p]) \in Nat /\ Cardinality(batch[p]) <= BatchSize
    BY <1>1, <1>2, FS_CardinalityType DEF TypeOK
  <1> QED
    BY <1>2, <1>3, BoundsAssumption

\* How the number of publishers that will append e changes with p's batch.
LEMMA PendingChanges ==
    ASSUME TypeOK, Charged, NEW p \in Publishers, NEW S, batch' = [batch EXCEPT ![p] = S],
           NEW e \in Events
    PROVE  /\ IsFiniteSet(Pending(e)')
           /\ Cardinality(Pending(e)') = Cardinality(Pending(e)) + One(e \in S) - One(e \in batch[p])
           /\ Cardinality(Pending(e)) \in Nat
  <1>1. IsFiniteSet(Pending(e)) /\ Cardinality(Pending(e)) \in Nat
    BY FS_CardinalityType DEF Charged
  <1>2. CASE e \in S
    <2>1. Pending(e)' = Pending(e) \cup {p}
      BY <1>2 DEF Pending, TypeOK
    <2>2. p \in Pending(e) <=> e \in batch[p]
      BY DEF Pending
    <2> QED
      BY <1>1, <1>2, <2>1, <2>2, FS_AddElement DEF One
  <1>3. CASE e \notin S
    <2>1. Pending(e)' = Pending(e) \ {p}
      BY <1>3 DEF Pending, TypeOK
    <2>2. p \in Pending(e) <=> e \in batch[p]
      BY DEF Pending
    <2> QED
      BY <1>1, <1>3, <2>1, <2>2, FS_RemoveElement DEF One
  <1> QED
    BY <1>2, <1>3

\* The claims p gives up are its own.
LEMMA ReleaseIs ==
    ASSUME TypeOK, NEW p \in Publishers, NEW S, Release(p, S)
    PROVE  /\ claimedBy' \in [Events -> Publishers \cup {NoPublisher}]
           /\ leased' \subseteq leased
           /\ \A e \in Events : e \in leased' <=> e \in leased /\ ~(e \in S /\ claimedBy[e] = p)
           /\ \A e \in Events : \A q \in Publishers :
                claimedBy'[e] = q <=> claimedBy[e] = q /\ ~(e \in S /\ claimedBy[e] = p)
  BY PublishersAssumption DEF TypeOK, Release, Mine

----------------------------------------------------------------------------
(* The steps                                                               *)

LEMMA CreateKeeps ==
    ASSUME IInv, NEW e \in Events, CreateOutboxEvent(e)
    PROVE  IInv'
  <1>1. TypeOK'
    BY DEF IInv, TypeOK, CreateOutboxEvent, kafka
  <1>2. AckedWasWritten' /\ PublishedWasWritten'
    BY DEF IInv, AckedWasWritten, PublishedWasWritten, CreateOutboxEvent, kafka
  <1>3. Charged'
    BY DEF IInv, Charged, CreateOutboxEvent, kafka, Pending, Free, InUse, Holds, One
  <1> QED
    BY <1>1, <1>2, <1>3 DEF IInv

LEMMA LeaseEndKeeps ==
    ASSUME IInv, NEW e \in Events, LeaseExpires(e) \/ LeaseOutlived(e)
    PROVE  IInv'
  <1>1. /\ leased' = leased \ {e}
        /\ UNCHANGED <<rows, claimedBy, published, batch, acked, copies, lost>>
        /\ \/ ~InUse(e) /\ faults' = faults
           \/ faults < MaxFaults /\ faults' = faults + 1
    BY DEF LeaseExpires, LeaseOutlived, kafka
  <1>2. TypeOK'
    BY <1>1, BoundsAssumption DEF IInv, TypeOK
  <1>3. AckedWasWritten' /\ PublishedWasWritten'
    BY <1>1 DEF IInv, AckedWasWritten, PublishedWasWritten
  <1>4. ASSUME NEW d \in Events
        PROVE  /\ IsFiniteSet(Pending(d)')
               /\ copies'[d] + Cardinality(Pending(d)') + One(Free(d)') <= 1 + faults'
    <2>1. Pending(d)' = Pending(d) /\ InUse(d)' = InUse(d)
      BY <1>1 DEF Pending, InUse, Holds
    <2>2. /\ IsFiniteSet(Pending(d))
          /\ copies[d] + Cardinality(Pending(d)) + One(Free(d)) <= 1 + faults
          /\ Cardinality(Pending(d)) \in Nat /\ copies[d] \in Nat /\ faults \in Nat
      BY FS_CardinalityType, BoundsAssumption DEF IInv, Charged, TypeOK
    <2>3. Free(d)' => Free(d) \/ faults' = faults + 1
      BY <1>1, <2>1 DEF Free
    <2> QED
      BY <1>1, <2>1, <2>2, <2>3 DEF One
  <1>5. Charged'
    BY <1>4 DEF Charged
  <1> QED
    BY <1>2, <1>3, <1>5 DEF IInv

LEMMA ClaimKeeps ==
    ASSUME IInv, NEW p \in Publishers, Claim(p)
    PROVE  IInv'
  <1>1. PICK locked : LET claimed == First(Claimable \ locked)
                      IN  /\ Holds(p) = {}
                          /\ claimedBy' = [e \in Events |-> IF e \in claimed THEN p ELSE claimedBy[e]]
                          /\ leased' = leased \cup claimed
                          /\ batch' = [batch EXCEPT ![p] = claimed]
                          /\ UNCHANGED <<rows, published, acked, copies, lost, faults>>
    BY DEF Claim, kafka
  <1> DEFINE claimed == First(Claimable \ locked)
  <1>2. /\ claimed \subseteq (rows \ published) \ leased
        /\ Cardinality(claimed) <= BatchSize
        /\ rows \subseteq Events
    <2>1. Claimable \ locked \in SUBSET Events /\ rows \subseteq Events
      BY DEF Claimable, IInv, TypeOK
    <2> QED
      BY <2>1, FirstIsBatch DEF Claimable
  <1> HIDE DEF claimed
  <1>3. /\ Holds(p) = {}
        /\ claimedBy' = [e \in Events |-> IF e \in claimed THEN p ELSE claimedBy[e]]
        /\ leased' = leased \cup claimed
        /\ batch' = [batch EXCEPT ![p] = claimed]
        /\ UNCHANGED <<rows, published, acked, copies, lost, faults>>
    BY <1>1 DEF claimed
  <1>4. TypeOK'
    BY <1>2, <1>3 DEF IInv, TypeOK
  <1>5. AckedWasWritten' /\ PublishedWasWritten'
    BY <1>3 DEF IInv, AckedWasWritten, PublishedWasWritten
  <1>6. ASSUME NEW e \in Events
        PROVE  /\ IsFiniteSet(Pending(e)')
               /\ copies'[e] + Cardinality(Pending(e)') + One(Free(e)') <= 1 + faults'
    <2>1. /\ IsFiniteSet(Pending(e)')
          /\ Cardinality(Pending(e)') = Cardinality(Pending(e)) + One(e \in claimed)
          /\ Cardinality(Pending(e)) \in Nat
      <3>1. e \notin batch[p]
        BY <1>3 DEF Holds
      <3>2. /\ IsFiniteSet(Pending(e)')
            /\ Cardinality(Pending(e)') =
                 Cardinality(Pending(e)) + One(e \in claimed) - One(e \in batch[p])
            /\ Cardinality(Pending(e)) \in Nat
        BY <1>3, PendingChanges DEF IInv
      <3> QED
        BY <3>1, <3>2 DEF One
    <2>2. /\ copies[e] + Cardinality(Pending(e)) + One(Free(e)) <= 1 + faults
          /\ copies[e] \in Nat /\ faults \in Nat
      BY BoundsAssumption DEF IInv, Charged, TypeOK
    <2>3. CASE e \in claimed
      <3>1. Free(e)
        BY <1>2, <2>3 DEF Free
      <3>2. InUse(e)' /\ e \in leased'
        BY <1>3, <2>3 DEF InUse, Holds, IInv, TypeOK
      <3>3. ~Free(e)'
        BY <3>2 DEF Free
      <3> QED
        BY <1>3, <2>1, <2>2, <2>3, <3>1, <3>3 DEF One
    <2>4. CASE e \notin claimed
      <3>1. InUse(e) => InUse(e)'
        BY <1>3, <2>4 DEF InUse, Holds, IInv, TypeOK
      <3>2. Free(e)' => Free(e)
        BY <1>3, <2>4, <3>1 DEF Free
      <3> QED
        BY <1>3, <2>1, <2>2, <2>4, <3>2 DEF One
    <2> QED
      BY <2>3, <2>4
  <1>7. Charged'
    BY <1>6 DEF Charged
  <1> QED
    BY <1>4, <1>5, <1>7 DEF IInv

LEMMA NoTargetKeeps ==
    ASSUME IInv, NEW p \in Publishers, NEW t \in Topics, NoTarget(p, t)
    PROVE  IInv'
  <1> DEFINE items == Items(p, t)
  <1>1. /\ items \subseteq batch[p]
        /\ Release(p, items)
        /\ batch' = [batch EXCEPT ![p] = batch[p] \ items]
        /\ UNCHANGED <<rows, published, acked, copies, lost, faults>>
        /\ TypeOK
    BY DEF NoTarget, Items, IInv, kafka
  <1> HIDE DEF items
  <1>2. TypeOK'
    <2>1. Cardinality(batch[p] \ items) <= BatchSize
      BY <1>1, SmallerBatch
    <2>2. batch' \in [Publishers -> SUBSET rows] /\ leased' \subseteq rows
      BY <1>1, ReleaseIs DEF TypeOK
    <2> QED
      BY <1>1, <2>1, <2>2, ReleaseIs DEF TypeOK
  <1>3. AckedWasWritten' /\ PublishedWasWritten'
    BY <1>1 DEF IInv, AckedWasWritten, PublishedWasWritten
  <1>4. ASSUME NEW e \in Events
        PROVE  /\ IsFiniteSet(Pending(e)')
               /\ copies'[e] + Cardinality(Pending(e)') + One(Free(e)') <= 1 + faults'
    <2>1. /\ IsFiniteSet(Pending(e)')
          /\ Cardinality(Pending(e)') = Cardinality(Pending(e)) - One(e \in items)
          /\ Cardinality(Pending(e)) \in Nat
      <3>1. /\ IsFiniteSet(Pending(e)')
            /\ Cardinality(Pending(e)') =
                 Cardinality(Pending(e)) + One(e \in batch[p] \ items) - One(e \in batch[p])
            /\ Cardinality(Pending(e)) \in Nat
        BY <1>1, PendingChanges DEF IInv
      <3> QED
        BY <1>1, <3>1 DEF One
    <2>2. /\ copies[e] + Cardinality(Pending(e)) + One(Free(e)) <= 1 + faults
          /\ copies[e] \in Nat /\ faults \in Nat
      BY BoundsAssumption DEF IInv, Charged, TypeOK
    <2>3. e \notin items => (Free(e)' => Free(e))
      <3> SUFFICES ASSUME e \notin items, Free(e)' PROVE Free(e)
        OBVIOUS
      <3>1. e \in leased' <=> e \in leased
        BY <1>1, ReleaseIs
      <3>2. \A q \in Publishers : claimedBy'[e] = q <=> claimedBy[e] = q
        BY <1>1, ReleaseIs
      <3>3. InUse(e) => InUse(e)'
        BY <1>1, <3>2 DEF InUse, Holds, TypeOK
      <3> QED
        BY <1>1, <3>1, <3>3 DEF Free
    <2> QED
      BY <1>1, <2>1, <2>2, <2>3 DEF One
  <1>5. Charged'
    BY <1>4 DEF Charged
  <1> QED
    BY <1>2, <1>3, <1>5 DEF IInv

LEMMA PublishTopicKeeps ==
    ASSUME IInv, NEW p \in Publishers, NEW t \in Topics, PublishTopic(p, t)
    PROVE  IInv'
  <1> DEFINE items == Items(p, t)
  <1>1. PICK failed \in SUBSET items, marked \in SUBSET items :
          /\ marked \subseteq failed
          /\ WriteMessages(p, t, failed)
          /\ Release(p, marked)
          /\ acked' = [acked EXCEPT ![p] = items \ failed]
          /\ batch' = [batch EXCEPT ![p] = batch[p] \ items]
          /\ UNCHANGED <<rows, published>>
    BY DEF PublishTopic, Failures
  <1>2. TypeOK /\ items \subseteq batch[p] /\ acked[p] = {}
    BY DEF PublishTopic, Items, IInv
  <1>3. items \subseteq rows /\ rows \subseteq Events
    BY <1>2 DEF TypeOK
  <1>4. /\ copies' \in [Events -> Nat]
        /\ faults' \in faults..MaxFaults
        /\ failed # {} => faults' > faults
        /\ lost \subseteq lost' /\ lost' \subseteq lost \cup items
        /\ \A e \in Events :
             /\ copies[e] <= copies'[e]
             /\ e \notin items => copies'[e] = copies[e]
             /\ e \in failed => copies'[e] <= copies[e] + (faults' - faults)
             /\ copies'[e] <= copies[e] + 1 + (faults' - faults)
             /\ e \in items \ failed => copies'[e] > 0 \/ e \in lost'
    BY <1>1, <1>2, Written
  <1> HIDE DEF items
  <1>5. TypeOK'
    <2>1. Cardinality(batch[p] \ items) <= BatchSize
      BY <1>2, SmallerBatch
    <2>2. /\ batch' \in [Publishers -> SUBSET rows]
          /\ acked' \in [Publishers -> SUBSET rows]
          /\ leased' \subseteq rows
          /\ lost' \subseteq rows
      BY <1>1, <1>2, <1>3, <1>4, ReleaseIs DEF TypeOK
    <2>3. faults' \in 0..MaxFaults
      BY <1>2, <1>4, BoundsAssumption DEF TypeOK
    <2>4. \A q \in Publishers : Cardinality(batch'[q]) <= BatchSize
      BY <1>1, <1>2, <2>1 DEF TypeOK
    <2>5. claimedBy' \in [Events -> Publishers \cup {NoPublisher}]
      BY <1>1, <1>2, ReleaseIs
    <2> QED
      BY <1>1, <1>2, <1>4, <2>2, <2>3, <2>4, <2>5 DEF TypeOK
  <1>6. \A e \in Events : copies[e] \in Nat /\ copies'[e] \in Nat
    BY <1>2, <1>4 DEF TypeOK
  <1>7. AckedWasWritten'
    <2> SUFFICES ASSUME NEW q \in Publishers, NEW e \in acked'[q]
                 PROVE  copies'[e] > 0 \/ e \in lost'
      BY DEF AckedWasWritten
    <2>1. CASE q = p
      <3>1. e \in items \ failed /\ e \in Events
        BY <1>1, <1>2, <1>3, <2>1 DEF TypeOK
      <3> QED
        BY <1>4, <3>1
    <2>2. CASE q # p
      <3>1. e \in acked[q] /\ e \in Events /\ (copies[e] > 0 \/ e \in lost)
        BY <1>1, <1>2, <1>3, <2>2 DEF TypeOK, IInv, AckedWasWritten
      <3> QED
        BY <1>4, <1>6, <3>1
    <2> QED
      BY <2>1, <2>2
  <1>8. PublishedWasWritten'
    <2> SUFFICES ASSUME NEW e \in published' PROVE copies'[e] > 0 \/ e \in lost'
      BY DEF PublishedWasWritten
    <2>1. e \in Events /\ (copies[e] > 0 \/ e \in lost)
      BY <1>1, <1>2, <1>3 DEF TypeOK, IInv, PublishedWasWritten
    <2> QED
      BY <1>4, <1>6, <2>1
  <1>9. ASSUME NEW e \in Events
        PROVE  /\ IsFiniteSet(Pending(e)')
               /\ copies'[e] + Cardinality(Pending(e)') + One(Free(e)') <= 1 + faults'
    <2>1. /\ IsFiniteSet(Pending(e)')
          /\ Cardinality(Pending(e)') = Cardinality(Pending(e)) - One(e \in items)
          /\ Cardinality(Pending(e)) \in Nat
      <3>1. /\ IsFiniteSet(Pending(e)')
            /\ Cardinality(Pending(e)') =
                 Cardinality(Pending(e)) + One(e \in batch[p] \ items) - One(e \in batch[p])
            /\ Cardinality(Pending(e)) \in Nat
        BY <1>1, <1>2, PendingChanges DEF IInv
      <3> QED
        BY <1>1, <1>2, <3>1 DEF One
    <2>2. /\ copies[e] + Cardinality(Pending(e)) + One(Free(e)) <= 1 + faults
          /\ copies[e] \in Nat /\ faults \in Nat
      BY BoundsAssumption DEF IInv, Charged, TypeOK
    \* Only an event whose append has failed can become free, and that was a fault.
    <2>3. e \notin failed => (Free(e)' => Free(e))
      <3> SUFFICES ASSUME e \notin failed, Free(e)' PROVE Free(e)
        OBVIOUS
      <3>1. e \in leased' <=> e \in leased
        BY <1>1, <1>2, ReleaseIs
      <3>2. \A q \in Publishers : claimedBy'[e] = q <=> claimedBy[e] = q
        BY <1>1, <1>2, ReleaseIs
      <3>3. \A q \in Publishers : e \in Holds(q) => e \in Holds(q)'
        BY <1>1, <1>2 DEF Holds, TypeOK
      <3>4. InUse(e) => InUse(e)'
        BY <3>2, <3>3 DEF InUse
      <3> QED
        BY <1>1, <3>1, <3>4 DEF Free
    <2>4. faults' \in Nat /\ faults' >= faults /\ copies'[e] \in Nat
      BY <1>4, <1>5, <2>2, BoundsAssumption DEF TypeOK
    <2>5. CASE e \in failed
      <3>1. e \in items /\ copies'[e] <= copies[e] + (faults' - faults)
        BY <1>1, <1>4, <2>5
      <3> QED
        BY <2>1, <2>2, <2>4, <3>1 DEF One
    <2>6. CASE e \in items \ failed
      <3>1. copies'[e] <= copies[e] + 1 + (faults' - faults)
        BY <1>4
      <3> QED
        BY <2>1, <2>2, <2>3, <2>4, <2>6, <3>1 DEF One
    <2>7. CASE e \notin items
      <3>1. copies'[e] = copies[e] /\ e \notin failed
        BY <1>1, <1>4, <2>7
      <3> QED
        BY <2>1, <2>2, <2>3, <2>4, <2>7, <3>1 DEF One
    <2> QED
      BY <2>5, <2>6, <2>7
  <1>10. Charged'
    BY <1>9 DEF Charged
  <1> QED
    BY <1>5, <1>7, <1>8, <1>10 DEF IInv

LEMMA MarkPublishedKeeps ==
    ASSUME IInv, NEW p \in Publishers, MarkPublished(p)
    PROVE  IInv'
  <1>1. PICK rest \in SUBSET batch[p] : batch' = [batch EXCEPT ![p] = rest]
    BY DEF MarkPublished, IInv, TypeOK
  <1>2. /\ TypeOK
        /\ published' = published \cup Mine(p, acked[p])
        /\ Release(p, acked[p])
        /\ acked' = [acked EXCEPT ![p] = {}]
        /\ UNCHANGED <<rows, copies, lost, faults>>
    BY DEF MarkPublished, IInv, kafka
  <1>3. TypeOK'
    <2>1. Cardinality(rest) <= BatchSize
      BY <1>1, <1>2, SmallerBatch
    <2>2. /\ batch' \in [Publishers -> SUBSET rows]
          /\ acked' \in [Publishers -> SUBSET rows]
          /\ leased' \subseteq rows
          /\ published' \subseteq rows
      BY <1>1, <1>2, ReleaseIs DEF TypeOK, Mine
    <2>3. \A q \in Publishers : Cardinality(batch'[q]) <= BatchSize
      BY <1>1, <1>2, <2>1 DEF TypeOK
    <2>4. claimedBy' \in [Events -> Publishers \cup {NoPublisher}]
      BY <1>2, ReleaseIs
    <2> QED
      BY <1>2, <2>2, <2>3, <2>4 DEF TypeOK
  <1>4. AckedWasWritten' /\ PublishedWasWritten'
    BY <1>2 DEF IInv, TypeOK, AckedWasWritten, PublishedWasWritten, Mine
  <1>5. ASSUME NEW e \in Events
        PROVE  /\ IsFiniteSet(Pending(e)')
               /\ copies'[e] + Cardinality(Pending(e)') + One(Free(e)') <= 1 + faults'
    <2>1. /\ IsFiniteSet(Pending(e)')
          /\ Cardinality(Pending(e)') = Cardinality(Pending(e)) + One(e \in rest) - One(e \in batch[p])
          /\ Cardinality(Pending(e)) \in Nat
      BY <1>1, <1>2, PendingChanges DEF IInv
    <2>2. /\ copies[e] + Cardinality(Pending(e)) + One(Free(e)) <= 1 + faults
          /\ copies[e] \in Nat /\ faults \in Nat
      BY BoundsAssumption DEF IInv, Charged, TypeOK
    \* What p has marked is published, what it has dropped was pending, and the
    \* lease of another publisher is not touched.
    <2>3. Free(e)' => Free(e) \/ (e \in batch[p] /\ e \notin rest)
      <3> SUFFICES ASSUME Free(e)', ~(e \in batch[p] /\ e \notin rest) PROVE Free(e)
        OBVIOUS
      <3>1. e \notin published /\ ~(e \in acked[p] /\ claimedBy[e] = p)
        BY <1>2 DEF Free, Mine
      <3>2. e \in leased' <=> e \in leased
        BY <1>2, <3>1, ReleaseIs
      <3>3. \A q \in Publishers : claimedBy'[e] = q <=> claimedBy[e] = q
        BY <1>2, <3>1, ReleaseIs
      <3>4. InUse(e) => InUse(e)'
        BY <1>1, <1>2, <3>1, <3>3 DEF InUse, Holds, TypeOK
      <3> QED
        BY <3>1, <3>2, <3>4 DEF Free
    <2> QED
      BY <1>1, <1>2, <2>1, <2>2, <2>3 DEF One
  <1>6. Charged'
    BY <1>5 DEF Charged
  <1> QED
    BY <1>3, <1>4, <1>6 DEF IInv

LEMMA CrashKeeps ==
    ASSUME IInv, NEW p \in Publishers, Crash(p)
    PROVE  IInv'
  <1>1. /\ TypeOK
        /\ faults < MaxFaults /\ faults' = faults + 1
        /\ batch' = [batch EXCEPT ![p] = {}]
        /\ acked' = [acked EXCEPT ![p] = {}]
        /\ UNCHANGED <<rows, claimedBy, leased, published, copies, lost>>
    BY DEF Crash, table, kafka, IInv
  <1>2. TypeOK'
    <2>1. Cardinality({}) = 0
      BY FS_EmptySet
    <2>2. \A q \in Publishers : Cardinality(batch'[q]) <= BatchSize
      BY <1>1, <2>1, BoundsAssumption DEF TypeOK
    <2> QED
      BY <1>1, <2>2, BoundsAssumption DEF TypeOK
  <1>3. AckedWasWritten' /\ PublishedWasWritten'
    BY <1>1 DEF IInv, TypeOK, AckedWasWritten, PublishedWasWritten
  <1>4. ASSUME NEW e \in Events
        PROVE  /\ IsFiniteSet(Pending(e)')
               /\ copies'[e] + Cardinality(Pending(e)') + One(Free(e)') <= 1 + faults'
    <2>1. /\ IsFiniteSet(Pending(e)')
          /\ Cardinality(Pending(e)') = Cardinality(Pending(e)) - One(e \in batch[p])
          /\ Cardinality(Pending(e)) \in Nat
      <3>1. /\ IsFiniteSet(Pending(e)')
            /\ Cardinality(Pending(e)') =
                 Cardinality(Pending(e)) + One(e \in {}) - One(e \in batch[p])
            /\ Cardinality(Pending(e)) \in Nat
        BY <1>1, PendingChanges DEF IInv
      <3> QED
        BY <3>1 DEF One
    <2>2. /\ copies[e] + Cardinality(Pending(e)) + One(Free(e)) <= 1 + faults
          /\ copies[e] \in Nat /\ faults \in Nat
      BY BoundsAssumption DEF IInv, Charged, TypeOK
    <2> QED
      BY <1>1, <2>1, <2>2 DEF One
  <1>5. Charged'
    BY <1>4 DEF Charged
  <1> QED
    BY <1>2, <1>3, <1>5 DEF IInv

----------------------------------------------------------------------------
(* The theorems                                                            *)

LEMMA InitEstablishes == ASSUME Init PROVE IInv
  <1>1. Cardinality({}) = 0 /\ IsFiniteSet({})
    BY FS_EmptySet
  <1>2. TypeOK
    BY <1>1, BoundsAssumption DEF Init, TypeOK
  <1>3. AckedWasWritten /\ PublishedWasWritten
    BY DEF Init, AckedWasWritten, PublishedWasWritten
  <1>4. \A e \in Events : Pending(e) = {} /\ copies[e] = 0 /\ faults = 0
    BY DEF Init, Pending
  <1>5. Charged
    BY <1>1, <1>4 DEF Charged, One
  <1> QED
    BY <1>2, <1>3, <1>5 DEF IInv

LEMMA NextKeeps == ASSUME IInv, [Next]_vars PROVE IInv'
  <1>1. CASE UNCHANGED vars
    <2>1. UNCHANGED <<rows, claimedBy, leased, published, batch, acked, copies, lost, faults>>
      BY <1>1 DEF vars, table, kafka
    <2>2. TypeOK' /\ AckedWasWritten' /\ PublishedWasWritten'
      BY <2>1 DEF IInv, TypeOK, AckedWasWritten, PublishedWasWritten
    <2>3. Charged'
      BY <2>1 DEF IInv, Charged, Pending, Free, InUse, Holds
    <2> QED
      BY <2>2, <2>3 DEF IInv
  <1> QED
    BY <1>1, CreateKeeps, LeaseEndKeeps, ClaimKeeps, NoTargetKeeps, PublishTopicKeeps,
       MarkPublishedKeeps, CrashKeeps
       DEF Next, Publisher

THEOREM Invariance == Spec => []IInv
  BY InitEstablishes, NextKeeps, PTL DEF Spec

\* Type correctness, with the limit of a claim (ClaimOutboxEvents).
THEOREM TypeCorrect == Spec => []TypeOK
  <1>1. IInv => TypeOK
    BY DEF IInv
  <1> QED
    BY <1>1, Invariance, PTL

\* A row marked published is in Kafka or in a write that was reported as done
\* and lost, for every number of publishers and whatever crashes, Kafka errors
\* and outlived leases happen between the append and the mark (PublishOnce).
THEOREM Accepted == Spec => []PublishedWasWritten
  <1>1. IInv => PublishedWasWritten
    BY DEF IInv
  <1> QED
    BY <1>1, Invariance, PTL

\* Every copy of an event but the first is paid for by a crash, a failed append
\* or an outlived lease: claims, leases and published_at cause none by
\* themselves, however many publishers poll the table.
THEOREM Duplicates == Spec => []DuplicatesNeedFaults
  <1>1. IInv => DuplicatesNeedFaults
    <2> SUFFICES ASSUME IInv, NEW e \in Events PROVE copies[e] <= 1 + faults
      BY DEF DuplicatesNeedFaults
    <2>1. /\ copies[e] + Cardinality(Pending(e)) + One(Free(e)) <= 1 + faults
          /\ Cardinality(Pending(e)) \in Nat /\ copies[e] \in Nat /\ faults \in Nat
      BY FS_CardinalityType, BoundsAssumption DEF IInv, Charged, TypeOK
    <2> QED
      BY <2>1 DEF One
  <1> QED
    BY <1>1, Invariance, PTL
=============================================================================
