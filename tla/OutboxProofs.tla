------------------------------ MODULE OutboxProofs ------------------------------
(***************************************************************************)
(* Theorems about the outbox for every set of rows, every finite set of    *)
(* relays and every batch size, attempt budget and fault budget.           *)
(***************************************************************************)
EXTENDS Outbox, FiniteSetTheorems, TLAPS

\* The columns keep their types, and the two lock columns are set together on
\* the processing rows and no others: every statement of postgres_outbox.dart
\* that changes status also sets or clears the lock.
THEOREM TypeCorrect == Spec => []TypeOK
<1>1. Init => TypeOK
  BY OutboxAssumption DEF Init, TypeOK, OutboxState
<1>2. TypeOK /\ [Next]_vars => TypeOK'
  <2> SUFFICES ASSUME TypeOK, [Next]_vars PROVE TypeOK'
    OBVIOUS
  <2> USE OutboxAssumption DEF TypeOK, OutboxState
  <2>1. ASSUME NEW r \in Rows, Enqueue(r) PROVE TypeOK'
    BY <2>1 DEF Enqueue, relayVars
  <2>2. ASSUME NEW r \in Rows, BecomeDue(r) PROVE TypeOK'
    BY <2>2 DEF BecomeDue, relayVars
  <2>3. ASSUME NEW r \in Rows, LeaseRunsOut(r) PROVE TypeOK'
    BY <2>3 DEF LeaseRunsOut, relayVars
  <2>4. ASSUME NEW r \in Rows, LeaseOverrun(r) PROVE TypeOK'
    BY <2>4 DEF LeaseOverrun, Fault, relayVars
  <2>5. ASSUME ReleaseExpiredLeases PROVE TypeOK'
    BY <2>5 DEF ReleaseExpiredLeases, Expired, relayVars
  <2>6. ASSUME NEW w \in Relays, ClaimBatch(w) PROVE TypeOK'
    BY <2>6 DEF ClaimBatch, FirstBatch
  <2>7. ASSUME NEW w \in Relays, NEW r \in Rows, Publish(w, r) PROVE TypeOK'
    BY <2>7 DEF Publish, TakeRecord, rowVars
  <2>8. ASSUME NEW w \in Relays, NEW r \in Rows, PublishThrows(w, r) PROVE TypeOK'
    BY <2>8 DEF PublishThrows, TakeRecord, rowVars
  <2>9. ASSUME NEW w \in Relays, MarkPublished(w) PROVE TypeOK'
    BY <2>9 DEF MarkPublished, Owns, SetPublished
  <2>10. ASSUME NEW w \in Relays, MarkPublishedThrows(w) PROVE TypeOK'
    BY <2>10 DEF MarkPublishedThrows, Owns, SetPublished, Fault, rowVars
  <2>11. ASSUME NEW w \in Relays, MarkFailed(w) PROVE TypeOK'
    BY <2>11 DEF MarkFailed, Owns, SetFailed
  <2>12. ASSUME NEW w \in Relays, MarkFailedThrows(w) PROVE TypeOK'
    <3>1. CASE UNCHANGED rowVars
      BY <2>12, <3>1 DEF MarkFailedThrows, Fault, rowVars
    <3>2. CASE Fault /\ SetFailed(cur[w])
      BY <2>12, <3>2 DEF MarkFailedThrows, Owns, SetFailed, Fault
    <3>3. QED
      BY <2>12, <3>1, <3>2 DEF MarkFailedThrows
  <2>13. ASSUME NEW w \in Relays, Crash(w) PROVE TypeOK'
    BY <2>13 DEF Crash, Fault, rowVars
  <2>14. ASSUME NEW w \in Relays, Restart(w) PROVE TypeOK'
    BY <2>14 DEF Restart, rowVars
  <2>15. CASE UNCHANGED vars
    BY <2>15 DEF vars, rowVars, relayVars
  <2>16. QED
    BY <2>1, <2>2, <2>3, <2>4, <2>5, <2>6, <2>7, <2>8, <2>9, <2>10, <2>11, <2>12,
       <2>13, <2>14, <2>15 DEF Next, RunOnce
<1>3. QED
  BY <1>1, <1>2, PTL DEF Spec

--------------------------------------------------------------------------------
(* Publications are paid for by claims. *)

\* The relays that still have row r to try.
Waiting(r) == {w \in Relays : r \in batch[w]}

\* Every claim of a row was used for at most one publication, or still waits in
\* the batch of exactly one relay.
ClaimsCoverPublications ==
  \A r \in Rows : delivered[r] + Cardinality(Waiting(r)) <= attempts[r]

\* The relays a row waits for are finitely many, so they can be counted.
LEMMA WaitingFinite ==
  ASSUME NEW r \in Rows
  PROVE  IsFiniteSet(Waiting(r)) /\ Cardinality(Waiting(r)) \in Nat
<1>1. Waiting(r) \subseteq Relays
  BY DEF Waiting
<1>2. IsFiniteSet(Waiting(r))
  BY <1>1, OutboxAssumption, FS_Subset
<1>3. QED
  BY <1>2, FS_CardinalityType

\* Steps that leave every batch, publication and claim count alone, or only
\* empty a batch.
LEMMA EmptyingKeepsCover ==
  ASSUME TypeOK, ClaimsCoverPublications,
         UNCHANGED <<delivered, attempts>>,
         \A w \in Relays : batch'[w] \subseteq batch[w]
  PROVE  ClaimsCoverPublications'
<1> SUFFICES ASSUME NEW r \in Rows
             PROVE  delivered'[r] + Cardinality(Waiting(r)') <= attempts'[r]
  BY DEF ClaimsCoverPublications
<1>1. Waiting(r)' \subseteq Waiting(r)
  BY DEF Waiting
<1>2. IsFiniteSet(Waiting(r)) /\ Cardinality(Waiting(r)) \in Nat
  BY WaitingFinite
<1>3. IsFiniteSet(Waiting(r)') /\ Cardinality(Waiting(r)') <= Cardinality(Waiting(r))
  BY <1>1, <1>2, FS_Subset
<1>4. Cardinality(Waiting(r)') \in Nat
  BY <1>3, FS_CardinalityType
<1>5. delivered[r] + Cardinality(Waiting(r)) <= attempts[r]
  BY DEF ClaimsCoverPublications
<1>6. QED
  BY <1>2, <1>3, <1>4, <1>5 DEF TypeOK

\* Taking a record out of a batch for its publication (runOnce) uses up its claim.
LEMMA TakingKeepsCover ==
  ASSUME TypeOK, ClaimsCoverPublications,
         NEW w \in Relays, NEW r \in Rows, NEW next, TakeRecord(w, r, next),
         NEW reached \in {0, 1}, delivered' = [delivered EXCEPT ![r] = @ + reached],
         UNCHANGED attempts
  PROVE  ClaimsCoverPublications'
<1> SUFFICES ASSUME NEW q \in Rows
             PROVE  delivered'[q] + Cardinality(Waiting(q)') <= attempts'[q]
  BY DEF ClaimsCoverPublications
<1>1. IsFiniteSet(Waiting(q)) /\ Cardinality(Waiting(q)) \in Nat
  BY WaitingFinite
<1>2. delivered[q] + Cardinality(Waiting(q)) <= attempts[q]
  BY DEF ClaimsCoverPublications
<1>3. CASE q = r
  <2>1. w \in Waiting(r) /\ Waiting(r)' = Waiting(r) \ {w}
    BY DEF TakeRecord, Waiting, TypeOK
  <2>2. Cardinality(Waiting(r)') = Cardinality(Waiting(r)) - 1
    BY <1>1, <1>3, <2>1, FS_RemoveElement
  <2>3. delivered'[q] = delivered[q] + reached
    BY <1>3 DEF TypeOK
  <2>4. QED
    BY <1>1, <1>2, <1>3, <2>2, <2>3 DEF TypeOK
<1>4. CASE q # r
  <2>1. Waiting(q)' = Waiting(q)
    BY <1>4 DEF TakeRecord, Waiting, TypeOK
  <2>2. delivered'[q] = delivered[q]
    BY <1>4 DEF TypeOK
  <2>3. QED
    BY <1>2, <2>1, <2>2
<1>5. QED
  BY <1>3, <1>4

\* A claim (claimBatch) counts an attempt for each batch a row gets into.
LEMMA ClaimingKeepsCover ==
  ASSUME TypeOK, ClaimsCoverPublications, NEW w \in Relays, ClaimBatch(w)
  PROVE  ClaimsCoverPublications'
<1> DEFINE claimed == FirstBatch({r \in Rows : Claimable(r)})
<1> SUFFICES ASSUME NEW q \in Rows
             PROVE  delivered'[q] + Cardinality(Waiting(q)') <= attempts'[q]
  BY DEF ClaimsCoverPublications
<1>1. IsFiniteSet(Waiting(q)) /\ Cardinality(Waiting(q)) \in Nat
  BY WaitingFinite
<1>2. delivered[q] + Cardinality(Waiting(q)) <= attempts[q]
  BY DEF ClaimsCoverPublications
<1>3. delivered' = delivered
  BY DEF ClaimBatch
<1>4. batch' = [batch EXCEPT ![w] = claimed] /\ w \notin Waiting(q)
  BY DEF ClaimBatch, Waiting
<1>5. attempts'[q] = IF q \in claimed THEN attempts[q] + 1 ELSE attempts[q]
  BY DEF ClaimBatch
<1> HIDE DEF claimed
<1>6. CASE q \in claimed
  <2>1. Waiting(q)' = Waiting(q) \cup {w}
    BY <1>4, <1>6 DEF Waiting, TypeOK
  <2>2. Cardinality(Waiting(q)') = Cardinality(Waiting(q)) + 1
    BY <1>1, <1>4, <2>1, FS_AddElement
  <2>3. QED
    BY <1>1, <1>2, <1>3, <1>5, <1>6, <2>2 DEF TypeOK
<1>7. CASE q \notin claimed
  <2>1. Waiting(q)' = Waiting(q)
    BY <1>4, <1>7 DEF Waiting, TypeOK
  <2>2. QED
    BY <1>2, <1>3, <1>5, <1>7, <2>1
<1>8. QED
  BY <1>6, <1>7

\* Claims cover publications in every reachable state: no step of runOnce publishes a
\* record that was not claimed for it.
LEMMA CoverInvariant == Spec => []ClaimsCoverPublications
<1>1. Init => ClaimsCoverPublications
  <2> SUFFICES ASSUME Init, NEW r \in Rows
               PROVE  delivered[r] + Cardinality(Waiting(r)) <= attempts[r]
    BY DEF ClaimsCoverPublications
  <2>1. Waiting(r) = {}
    BY DEF Init, Waiting
  <2>2. QED
    BY <2>1, FS_EmptySet DEF Init
<1>2. TypeOK /\ ClaimsCoverPublications /\ [Next]_vars => ClaimsCoverPublications'
  <2> SUFFICES ASSUME TypeOK, ClaimsCoverPublications, [Next]_vars
               PROVE  ClaimsCoverPublications'
    OBVIOUS
  <2>1. ASSUME NEW r \in Rows,
               Enqueue(r) \/ BecomeDue(r) \/ LeaseRunsOut(r) \/ LeaseOverrun(r)
        PROVE  ClaimsCoverPublications'
    BY <2>1, EmptyingKeepsCover
    DEF Enqueue, BecomeDue, LeaseRunsOut, LeaseOverrun, relayVars
  <2>2. CASE ReleaseExpiredLeases
    BY <2>2, EmptyingKeepsCover DEF ReleaseExpiredLeases, relayVars
  <2>3. ASSUME NEW w \in Relays, ClaimBatch(w) PROVE ClaimsCoverPublications'
    BY <2>3, ClaimingKeepsCover
  <2>4. ASSUME NEW w \in Relays, NEW r \in Rows, Publish(w, r)
        PROVE  ClaimsCoverPublications'
    BY <2>4, TakingKeepsCover DEF Publish, rowVars
  <2>5. ASSUME NEW w \in Relays, NEW r \in Rows, PublishThrows(w, r)
        PROVE  ClaimsCoverPublications'
    <3>1. PICK reached \in {0, 1} : delivered' = [delivered EXCEPT ![r] = @ + reached]
      BY <2>5 DEF PublishThrows
    <3>2. QED
      BY <2>5, <3>1, TakingKeepsCover DEF PublishThrows, rowVars
  <2>6. ASSUME NEW w \in Relays,
               MarkPublished(w) \/ MarkPublishedThrows(w) \/ MarkFailed(w)
        PROVE  ClaimsCoverPublications'
    BY <2>6, EmptyingKeepsCover
    DEF MarkPublished, MarkPublishedThrows, MarkFailed, SetPublished, SetFailed, rowVars
  <2>7. ASSUME NEW w \in Relays, MarkFailedThrows(w) \/ Crash(w)
        PROVE  ClaimsCoverPublications'
    <3>1. batch' = [batch EXCEPT ![w] = {}] /\ UNCHANGED <<delivered, attempts>>
      BY <2>7 DEF MarkFailedThrows, Crash, SetFailed, rowVars
    <3>2. \A v \in Relays : batch'[v] \subseteq batch[v]
      BY <3>1 DEF TypeOK
    <3>3. QED
      BY <3>1, <3>2, EmptyingKeepsCover
  <2>8. ASSUME NEW w \in Relays, Restart(w) PROVE ClaimsCoverPublications'
    BY <2>8, EmptyingKeepsCover DEF Restart, rowVars
  <2>9. CASE UNCHANGED vars
    BY <2>9, EmptyingKeepsCover DEF vars, rowVars, relayVars
  <2>10. QED
    BY <2>1, <2>2, <2>3, <2>4, <2>5, <2>6, <2>7, <2>8, <2>9 DEF Next, RunOnce
<1>3. QED
  BY <1>1, <1>2, TypeCorrect, PTL DEF Spec

\* A message reaches the transport at most once per claim of its row, however
\* many relays compete and whichever of them crash.
THEOREM PublicationsWithinAttempts == Spec => []DeliveredWithinAttempts
<1>1. TypeOK /\ ClaimsCoverPublications => DeliveredWithinAttempts
  <2> SUFFICES ASSUME TypeOK, ClaimsCoverPublications, NEW r \in Rows
               PROVE  delivered[r] <= attempts[r]
    BY DEF DeliveredWithinAttempts
  <2>1. Cardinality(Waiting(r)) \in Nat
    BY WaitingFinite
  <2>2. QED
    BY <2>1 DEF ClaimsCoverPublications, TypeOK
<1>2. QED
  BY <1>1, CoverInvariant, TypeCorrect, PTL

--------------------------------------------------------------------------------
(* Ownership. *)

\* While a lease is live only its holder moves the row out of "processing": the
\* guards of markPublished and markFailed stop every stale relay, and
\* releaseExpiredLeases leaves live leases alone.
THEOREM HolderSettles == Spec => OnlyHolderSettles
<1> DEFINE Settles(r) ==
      (status[r] = "processing" /\ lockedUntil[r] = "future" /\ status'[r] # "processing")
        => \E w \in Relays : lockedBy[r] = w /\ cur[w] = r
<1>1. TypeOK /\ [Next]_vars => [\A r \in Rows : Settles(r)]_vars
  <2> SUFFICES ASSUME TypeOK, [Next]_vars, NEW r \in Rows PROVE Settles(r)
    OBVIOUS
  <2> USE DEF TypeOK
  <2>1. ASSUME NEW q \in Rows,
               Enqueue(q) \/ BecomeDue(q) \/ LeaseRunsOut(q) \/ LeaseOverrun(q)
        PROVE  Settles(r)
    BY <2>1 DEF Enqueue, BecomeDue, LeaseRunsOut, LeaseOverrun
  <2>2. CASE ReleaseExpiredLeases
    BY <2>2 DEF ReleaseExpiredLeases, Expired
  <2>3. ASSUME NEW w \in Relays, ClaimBatch(w) PROVE Settles(r)
    BY <2>3 DEF ClaimBatch
  <2>4. ASSUME NEW w \in Relays, NEW q \in Rows, Publish(w, q) \/ PublishThrows(w, q)
        PROVE  Settles(r)
    BY <2>4 DEF Publish, PublishThrows, rowVars
  <2>5. ASSUME NEW w \in Relays, MarkPublished(w) PROVE Settles(r)
    BY <2>5 DEF MarkPublished, SetPublished, Owns
  <2>6. ASSUME NEW w \in Relays, MarkPublishedThrows(w) PROVE Settles(r)
    BY <2>6 DEF MarkPublishedThrows, SetPublished, Owns, rowVars
  <2>7. ASSUME NEW w \in Relays, MarkFailed(w) PROVE Settles(r)
    BY <2>7 DEF MarkFailed, SetFailed, Owns
  <2>8. ASSUME NEW w \in Relays, MarkFailedThrows(w) PROVE Settles(r)
    BY <2>8 DEF MarkFailedThrows, SetFailed, Owns, rowVars
  <2>9. ASSUME NEW w \in Relays, Crash(w) \/ Restart(w) PROVE Settles(r)
    BY <2>9 DEF Crash, Restart, rowVars
  <2>10. CASE UNCHANGED vars
    BY <2>10 DEF vars, rowVars
  <2>11. QED
    BY <2>1, <2>2, <2>3, <2>4, <2>5, <2>6, <2>7, <2>8, <2>9, <2>10 DEF Next, RunOnce
<1>2. QED
  BY <1>1, TypeCorrect, PTL DEF Spec, OnlyHolderSettles

--------------------------------------------------------------------------------
(* Extra attempts are paid for by faults. *)

\* The relay holds every record it still has to settle on a live lease.
OnTime(w) == \A r \in Rows : Holds(w, r) => lockedBy[r] = w /\ lockedUntil[r] = "future"

\* The row may be claimed once more without passing the bound.
Spared(r) == attempts[r] < MaxAttempts + faults

\* A claim within the bound is the last one of its row, unless a fault happens
\* before its relay settles it: a row that a relay works on in time is given up
\* by markFailed when its attempts are used up, and any other open row has one to
\* spare.  The fault that spoils one record of a batch pays for all of them, which
\* is why the invariant is about the relay's whole batch.
FaultsPay ==
  /\ \A w \in Relays : cur[w] \notin batch[w]
  /\ \A r \in Rows : attempts[r] <= MaxAttempts + faults
  /\ \A r \in Rows : status[r] \notin {"published", "dead"} =>
       Spared(r) \/ \E w \in Relays : Holds(w, r) /\ OnTime(w)

\* A step that counts a fault and claims nothing gives every row one to spare.
LEMMA FaultSpares ==
  ASSUME TypeOK, FaultsPay, Fault, UNCHANGED attempts,
         \A w \in Relays : cur'[w] \notin batch'[w]
  PROVE  FaultsPay'
<1>1. ASSUME NEW r \in Rows
      PROVE  /\ attempts'[r] < MaxAttempts + faults'
             /\ attempts'[r] <= MaxAttempts + faults'
  <2>1. attempts[r] \in Nat /\ faults \in Nat /\ MaxAttempts \in Nat
    BY OutboxAssumption DEF TypeOK
  <2>2. attempts'[r] = attempts[r] /\ faults' = faults + 1
    BY DEF Fault
  <2>3. attempts[r] <= MaxAttempts + faults
    BY DEF FaultsPay
  <2>4. QED
    BY <2>1, <2>2, <2>3
<1>2. QED
  BY <1>1 DEF FaultsPay, Spared

\* A step that counts nothing, reopens nothing and disturbs no relay that is in
\* time: it takes none of its leases away and no record out of its hands, except
\* one it settles or returns with an attempt to spare.
LEMMA UndisturbedPay ==
  ASSUME TypeOK, FaultsPay, UNCHANGED <<attempts, faults>>,
         \A w \in Relays : cur'[w] \notin batch'[w],
         \A r \in Rows : status[r] \in {"published", "dead"} => status'[r] = status[r],
         \A w \in Relays : OnTime(w) => OnTime(w)',
         \A w \in Relays, r \in Rows :
           Holds(w, r) /\ OnTime(w) =>
             Holds(w, r)' \/ status'[r] \in {"published", "dead"} \/ Spared(r)
  PROVE  FaultsPay'
<1>1. \A r \in Rows : Spared(r) => Spared(r)'
  BY DEF Spared
<1>2. ASSUME NEW r \in Rows, status'[r] \notin {"published", "dead"}
      PROVE  Spared(r)' \/ \E w \in Relays : Holds(w, r)' /\ OnTime(w)'
  <2>1. Spared(r) \/ \E w \in Relays : Holds(w, r) /\ OnTime(w)
    BY <1>2 DEF FaultsPay
  <2>2. QED
    BY <1>1, <1>2, <2>1
<1>3. QED
  BY <1>2 DEF FaultsPay

\* A claim (claimBatch) uses up the attempt each of its rows had to spare.
LEMMA ClaimingPays ==
  ASSUME TypeOK, FaultsPay, NEW w \in Relays, ClaimBatch(w)
  PROVE  FaultsPay'
<1> DEFINE claimed == FirstBatch({r \in Rows : Claimable(r)})
<1>1. claimed \subseteq Rows /\ \A r \in claimed : status[r] \in {"pending", "failed"}
  BY DEF FirstBatch, Claimable
<1>2. /\ attempts' = [r \in Rows |-> IF r \in claimed THEN attempts[r] + 1 ELSE attempts[r]]
      /\ status' = [r \in Rows |-> IF r \in claimed THEN "processing" ELSE status[r]]
      /\ lockedBy' = [r \in Rows |-> IF r \in claimed THEN w ELSE lockedBy[r]]
      /\ lockedUntil' = [r \in Rows |-> IF r \in claimed THEN "future" ELSE lockedUntil[r]]
      /\ batch' = [batch EXCEPT ![w] = claimed]
      /\ batch[w] = {} /\ cur[w] = NoRow
      /\ UNCHANGED <<cur, faults>>
  BY DEF ClaimBatch, TypeOK
<1> HIDE DEF claimed
<1>3. \A r \in claimed, v \in Relays : ~(Holds(v, r) /\ OnTime(v))
  BY <1>1 DEF OnTime, TypeOK
<1>4. \A r \in claimed : Spared(r)
  BY <1>1, <1>3 DEF FaultsPay
<1>5. OnTime(w)' /\ \A r \in claimed : Holds(w, r)'
  BY <1>1, <1>2, OutboxAssumption DEF OnTime, Holds, TypeOK
<1>6. ASSUME NEW v \in Relays, v # w, OnTime(v) PROVE OnTime(v)'
  <2>1. ASSUME NEW r \in Rows, Holds(v, r)'
        PROVE  lockedBy'[r] = v /\ lockedUntil'[r] = "future"
    <3>1. Holds(v, r)
      BY <1>2, <1>6, <2>1 DEF Holds, TypeOK
    <3>2. r \notin claimed
      BY <1>3, <1>6, <3>1
    <3>3. QED
      BY <1>2, <1>6, <3>1, <3>2 DEF OnTime
  <2>2. QED
    BY <2>1 DEF OnTime
<1>7. ASSUME NEW v \in Relays PROVE cur'[v] \notin batch'[v]
  <2>1. CASE v = w
    <3>1. cur'[v] = NoRow
      BY <1>2, <2>1
    <3>2. batch'[v] = claimed
      BY <1>2, <2>1 DEF TypeOK
    <3>3. NoRow \notin claimed
      BY <1>1, OutboxAssumption
    <3>4. QED
      BY <3>1, <3>2, <3>3
  <2>2. CASE v # w
    BY <1>2, <2>2 DEF FaultsPay, TypeOK
  <2>3. QED
    BY <2>1, <2>2
<1>8. \A r \in Rows : attempts'[r] <= MaxAttempts + faults'
  BY <1>2, <1>4, OutboxAssumption DEF FaultsPay, Spared, TypeOK
<1>9. ASSUME NEW r \in Rows, status'[r] \notin {"published", "dead"}
      PROVE  Spared(r)' \/ \E v \in Relays : Holds(v, r)' /\ OnTime(v)'
  <2>1. CASE r \in claimed
    BY <1>5, <2>1
  <2>2. CASE r \notin claimed
    <3>1. Spared(r) \/ \E v \in Relays : Holds(v, r) /\ OnTime(v)
      BY <1>2, <1>9, <2>2 DEF FaultsPay
    <3>2. Spared(r) => Spared(r)'
      BY <1>2, <2>2 DEF Spared
    <3>3. ASSUME NEW v \in Relays, Holds(v, r), OnTime(v) PROVE Holds(v, r)' /\ OnTime(v)'
      <4>1. v # w
        BY <1>2, <3>3, OutboxAssumption DEF Holds
      <4>2. QED
        BY <1>2, <1>6, <3>3, <4>1 DEF Holds, TypeOK
    <3>4. QED
      BY <3>1, <3>2, <3>3
  <2>3. QED
    BY <2>1, <2>2
<1>10. QED
  BY <1>7, <1>8, <1>9 DEF FaultsPay

\* The record in hand is settled, and the relay goes on with the rest of its batch.
LEMMA SettlingPays ==
  ASSUME TypeOK, FaultsPay, NEW w \in Relays, Owns(w, cur[w]), cur[w] \in Rows,
         SetPublished(cur[w]) \/ SetFailed(cur[w]),
         cur' = [cur EXCEPT ![w] = NoRow], UNCHANGED <<batch, faults>>
  PROVE  FaultsPay'
<1> DEFINE r == cur[w]
<1>1. /\ \A q \in Rows : q # r => /\ status'[q] = status[q]
                                  /\ lockedBy'[q] = lockedBy[q]
                                  /\ lockedUntil'[q] = lockedUntil[q]
      /\ UNCHANGED attempts
      /\ status[r] = "processing" /\ lockedBy[r] = w
  BY DEF SetPublished, SetFailed, Owns, TypeOK
<1>2. status'[r] \in {"published", "dead"} \/ Spared(r)
  <2>1. CASE SetPublished(r)
    BY <2>1 DEF SetPublished, TypeOK
  <2>2. CASE SetFailed(r)
    <3>1. attempts[r] \in Nat /\ faults \in Nat /\ MaxAttempts \in Nat
      BY OutboxAssumption DEF TypeOK
    <3>2. status'[r] = IF attempts[r] >= MaxAttempts THEN "dead" ELSE "failed"
      BY <2>2 DEF SetFailed, TypeOK
    <3>3. CASE attempts[r] >= MaxAttempts
      BY <3>2, <3>3
    <3>4. CASE ~(attempts[r] >= MaxAttempts)
      BY <3>1, <3>4 DEF Spared
    <3>5. QED
      BY <3>3, <3>4
  <2>3. QED
    BY <2>1, <2>2
<1>3. \A v \in Relays : cur'[v] \notin batch'[v]
  BY OutboxAssumption DEF FaultsPay, TypeOK
<1>4. \A v \in Relays, q \in Rows : Holds(v, q)' <=> Holds(v, q) /\ ~(v = w /\ q = r)
  BY OutboxAssumption DEF Holds, FaultsPay, TypeOK
<1>5. ASSUME NEW v \in Relays, OnTime(v) PROVE OnTime(v)'
  <2>1. ASSUME NEW q \in Rows, Holds(v, q)'
        PROVE  lockedBy'[q] = v /\ lockedUntil'[q] = "future"
    <3>1. Holds(v, q) /\ lockedBy[q] = v /\ lockedUntil[q] = "future"
      BY <1>4, <1>5, <2>1 DEF OnTime
    <3>2. q # r
      BY <1>1, <1>4, <2>1, <3>1
    <3>3. QED
      BY <1>1, <3>1, <3>2
  <2>2. QED
    BY <2>1 DEF OnTime
<1>6. ASSUME NEW v \in Relays, NEW q \in Rows, Holds(v, q), OnTime(v)
      PROVE  Holds(v, q)' \/ status'[q] \in {"published", "dead"} \/ Spared(q)
  BY <1>2, <1>4, <1>6
<1>7. \A q \in Rows : status[q] \in {"published", "dead"} => status'[q] = status[q]
  BY <1>1
<1> HIDE DEF r
<1>8. QED
  BY <1>1, <1>3, <1>5, <1>6, <1>7, UndisturbedPay

\* Every open row has an attempt to spare, or is in the hands of a relay in time.
LEMMA PaymentInvariant == Spec => []FaultsPay
<1>1. Init => FaultsPay
  BY OutboxAssumption DEF Init, FaultsPay, Spared
<1>2. TypeOK /\ FaultsPay /\ [Next]_vars => FaultsPay'
  <2> SUFFICES ASSUME TypeOK, FaultsPay, [Next]_vars PROVE FaultsPay'
    OBVIOUS
  <2>1. ASSUME NEW r \in Rows, Enqueue(r) \/ BecomeDue(r) PROVE FaultsPay'
    <3>1. UNCHANGED <<attempts, lockedBy, lockedUntil, batch, cur, faults>>
      BY <2>1 DEF Enqueue, BecomeDue, relayVars
    <3>2. \A q \in Rows : status[q] \in {"published", "dead"} => status'[q] = status[q]
      BY <2>1 DEF Enqueue, BecomeDue, TypeOK
    <3>3. QED
      BY <3>1, <3>2, UndisturbedPay DEF FaultsPay, OnTime, Holds
  <2>2. ASSUME NEW r \in Rows, LeaseRunsOut(r) PROVE FaultsPay'
    <3>1. /\ UNCHANGED <<status, attempts, lockedBy, batch, cur, faults>>
          /\ \A q \in Rows : q # r => lockedUntil'[q] = lockedUntil[q]
          /\ \A w \in Relays : lockedBy[r] = w => ~Holds(w, r)
      BY <2>2 DEF LeaseRunsOut, relayVars, TypeOK
    <3>2. \A w \in Relays : OnTime(w) => OnTime(w)'
      BY <3>1 DEF OnTime, Holds
    <3>3. QED
      BY <3>1, <3>2, UndisturbedPay DEF FaultsPay, Holds
  <2>3. ASSUME NEW r \in Rows, LeaseOverrun(r) PROVE FaultsPay'
    BY <2>3, FaultSpares DEF LeaseOverrun, relayVars, FaultsPay
  <2>4. CASE ReleaseExpiredLeases
    <3>1. /\ UNCHANGED <<attempts, batch, cur, faults>>
          /\ \A q \in Rows : ~Expired(q) => /\ status'[q] = status[q]
                                            /\ lockedBy'[q] = lockedBy[q]
                                            /\ lockedUntil'[q] = lockedUntil[q]
      BY <2>4 DEF ReleaseExpiredLeases, relayVars
    <3>2. \A w \in Relays : OnTime(w) => OnTime(w)'
      BY <3>1 DEF OnTime, Holds, Expired
    <3>3. \A q \in Rows : status[q] \in {"published", "dead"} => status'[q] = status[q]
      BY <3>1 DEF Expired
    <3>4. QED
      BY <3>1, <3>2, <3>3, UndisturbedPay DEF FaultsPay, Holds
  <2>5. ASSUME NEW w \in Relays, ClaimBatch(w) PROVE FaultsPay'
    BY <2>5, ClaimingPays
  <2>6. ASSUME NEW w \in Relays, NEW r \in Rows, Publish(w, r) \/ PublishThrows(w, r)
        PROVE  FaultsPay'
    <3>1. /\ UNCHANGED <<status, attempts, lockedBy, lockedUntil, faults>>
          /\ cur[w] = NoRow /\ r \in batch[w]
          /\ batch' = [batch EXCEPT ![w] = @ \ {r}]
          /\ cur' = [cur EXCEPT ![w] = r]
      BY <2>6 DEF Publish, PublishThrows, TakeRecord, rowVars, TypeOK
    <3>2. \A v \in Relays, q \in Rows : Holds(v, q)' <=> Holds(v, q)
      BY <3>1, OutboxAssumption DEF Holds, TypeOK
    <3>3. \A v \in Relays : cur'[v] \notin batch'[v]
      BY <3>1 DEF FaultsPay, TypeOK
    <3>4. \A v \in Relays : OnTime(v) => OnTime(v)'
      BY <3>1, <3>2 DEF OnTime
    <3>5. QED
      BY <3>1, <3>2, <3>3, <3>4, UndisturbedPay
  <2>7. ASSUME NEW w \in Relays, MarkPublished(w) \/ MarkFailed(w) PROVE FaultsPay'
    <3>1. cur[w] \in Rows
      BY <2>7 DEF MarkPublished, MarkFailed, TypeOK
    <3>2. QED
      BY <2>7, <3>1, SettlingPays DEF MarkPublished, MarkFailed
  <2>8. ASSUME NEW w \in Relays, MarkPublishedThrows(w) PROVE FaultsPay'
    <3>1. UNCHANGED <<attempts, batch, cur>>
      BY <2>8 DEF MarkPublishedThrows, SetPublished, rowVars
    <3>2. CASE Fault
      BY <3>1, <3>2, FaultSpares DEF FaultsPay
    <3>3. CASE UNCHANGED <<rowVars, faults>>
      BY <3>1, <3>3 DEF rowVars, FaultsPay, Spared, OnTime, Holds
    <3>4. QED
      BY <2>8, <3>2, <3>3 DEF MarkPublishedThrows
  <2>9. ASSUME NEW w \in Relays, MarkFailedThrows(w) PROVE FaultsPay'
    <3>1. /\ UNCHANGED attempts
          /\ batch' = [batch EXCEPT ![w] = {}] /\ cur' = [cur EXCEPT ![w] = NoRow]
      BY <2>9 DEF MarkFailedThrows, SetFailed, rowVars
    <3>2. \A v \in Relays : cur'[v] \notin batch'[v]
      BY <3>1 DEF FaultsPay, TypeOK
    <3>3. CASE Fault
      BY <3>1, <3>2, <3>3, FaultSpares
    <3>4. CASE ~Owns(w, cur[w]) /\ UNCHANGED <<rowVars, faults>>
      <4>1. ~OnTime(w)
        BY <2>9, <3>4 DEF MarkFailedThrows, OnTime, Holds, Owns, TypeOK
      <4>2. \A v \in Relays, q \in Rows : v # w => (Holds(v, q)' <=> Holds(v, q))
        BY <3>1 DEF Holds, TypeOK
      <4>3. \A v \in Relays : OnTime(v) => OnTime(v)'
        BY <3>4, <4>1, <4>2 DEF OnTime, rowVars
      <4>4. \A v \in Relays, q \in Rows : Holds(v, q) /\ OnTime(v) => Holds(v, q)'
        BY <4>1, <4>2
      <4>5. QED
        BY <3>1, <3>2, <3>4, <4>3, <4>4, UndisturbedPay DEF rowVars
    <3>5. QED
      BY <2>9, <3>3, <3>4 DEF MarkFailedThrows
  <2>10. ASSUME NEW w \in Relays, Crash(w) PROVE FaultsPay'
    <3>1. UNCHANGED attempts /\ \A v \in Relays : cur'[v] \notin batch'[v]
      BY <2>10 DEF Crash, rowVars, FaultsPay, TypeOK
    <3>2. QED
      BY <2>10, <3>1, FaultSpares DEF Crash
  <2>11. ASSUME UNCHANGED <<rowVars, batch, cur, faults>> PROVE FaultsPay'
    BY <2>11 DEF rowVars, FaultsPay, Spared, OnTime, Holds
  <2>12. QED
    BY <2>1, <2>2, <2>3, <2>4, <2>5, <2>6, <2>7, <2>8, <2>9, <2>10, <2>11
    DEF Next, RunOnce, Restart, vars, relayVars
<1>3. QED
  BY <1>1, <1>2, TypeCorrect, PTL DEF Spec

\* A row is claimed beyond maxAttempts only once per crash, lost reply or overrun
\* lease: releaseExpiredLeases ignores the attempts, but a lease reaches it only
\* through a fault that happened after the claim.
THEOREM ExtraAttemptsArePaid == Spec => []ExtraAttemptsNeedFaults
<1>1. FaultsPay => ExtraAttemptsNeedFaults
  BY DEF FaultsPay, ExtraAttemptsNeedFaults
<1>2. QED
  BY <1>1, PaymentInvariant, PTL

--------------------------------------------------------------------------------
(* The outbox implements the at-least-once promise. *)

\* A relay that is about to mark a record published has published it.
MarkMeansDelivered == \A w \in Relays : pc[w] = "mark" => delivered[cur[w]] > 0

\* runOnce marks a record only after publish returned for it.
LEMMA MarkInvariant == Spec => []MarkMeansDelivered
<1>1. Init => MarkMeansDelivered
  BY DEF Init, MarkMeansDelivered
<1>2. TypeOK /\ MarkMeansDelivered /\ [Next]_vars => MarkMeansDelivered'
  <2> SUFFICES ASSUME TypeOK, MarkMeansDelivered, [Next]_vars PROVE MarkMeansDelivered'
    OBVIOUS
  <2> USE DEF TypeOK, MarkMeansDelivered
  <2>1. ASSUME NEW q \in Rows,
               Enqueue(q) \/ BecomeDue(q) \/ LeaseRunsOut(q) \/ LeaseOverrun(q)
        PROVE  MarkMeansDelivered'
    BY <2>1 DEF Enqueue, BecomeDue, LeaseRunsOut, LeaseOverrun, relayVars
  <2>2. CASE ReleaseExpiredLeases
    BY <2>2 DEF ReleaseExpiredLeases, relayVars
  <2>3. ASSUME NEW w \in Relays, ClaimBatch(w) PROVE MarkMeansDelivered'
    BY <2>3 DEF ClaimBatch
  <2>4. ASSUME NEW w \in Relays, NEW q \in Rows, Publish(w, q)
        PROVE  MarkMeansDelivered'
    BY <2>4 DEF Publish, TakeRecord
  <2>5. ASSUME NEW w \in Relays, NEW q \in Rows, PublishThrows(w, q)
        PROVE  MarkMeansDelivered'
    BY <2>5 DEF PublishThrows, TakeRecord
  <2>6. ASSUME NEW w \in Relays, MarkPublished(w) PROVE MarkMeansDelivered'
    BY <2>6 DEF MarkPublished
  <2>7. ASSUME NEW w \in Relays, MarkPublishedThrows(w) PROVE MarkMeansDelivered'
    BY <2>7 DEF MarkPublishedThrows
  <2>8. ASSUME NEW w \in Relays, MarkFailed(w) PROVE MarkMeansDelivered'
    BY <2>8 DEF MarkFailed
  <2>9. ASSUME NEW w \in Relays, MarkFailedThrows(w) \/ Crash(w) \/ Restart(w)
        PROVE  MarkMeansDelivered'
    BY <2>9 DEF MarkFailedThrows, Crash, Restart
  <2>10. CASE UNCHANGED vars
    BY <2>10 DEF vars, relayVars
  <2>11. QED
    BY <2>1, <2>2, <2>3, <2>4, <2>5, <2>6, <2>7, <2>8, <2>9, <2>10 DEF Next, RunOnce
<1>3. QED
  BY <1>1, <1>2, TypeCorrect, PTL DEF Spec

\* How the two updates of a record in hand look through the refinement mapping.
LEMMA SetPublishedSettles ==
  ASSUME TypeOK, NEW r \in Rows, status[r] = "processing", delivered[r] > 0,
         SetPublished(r), UNCHANGED delivered
  PROVE  Promise!Settle(r)
<1>1. PhaseOf[r] = "owed"
  BY DEF PhaseOf
<1>2. PhaseOf' = [PhaseOf EXCEPT ![r] = "settled"]
  BY DEF PhaseOf, SetPublished, TypeOK
<1>3. QED
  BY <1>1, <1>2 DEF Promise!Settle

\* markFailed gives the row up or leaves it owed.
LEMMA SetFailedBuriesOrKeeps ==
  ASSUME TypeOK, NEW r \in Rows, status[r] = "processing", SetFailed(r),
         UNCHANGED delivered
  PROVE  Promise!Bury(r) \/ UNCHANGED Promise!vars
<1>1. PhaseOf[r] = "owed"
  BY DEF PhaseOf
<1>2. CASE attempts[r] >= MaxAttempts
  <2>1. PhaseOf' = [PhaseOf EXCEPT ![r] = "buried"]
    BY <1>2 DEF PhaseOf, SetFailed, TypeOK
  <2>2. QED
    BY <1>1, <2>1 DEF Promise!Bury
<1>3. CASE ~(attempts[r] >= MaxAttempts)
  <2>1. PhaseOf' = PhaseOf
    BY <1>3 DEF PhaseOf, SetFailed, TypeOK
  <2>2. QED
    BY <2>1 DEF Promise!vars
<1>4. QED
  BY <1>2, <1>3

\* A publication of runOnce is a delivery of the promise, or none at all.
LEMMA TakingDelivers ==
  ASSUME TypeOK, NEW w \in Relays, NEW r \in Rows, status[r] # "absent",
         UNCHANGED rowVars, NEW reached \in {0, 1},
         delivered' = [delivered EXCEPT ![r] = @ + reached]
  PROVE  Promise!Deliver(r) \/ UNCHANGED Promise!vars
<1>1. PhaseOf' = PhaseOf
  BY DEF PhaseOf, rowVars
<1>2. CASE reached = 0
  BY <1>1, <1>2 DEF Promise!vars, TypeOK
<1>3. CASE reached = 1
  <2>1. PhaseOf[r] # "unsent"
    BY DEF PhaseOf
  <2>2. QED
    BY <1>1, <1>3, <2>1 DEF Promise!Deliver
<1>4. QED
  BY <1>2, <1>3

\* Every row in a batch was enqueued.
BatchesEnqueued == \A w \in Relays : \A r \in batch[w] : status[r] # "absent"

\* claimBatch returns only rows that enqueue has inserted.
LEMMA BatchInvariant == Spec => []BatchesEnqueued
<1>1. Init => BatchesEnqueued
  BY DEF Init, BatchesEnqueued
<1>2. TypeOK /\ BatchesEnqueued /\ [Next]_vars => BatchesEnqueued'
  <2> SUFFICES ASSUME TypeOK, BatchesEnqueued, [Next]_vars PROVE BatchesEnqueued'
    OBVIOUS
  <2>1. (\A r \in Rows : status[r] # "absent" => status'[r] # "absent")
    <3> USE DEF TypeOK
    <3>1. ASSUME NEW q \in Rows,
                 Enqueue(q) \/ BecomeDue(q) \/ LeaseRunsOut(q) \/ LeaseOverrun(q)
          PROVE  \A r \in Rows : status[r] # "absent" => status'[r] # "absent"
      BY <3>1 DEF Enqueue, BecomeDue, LeaseRunsOut, LeaseOverrun
    <3>2. CASE ReleaseExpiredLeases
      BY <3>2 DEF ReleaseExpiredLeases
    <3>3. ASSUME NEW w \in Relays, RunOnce(w)
          PROVE  \A r \in Rows : status[r] # "absent" => status'[r] # "absent"
      <4>1. CASE ClaimBatch(w)
        BY <4>1 DEF ClaimBatch
      <4>2. CASE UNCHANGED rowVars
        BY <4>2 DEF rowVars
      <4>3. CASE SetPublished(cur[w])
        BY <4>3 DEF SetPublished
      <4>4. CASE SetFailed(cur[w])
        BY <4>4 DEF SetFailed
      <4>5. QED
        BY <3>3, <4>1, <4>2, <4>3, <4>4
        DEF RunOnce, Publish, PublishThrows, MarkPublished, MarkPublishedThrows,
            MarkFailed, MarkFailedThrows
    <3>4. ASSUME NEW w \in Relays, Crash(w) \/ Restart(w)
          PROVE  \A r \in Rows : status[r] # "absent" => status'[r] # "absent"
      BY <3>4 DEF Crash, Restart, rowVars
    <3>5. CASE UNCHANGED vars
      BY <3>5 DEF vars, rowVars
    <3>6. QED
      BY <3>1, <3>2, <3>3, <3>4, <3>5 DEF Next
  <2>2. ASSUME NEW w \in Relays, ClaimBatch(w) PROVE BatchesEnqueued'
    <3> DEFINE claimed == FirstBatch({r \in Rows : Claimable(r)})
    <3>1. claimed \subseteq Rows /\ \A r \in claimed : status'[r] = "processing"
      BY <2>2 DEF ClaimBatch, FirstBatch
    <3>2. batch' = [batch EXCEPT ![w] = claimed]
      BY <2>2 DEF ClaimBatch
    <3> HIDE DEF claimed
    <3>3. QED
      BY <2>1, <3>1, <3>2 DEF BatchesEnqueued, TypeOK
  <2>3. CASE \A v \in Relays : batch'[v] \subseteq batch[v]
    BY <2>1, <2>3 DEF BatchesEnqueued, TypeOK
  <2>4. ASSUME NEW w \in Relays, Crash(w) \/ Restart(w) \/ (RunOnce(w) /\ ~ClaimBatch(w))
        PROVE  \A v \in Relays : batch'[v] \subseteq batch[v]
    BY <2>4 DEF Crash, Restart, RunOnce, Publish, PublishThrows, TakeRecord,
         MarkPublished, MarkPublishedThrows, MarkFailed, MarkFailedThrows, TypeOK
  <2>5. ASSUME NEW q \in Rows,
               Enqueue(q) \/ BecomeDue(q) \/ LeaseRunsOut(q) \/ LeaseOverrun(q)
        PROVE  \A v \in Relays : batch'[v] \subseteq batch[v]
    BY <2>5 DEF Enqueue, BecomeDue, LeaseRunsOut, LeaseOverrun, relayVars
  <2>6. CASE ReleaseExpiredLeases \/ UNCHANGED vars
    BY <2>3, <2>6 DEF ReleaseExpiredLeases, vars, relayVars
  <2>7. QED
    BY <2>2, <2>3, <2>4, <2>5, <2>6 DEF Next, RunOnce
<1>3. QED
  BY <1>1, <1>2, TypeCorrect, PTL DEF Spec

\* The outbox implements AtLeastOnce: "published" only after the transport got
\* the message, "published" and "dead" are final, and nothing is published that
\* was not enqueued -- with any relays, batches, crashes and lost replies.
THEOREM OutboxImplementsPromise == Spec => KeepsPromise
<1>1. Init => Promise!Init
  BY DEF Init, Promise!Init, PhaseOf
<1>2. TypeOK /\ MarkMeansDelivered /\ BatchesEnqueued /\ [Next]_vars
        => [Promise!Next]_(Promise!vars)
  <2> SUFFICES ASSUME TypeOK, MarkMeansDelivered, BatchesEnqueued, [Next]_vars
               PROVE  Promise!Next \/ UNCHANGED Promise!vars
    OBVIOUS
  <2>1. ASSUME NEW r \in Rows, Enqueue(r) PROVE Promise!Next
    <3>1. PhaseOf[r] = "unsent" /\ PhaseOf' = [PhaseOf EXCEPT ![r] = "owed"]
      BY <2>1 DEF Enqueue, PhaseOf, TypeOK
    <3>2. Promise!Accept(r)
      BY <2>1, <3>1 DEF Enqueue, Promise!Accept
    <3>3. QED
      BY <3>2 DEF Promise!Next
  <2>2. ASSUME NEW r \in Rows, BecomeDue(r) \/ LeaseRunsOut(r) \/ LeaseOverrun(r)
        PROVE  UNCHANGED Promise!vars
    BY <2>2 DEF BecomeDue, LeaseRunsOut, LeaseOverrun, PhaseOf, Promise!vars
  <2>3. CASE ReleaseExpiredLeases
    BY <2>3 DEF ReleaseExpiredLeases, Expired, PhaseOf, Promise!vars
  <2>4. ASSUME NEW w \in Relays, ClaimBatch(w) PROVE UNCHANGED Promise!vars
    <3> DEFINE claimed == FirstBatch({r \in Rows : Claimable(r)})
    <3>1. \A r \in claimed : status[r] \in {"pending", "failed"}
      BY DEF FirstBatch, Claimable
    <3>2. /\ status' = [r \in Rows |-> IF r \in claimed THEN "processing" ELSE status[r]]
          /\ delivered' = delivered
      BY <2>4 DEF ClaimBatch
    <3> HIDE DEF claimed
    <3>3. QED
      <4>1. ASSUME NEW r \in Rows
            PROVE  /\ status'[r] = "absent" <=> status[r] = "absent"
                   /\ status'[r] = "published" <=> status[r] = "published"
                   /\ status'[r] = "dead" <=> status[r] = "dead"
        BY <3>1, <3>2
      <4>2. PhaseOf' = PhaseOf
        BY <4>1 DEF PhaseOf
      <4>3. QED
        BY <3>2, <4>2 DEF Promise!vars
  <2>5. ASSUME NEW w \in Relays, NEW r \in Rows, Publish(w, r)
        PROVE  Promise!Next \/ UNCHANGED Promise!vars
    <3>1. status[r] # "absent"
      BY <2>5 DEF Publish, TakeRecord, BatchesEnqueued
    <3>2. QED
      BY <2>5, <3>1, TakingDelivers DEF Publish, Promise!Next
  <2>6. ASSUME NEW w \in Relays, NEW r \in Rows, PublishThrows(w, r)
        PROVE  Promise!Next \/ UNCHANGED Promise!vars
    <3>1. status[r] # "absent"
      BY <2>6 DEF PublishThrows, TakeRecord, BatchesEnqueued
    <3>2. PICK reached \in {0, 1} : delivered' = [delivered EXCEPT ![r] = @ + reached]
      BY <2>6 DEF PublishThrows
    <3>3. QED
      BY <2>6, <3>1, <3>2, TakingDelivers DEF PublishThrows, Promise!Next
  <2>7. ASSUME NEW w \in Relays, MarkPublished(w) \/ MarkPublishedThrows(w)
        PROVE  Promise!Next \/ UNCHANGED Promise!vars
    <3>1. cur[w] \in Rows /\ delivered[cur[w]] > 0 /\ UNCHANGED delivered
      BY <2>7 DEF MarkPublished, MarkPublishedThrows, MarkMeansDelivered, TypeOK
    <3>2. CASE UNCHANGED rowVars
      BY <3>1, <3>2 DEF rowVars, PhaseOf, Promise!vars
    <3>3. CASE Owns(w, cur[w]) /\ SetPublished(cur[w])
      BY <3>1, <3>3, SetPublishedSettles DEF Owns, Promise!Next
    <3>4. QED
      BY <2>7, <3>2, <3>3 DEF MarkPublished, MarkPublishedThrows
  <2>8. ASSUME NEW w \in Relays, MarkFailed(w) \/ MarkFailedThrows(w)
        PROVE  Promise!Next \/ UNCHANGED Promise!vars
    <3>1. cur[w] \in Rows /\ UNCHANGED delivered
      BY <2>8 DEF MarkFailed, MarkFailedThrows, TypeOK
    <3>2. CASE UNCHANGED rowVars
      BY <3>1, <3>2 DEF rowVars, PhaseOf, Promise!vars
    <3>3. CASE Owns(w, cur[w]) /\ SetFailed(cur[w])
      BY <3>1, <3>3, SetFailedBuriesOrKeeps DEF Owns, Promise!Next
    <3>4. QED
      BY <2>8, <3>2, <3>3 DEF MarkFailed, MarkFailedThrows
  <2>9. ASSUME NEW w \in Relays, Crash(w) \/ Restart(w) PROVE UNCHANGED Promise!vars
    BY <2>9 DEF Crash, Restart, rowVars, PhaseOf, Promise!vars
  <2>10. CASE UNCHANGED vars
    BY <2>10 DEF vars, rowVars, PhaseOf, Promise!vars
  <2>11. QED
    BY <2>1, <2>2, <2>3, <2>4, <2>5, <2>6, <2>7, <2>8, <2>9, <2>10 DEF Next, RunOnce
<1>3. QED
  BY <1>1, <1>2, TypeCorrect, MarkInvariant, BatchInvariant, PTL
  DEF Spec, KeepsPromise, Promise!Spec

================================================================================
