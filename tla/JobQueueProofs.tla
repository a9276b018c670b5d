----------------------------- MODULE JobQueueProofs -----------------------------
(***************************************************************************)
(* Theorems about the two ends of a job queue that need no broker: enqueue *)
(* with an idempotency key, for every set of keys, every finite set of     *)
(* callers, both stores and both brokers, and any number of repetitions    *)
(* and failures; and the in-memory job queue, for every set of jobs, every *)
(* finite set of slots and every attempt budget.                           *)
(***************************************************************************)
EXTENDS IdempotentEnqueue, InMemoryJobQueue, FiniteSetTheorems, FunctionTheorems, TLAPS

--------------------------------------------------------------------------------
(* Enqueue with an idempotency key. *)

\* The columns and counters keep their types, and a broker remembers only the id
\* of a job it has stored (Store sets the two together).
THEOREM EnqueueTypeCorrect == EnqueueSpec => []EnqueueTypeOK
<1>1. EnqueueInit => EnqueueTypeOK
  BY IdempotentEnqueueAssumption DEF EnqueueInit, EnqueueTypeOK
<1>2. EnqueueTypeOK /\ [EnqueueNext]_enqueueVars => EnqueueTypeOK'
  <2> SUFFICES ASSUME EnqueueTypeOK, [EnqueueNext]_enqueueVars PROVE EnqueueTypeOK'
    OBVIOUS
  <2> USE IdempotentEnqueueAssumption DEF EnqueueTypeOK, config, history, GoTo
  <2>1. ASSUME NEW c \in Callers, Claim(c) PROVE EnqueueTypeOK'
    BY <2>1 DEF Claim, SetRow
  <2>2. ASSUME NEW c \in Callers, ClaimRefused(c) PROVE EnqueueTypeOK'
    BY <2>2 DEF ClaimRefused
  <2>3. ASSUME NEW c \in Callers, Publish(c) PROVE EnqueueTypeOK'
    BY <2>3 DEF Publish, Store
  <2>4. ASSUME NEW c \in Callers, Release(c) PROVE EnqueueTypeOK'
    BY <2>4 DEF Release, DeleteRow
  <2>5. ASSUME NEW c \in Callers, ClaimThrows(c) PROVE EnqueueTypeOK'
    <3>1. CASE UNCHANGED <<row, owner, orphaned>>
      BY <2>5, <3>1 DEF ClaimThrows, Fault
    <3>2. CASE SetRow(KeyOf[c], Nobody) /\ orphaned' = [orphaned EXCEPT ![KeyOf[c]] = TRUE]
      BY <2>5, <3>2 DEF ClaimThrows, SetRow, Fault
    <3>3. QED
      BY <2>5, <3>1, <3>2 DEF ClaimThrows
  <2>6. ASSUME NEW c \in Callers, PublishThrows(c) PROVE EnqueueTypeOK'
    <3>1. CASE UNCHANGED <<stored, window>>
      BY <2>6, <3>1 DEF PublishThrows, Fault
    <3>2. CASE Store(KeyOf[c])
      BY <2>6, <3>2 DEF PublishThrows, Store, Fault
    <3>3. QED
      BY <2>6, <3>1, <3>2 DEF PublishThrows
  <2>7. ASSUME NEW c \in Callers, ReleaseThrows(c) PROVE EnqueueTypeOK'
    <3>1. CASE DeleteRow(KeyOf[c]) /\ UNCHANGED orphaned
      BY <2>7, <3>1 DEF ReleaseThrows, DeleteRow, Fault
    <3>2. CASE LeaveBehind(c) /\ UNCHANGED <<row, owner>>
      BY <2>7, <3>2 DEF ReleaseThrows, LeaveBehind, Fault
    <3>3. QED
      BY <2>7, <3>1, <3>2 DEF ReleaseThrows
  <2>8. ASSUME NEW c \in Callers, Crash(c) PROVE EnqueueTypeOK'
    BY <2>8 DEF Crash, LeaveBehind, Fault
  <2>9. ASSUME NEW c \in Callers, Repeat(c) PROVE EnqueueTypeOK'
    BY <2>9 DEF Repeat
  <2>10. ASSUME NEW k \in Keys, Expire(k) PROVE EnqueueTypeOK'
    BY <2>10 DEF Expire
  <2>11. ASSUME NEW k \in Keys, ExpireEarly(k) PROVE EnqueueTypeOK'
    BY <2>11 DEF ExpireEarly, Fault
  <2>12. ASSUME NEW k \in Keys, WindowEnds(k) PROVE EnqueueTypeOK'
    BY <2>12 DEF WindowEnds
  <2>13. CASE PruneExpired
    BY <2>13 DEF PruneExpired
  <2>14. CASE Clear
    BY <2>14 DEF Clear, Fault
  <2>15. CASE CrashAll
    BY <2>15 DEF CrashAll, Fault
  <2>16. CASE UNCHANGED enqueueVars
    BY <2>16 DEF enqueueVars
  <2>17. QED
    BY <2>1, <2>2, <2>3, <2>4, <2>5, <2>6, <2>7, <2>8, <2>9, <2>10, <2>11, <2>12,
       <2>13, <2>14, <2>15, <2>16 DEF EnqueueNext, Enqueue
<1>3. QED
  BY <1>1, <1>2, PTL DEF EnqueueSpec

--------------------------------------------------------------------------------
(* No second job without a lapse or a fault. *)

\* The calls for key k that hold a claim of it, or believe so.
Calling(k) == {c \in Callers : KeyOf[c] = k /\ InFlight(c)}

Unclaimed(k) == IF row[k] = "live" THEN 0 ELSE 1

\* JobsNeedLapses is not inductive: a call under way, or a row that may be claimed,
\* is about to store one job more.  Together they never come to more than one job,
\* one for each expired claim and one for each fault.
CopiesAccounted ==
  \A k \in Keys :
    stored[k] + Cardinality(Calling(k)) + Unclaimed(k) <= 1 + lapses[k] + failures

\* The calls for a key are finitely many, so they can be counted.
LEMMA CallingFinite ==
  ASSUME NEW k \in Keys
  PROVE  IsFiniteSet(Calling(k)) /\ Cardinality(Calling(k)) \in Nat
<1>1. Calling(k) \subseteq Callers
  BY DEF Calling
<1>2. IsFiniteSet(Calling(k))
  BY <1>1, IdempotentEnqueueAssumption, FS_Subset
<1>3. QED
  BY <1>2, FS_CardinalityType

\* claim admits a call when nobody holds the key.
LEMMA CallJoins ==
  ASSUME EnqueueTypeOK, NEW c \in Callers, ~InFlight(c), InFlight(c)',
         \A d \in Callers \ {c} : InFlight(d)' <=> InFlight(d), NEW k \in Keys
  PROVE  Cardinality(Calling(k)') =
           Cardinality(Calling(k)) + (IF KeyOf[c] = k THEN 1 ELSE 0)
<1>1. IsFiniteSet(Calling(k)) /\ Cardinality(Calling(k)) \in Nat
  BY CallingFinite
<1>2. CASE KeyOf[c] = k
  <2>1. c \notin Calling(k) /\ Calling(k)' = Calling(k) \cup {c}
    BY <1>2 DEF Calling
  <2>2. Cardinality(Calling(k) \cup {c}) = Cardinality(Calling(k)) + 1
    BY <1>1, <2>1, FS_AddElement
  <2>3. QED
    BY <1>2, <2>1, <2>2
<1>3. CASE KeyOf[c] # k
  <2>1. Calling(k)' = Calling(k)
    BY <1>3 DEF Calling
  <2>2. QED
    BY <1>1, <1>3, <2>1
<1>4. QED
  BY <1>2, <1>3

\* A call that returns, throws or dies is no longer under way.
LEMMA CallLeaves ==
  ASSUME EnqueueTypeOK, NEW c \in Callers, InFlight(c), ~InFlight(c)',
         \A d \in Callers \ {c} : InFlight(d)' <=> InFlight(d), NEW k \in Keys
  PROVE  Cardinality(Calling(k)') =
           Cardinality(Calling(k)) - (IF KeyOf[c] = k THEN 1 ELSE 0)
<1>1. IsFiniteSet(Calling(k)) /\ Cardinality(Calling(k)) \in Nat
  BY CallingFinite
<1>2. CASE KeyOf[c] = k
  <2>1. c \in Calling(k) /\ Calling(k)' = Calling(k) \ {c}
    BY <1>2 DEF Calling
  <2>2. Cardinality(Calling(k) \ {c}) = Cardinality(Calling(k)) - 1
    BY <1>1, <2>1, FS_RemoveElement
  <2>3. QED
    BY <1>2, <2>1, <2>2
<1>3. CASE KeyOf[c] # k
  <2>1. Calling(k)' = Calling(k)
    BY <1>3 DEF Calling
  <2>2. QED
    BY <1>1, <1>3, <2>1
<1>4. QED
  BY <1>2, <1>3

\* Steps that add nobody to the calls under way add nothing to their number.
LEMMA NobodyJoins ==
  ASSUME \A c \in Callers : InFlight(c)' => InFlight(c), NEW k \in Keys
  PROVE  /\ Cardinality(Calling(k)') \in Nat
         /\ Cardinality(Calling(k)') <= Cardinality(Calling(k))
<1>1. Calling(k)' \subseteq Calling(k)
  BY DEF Calling
<1>2. IsFiniteSet(Calling(k)) /\ Cardinality(Calling(k)) \in Nat
  BY CallingFinite
<1>3. IsFiniteSet(Calling(k)') /\ Cardinality(Calling(k)') <= Cardinality(Calling(k))
  BY <1>1, <1>2, FS_Subset
<1>4. QED
  BY <1>3, FS_CardinalityType

\* The account of a key is kept by every step (enqueue, the store and the broker).
LEMMA CopiesInvariant == EnqueueSpec => []CopiesAccounted
<1>1. EnqueueInit => CopiesAccounted
  <2> SUFFICES ASSUME EnqueueInit, NEW k \in Keys
               PROVE  stored[k] + Cardinality(Calling(k)) + Unclaimed(k)
                        <= 1 + lapses[k] + failures
    BY DEF CopiesAccounted
  <2>1. Calling(k) = {}
    BY DEF EnqueueInit, Calling, InFlight
  <2>2. QED
    BY <2>1, FS_EmptySet DEF EnqueueInit, Unclaimed
<1>2. EnqueueTypeOK /\ EnqueueTypeOK' /\ CopiesAccounted /\ [EnqueueNext]_enqueueVars => CopiesAccounted'
  <2> SUFFICES ASSUME EnqueueTypeOK, EnqueueTypeOK', CopiesAccounted, [EnqueueNext]_enqueueVars, NEW k \in Keys
               PROVE  stored'[k] + Cardinality(Calling(k)') + Unclaimed(k)'
                        <= 1 + lapses'[k] + failures'
    BY DEF CopiesAccounted
  <2> DEFINE n == Cardinality(Calling(k))
             n1 == Cardinality(Calling(k)')
             Kept == stored'[k] + n1 + Unclaimed(k)' <= 1 + lapses'[k] + failures'
  <2>0. stored[k] + n + Unclaimed(k) <= 1 + lapses[k] + failures
    BY DEF CopiesAccounted
  <2>t. n \in Nat /\ stored[k] \in Nat /\ lapses[k] \in Nat /\ failures \in Nat
    BY CallingFinite DEF EnqueueTypeOK
  <2>f. Fault => failures' = failures + 1
    BY DEF Fault
  <2>1. ASSUME NEW c \in Callers, Claim(c) PROVE Kept
    <3>1. n1 = n + (IF KeyOf[c] = k THEN 1 ELSE 0)
      <4>1. ~InFlight(c) /\ InFlight(c)' /\ \A d \in Callers \ {c} : InFlight(d)' <=> InFlight(d)
        BY <2>1 DEF Claim, GoTo, InFlight, EnqueueTypeOK
      <4>2. QED
        BY <4>1, CallJoins
    <3>2. KeyOf[c] = k => Unclaimed(k) = 1 /\ Unclaimed(k)' = 0
      BY <2>1 DEF Claim, Claimable, SetRow, Unclaimed, EnqueueTypeOK
    <3>3. KeyOf[c] # k => Unclaimed(k)' = Unclaimed(k)
      BY <2>1 DEF Claim, SetRow, Unclaimed, EnqueueTypeOK
    <3>4. UNCHANGED <<stored, lapses, failures>>
      BY <2>1 DEF Claim, history
    <3>5. Unclaimed(k) \in {0, 1}
      BY DEF Unclaimed
    <3> HIDE DEF n, n1
    <3>6. QED
      BY <2>0, <2>t, <3>1, <3>2, <3>3, <3>4, <3>5
  <2>2. ASSUME NEW c \in Callers, Publish(c) PROVE Kept
    <3>1. n1 = n - (IF KeyOf[c] = k THEN 1 ELSE 0)
      <4>1. InFlight(c) /\ ~InFlight(c)' /\ \A d \in Callers \ {c} : InFlight(d)' <=> InFlight(d)
        BY <2>2 DEF Publish, GoTo, InFlight, EnqueueTypeOK
      <4>2. QED
        BY <4>1, CallLeaves
    <3>2. stored'[k] <= stored[k] + (IF KeyOf[c] = k THEN 1 ELSE 0)
      BY <2>2 DEF Publish, Store, EnqueueTypeOK
    <3>3. UNCHANGED <<lapses, failures, row>>
      BY <2>2 DEF Publish, history
    <3>4. Unclaimed(k)' = Unclaimed(k) /\ Unclaimed(k) \in {0, 1} /\ stored'[k] \in Nat
      BY <3>3 DEF Unclaimed, EnqueueTypeOK
    <3> HIDE DEF n, n1
    <3>5. QED
      BY <2>0, <2>t, <3>1, <3>2, <3>3, <3>4
  <2>3. ASSUME NEW c \in Callers, PublishThrows(c) PROVE Kept
    <3>1. n1 <= n /\ n1 \in Nat
      BY <2>3, NobodyJoins DEF PublishThrows, GoTo, InFlight, EnqueueTypeOK
    <3>2. stored'[k] <= stored[k] + 1
      BY <2>3 DEF PublishThrows, Store, EnqueueTypeOK
    <3>3. UNCHANGED <<lapses, row>> /\ failures' = failures + 1
      BY <2>3, <2>f DEF PublishThrows, history
    <3>4. Unclaimed(k)' = Unclaimed(k) /\ Unclaimed(k) \in {0, 1} /\ stored'[k] \in Nat
      BY <3>3 DEF Unclaimed, EnqueueTypeOK
    <3> HIDE DEF n, n1
    <3>5. QED
      BY <2>0, <2>t, <3>1, <3>2, <3>3, <3>4
  <2>4. ASSUME NEW c \in Callers, Release(c) PROVE Kept
    <3>1. n1 = n - (IF KeyOf[c] = k THEN 1 ELSE 0)
      <4>1. InFlight(c) /\ ~InFlight(c)' /\ \A d \in Callers \ {c} : InFlight(d)' <=> InFlight(d)
        BY <2>4 DEF Release, GoTo, InFlight, EnqueueTypeOK
      <4>2. QED
        BY <4>1, CallLeaves
    <3>2. KeyOf[c] # k => Unclaimed(k)' = Unclaimed(k)
      BY <2>4 DEF Release, DeleteRow, Unclaimed, EnqueueTypeOK
    <3>3. UNCHANGED <<stored, lapses, failures>>
      BY <2>4 DEF Release, history
    <3>4. Unclaimed(k) \in {0, 1} /\ Unclaimed(k)' \in {0, 1}
      BY DEF Unclaimed
    <3> HIDE DEF n, n1
    <3>5. QED
      BY <2>0, <2>t, <3>1, <3>2, <3>3, <3>4
  <2>5. ASSUME NEW c \in Callers, ClaimThrows(c) \/ ReleaseThrows(c) \/ Crash(c) PROVE Kept
    <3>1. n1 <= n /\ n1 \in Nat
      BY <2>5, NobodyJoins DEF ClaimThrows, ReleaseThrows, Crash, GoTo, InFlight, EnqueueTypeOK
    <3>2. UNCHANGED <<stored, lapses>> /\ failures' = failures + 1
      BY <2>5, <2>f DEF ClaimThrows, ReleaseThrows, Crash
    <3>3. Unclaimed(k) \in {0, 1} /\ Unclaimed(k)' \in {0, 1}
      BY DEF Unclaimed
    <3> HIDE DEF n, n1
    <3>4. QED
      BY <2>0, <2>t, <3>1, <3>2, <3>3
  <2>6. ASSUME (\E c \in Callers : ClaimRefused(c) \/ Repeat(c)) \/ (\E l \in Keys : WindowEnds(l))
               \/ UNCHANGED enqueueVars
        PROVE  Kept
    <3>1. n1 <= n /\ n1 \in Nat
      BY <2>6, NobodyJoins DEF ClaimRefused, Repeat, WindowEnds, GoTo, InFlight, EnqueueTypeOK, enqueueVars
    <3>2. UNCHANGED <<stored, lapses, failures, row>>
      BY <2>6 DEF ClaimRefused, Repeat, WindowEnds, enqueueVars, history
    <3>3. Unclaimed(k)' = Unclaimed(k) /\ Unclaimed(k) \in {0, 1}
      BY <3>2 DEF Unclaimed
    <3> HIDE DEF n, n1
    <3>4. QED
      BY <2>0, <2>t, <3>1, <3>2, <3>3
  <2>7. ASSUME NEW l \in Keys, Expire(l) PROVE Kept
    <3>1. n1 <= n /\ n1 \in Nat
      BY <2>7, NobodyJoins DEF Expire, InFlight
    <3>2. UNCHANGED <<stored, failures>> /\ lapses'[k] = lapses[k] + (IF k = l THEN 1 ELSE 0)
      BY <2>7 DEF Expire, EnqueueTypeOK
    <3>3. k # l => Unclaimed(k)' = Unclaimed(k)
      BY <2>7 DEF Expire, Unclaimed, EnqueueTypeOK
    <3>4. Unclaimed(k) \in {0, 1} /\ Unclaimed(k)' \in {0, 1}
      BY DEF Unclaimed
    <3> HIDE DEF n, n1
    <3>5. QED
      BY <2>0, <2>t, <3>1, <3>2, <3>3, <3>4
  <2>8. ASSUME (\E l \in Keys : ExpireEarly(l)) \/ Clear \/ CrashAll PROVE Kept
    <3>1. n1 <= n /\ n1 \in Nat
      BY <2>8, NobodyJoins DEF ExpireEarly, Clear, CrashAll, InFlight, EnqueueTypeOK
    <3>2. UNCHANGED <<stored, lapses>> /\ failures' = failures + 1
      BY <2>8, <2>f DEF ExpireEarly, Clear, CrashAll, history
    <3>3. Unclaimed(k) \in {0, 1} /\ Unclaimed(k)' \in {0, 1}
      BY DEF Unclaimed
    <3> HIDE DEF n, n1
    <3>4. QED
      BY <2>0, <2>t, <3>1, <3>2, <3>3
  <2>9. ASSUME PruneExpired PROVE Kept
    <3>1. n1 <= n /\ n1 \in Nat
      BY <2>9, NobodyJoins DEF PruneExpired, InFlight
    <3>2. UNCHANGED <<stored, lapses, failures>>
      BY <2>9 DEF PruneExpired, history
    <3>3. Unclaimed(k)' = Unclaimed(k) /\ Unclaimed(k) \in {0, 1}
      BY <2>9 DEF PruneExpired, Unclaimed, EnqueueTypeOK
    <3> HIDE DEF n, n1
    <3>4. QED
      BY <2>0, <2>t, <3>1, <3>2, <3>3
  <2>10. QED
    BY <2>1, <2>2, <2>3, <2>4, <2>5, <2>6, <2>7, <2>8, <2>9 DEF EnqueueNext, Enqueue
<1>3. QED
  BY <1>1, <1>2, EnqueueTypeCorrect, PTL DEF EnqueueSpec

\* Calls that race each other enqueue one job: every further copy under a key is
\* paid for by an expired claim or by a fault (NatsJetStreamJobQueue.enqueue).
THEOREM CopiesNeedLapses == EnqueueSpec => []JobsNeedLapses
<1>1. EnqueueTypeOK /\ CopiesAccounted => JobsNeedLapses
  <2> SUFFICES ASSUME EnqueueTypeOK, CopiesAccounted, NEW k \in Keys
               PROVE  stored[k] <= 1 + lapses[k] + failures
    BY DEF JobsNeedLapses
  <2>1. stored[k] + Cardinality(Calling(k)) + Unclaimed(k) <= 1 + lapses[k] + failures
    BY DEF CopiesAccounted
  <2>2. Cardinality(Calling(k)) \in Nat /\ Unclaimed(k) \in Nat
    BY CallingFinite DEF Unclaimed
  <2>3. QED
    BY <2>1, <2>2 DEF EnqueueTypeOK
<1>2. QED
  BY <1>1, EnqueueTypeCorrect, CopiesInvariant, PTL

--------------------------------------------------------------------------------
(* A caller is not told that a job is enqueued which nobody owes. *)

\* A key that is claimed and has no job belongs to a call that will publish it,
\* unless the claim was left behind.
ClaimIsWorkedOn ==
  \A k \in Keys :
    row[k] = "live" /\ stored[k] = 0
      => \/ orphaned[k]
         \/ \E c \in Callers : owner[k] = c /\ KeyOf[c] = k /\ InFlight(c)

Owed == AcceptedIsOwed /\ ClaimIsWorkedOn

\* Jobs are never taken back from a broker, and a claim left behind stays one.
LEMMA MarksStay ==
  ASSUME EnqueueTypeOK, [EnqueueNext]_enqueueVars, NEW k \in Keys
  PROVE  /\ stored'[k] \in Nat
         /\ stored'[k] = 0 => stored[k] = 0
         /\ orphaned[k] => orphaned'[k]
<1> USE IdempotentEnqueueAssumption DEF EnqueueTypeOK, history
<1>1. ASSUME NEW c \in Callers, Enqueue(c) PROVE stored'[k] \in Nat /\ stored'[k] >= stored[k]
  BY <1>1 DEF Enqueue, Claim, ClaimRefused, Publish, Release, Store
<1>2. ASSUME NEW c \in Callers, Enqueue(c) PROVE UNCHANGED orphaned
  BY <1>2 DEF Enqueue, Claim, ClaimRefused, Publish, Release
<1>3. ASSUME NEW c \in Callers, PublishThrows(c)
      PROVE  stored'[k] \in Nat /\ stored'[k] >= stored[k] /\ UNCHANGED orphaned
  BY <1>3 DEF PublishThrows, Store
<1>4. ASSUME NEW c \in Callers, ClaimThrows(c) \/ ReleaseThrows(c) \/ Crash(c)
      PROVE  UNCHANGED stored /\ (orphaned[k] => orphaned'[k])
  BY <1>4 DEF ClaimThrows, ReleaseThrows, Crash, LeaveBehind
<1>5. ASSUME \/ \E c \in Callers : Repeat(c)
             \/ \E l \in Keys : Expire(l) \/ ExpireEarly(l) \/ WindowEnds(l)
             \/ PruneExpired \/ Clear \/ CrashAll \/ UNCHANGED enqueueVars
      PROVE  UNCHANGED <<stored, orphaned>>
  BY <1>5 DEF Repeat, Expire, ExpireEarly, WindowEnds, PruneExpired, Clear, CrashAll, enqueueVars
<1>6. QED
  BY <1>1, <1>2, <1>3, <1>4, <1>5 DEF EnqueueNext

\* Every step leaves a claim with the call that will publish, ends it, or leaves it
\* behind (enqueue, from its claim to its return).
LEMMA ClaimsKept ==
  ASSUME EnqueueTypeOK, ClaimIsWorkedOn, [EnqueueNext]_enqueueVars
  PROVE  ClaimIsWorkedOn'
<1> USE IdempotentEnqueueAssumption
<1> SUFFICES ASSUME NEW k \in Keys, row'[k] = "live", stored'[k] = 0, ~orphaned'[k]
             PROVE  \E c \in Callers : owner'[k] = c /\ KeyOf[c] = k /\ InFlight(c)'
  BY DEF ClaimIsWorkedOn
<1> DEFINE Works(c) == owner[k] = c /\ KeyOf[c] = k /\ InFlight(c)
           Goal == \E c \in Callers : owner'[k] = c /\ KeyOf[c] = k /\ InFlight(c)'
<1>1. stored[k] = 0 /\ ~orphaned[k]
  BY MarksStay
<1>2. row[k] = "live" => \E c \in Callers : Works(c)
  BY <1>1 DEF ClaimIsWorkedOn
<1>3. ASSUME NEW d \in Callers, Claim(d) PROVE Goal
  <2>1. CASE KeyOf[d] = k
    BY <1>3, <2>1 DEF Claim, SetRow, GoTo, InFlight, EnqueueTypeOK
  <2>2. CASE KeyOf[d] # k
    BY <1>2, <1>3, <2>2 DEF Claim, SetRow, GoTo, InFlight, EnqueueTypeOK
  <2>3. QED
    BY <2>1, <2>2
<1>4. ASSUME NEW d \in Callers, ClaimRefused(d) \/ Repeat(d) PROVE Goal
  BY <1>2, <1>4 DEF ClaimRefused, Repeat, GoTo, InFlight, EnqueueTypeOK
<1>5. ASSUME NEW d \in Callers, Publish(d) PROVE Goal
  <2>1. KeyOf[d] # k
    BY <1>1, <1>5 DEF Publish, Store, EnqueueTypeOK
  <2>2. QED
    BY <1>2, <1>5, <2>1 DEF Publish, GoTo, InFlight, EnqueueTypeOK
<1>6. ASSUME NEW d \in Callers, PublishThrows(d) PROVE Goal
  BY <1>2, <1>6 DEF PublishThrows, GoTo, InFlight, EnqueueTypeOK
<1>7. ASSUME NEW d \in Callers, ClaimThrows(d) PROVE Goal
  <2>1. CASE UNCHANGED <<row, owner, orphaned>>
    BY <1>2, <1>7, <2>1 DEF ClaimThrows, InFlight
  <2>2. CASE SetRow(KeyOf[d], Nobody) /\ orphaned' = [orphaned EXCEPT ![KeyOf[d]] = TRUE]
    <3>1. KeyOf[d] # k
      BY <2>2 DEF EnqueueTypeOK
    <3>2. QED
      BY <1>2, <1>7, <2>2, <3>1 DEF ClaimThrows, SetRow, InFlight, EnqueueTypeOK
  <2>3. QED
    BY <1>7, <2>1, <2>2 DEF ClaimThrows
<1>8. ASSUME NEW d \in Callers, pc[d] = "release", DeleteRow(KeyOf[d]), GoTo(d, "idle")
      PROVE  Goal
  <2>1. KeyOf[d] # k
    BY <1>8 DEF DeleteRow, EnqueueTypeOK
  <2>2. QED
    BY <1>2, <1>8, <2>1 DEF DeleteRow, GoTo, InFlight, EnqueueTypeOK
<1>9. ASSUME NEW d \in Callers, LeaveBehind(d), UNCHANGED <<row, owner>>, GoTo(d, "idle")
      PROVE  Goal
  <2>1. PICK c \in Callers : Works(c)
    BY <1>2, <1>9
  <2>2. c # d
    BY <1>9, <2>1 DEF LeaveBehind, EnqueueTypeOK
  <2>3. QED
    BY <1>9, <2>1, <2>2 DEF GoTo, InFlight, EnqueueTypeOK
<1>10. ASSUME NEW d \in Callers, Release(d) \/ ReleaseThrows(d) \/ Crash(d) PROVE Goal
  BY <1>8, <1>9, <1>10 DEF Release, ReleaseThrows, Crash
<1>11. ASSUME NEW l \in Keys, Expire(l) \/ ExpireEarly(l) \/ WindowEnds(l) PROVE Goal
  BY <1>2, <1>11 DEF Expire, ExpireEarly, WindowEnds, InFlight, EnqueueTypeOK
<1>12. ASSUME PruneExpired \/ Clear \/ CrashAll \/ UNCHANGED enqueueVars PROVE Goal
  BY <1>2, <1>12 DEF PruneExpired, Clear, CrashAll, InFlight, enqueueVars
<1>13. QED
  BY <1>3, <1>4, <1>5, <1>6, <1>7, <1>10, <1>11, <1>12 DEF EnqueueNext, Enqueue

\* A call returns only by publishing or by finding the key claimed.
LEMMA DoneAfter ==
  ASSUME EnqueueTypeOK, [EnqueueNext]_enqueueVars, NEW c \in Callers, pc[c] # "done", pc'[c] = "done"
  PROVE  Publish(c) \/ ClaimRefused(c)
<1> USE DEF EnqueueTypeOK, GoTo
<1>1. ASSUME NEW d \in Callers, Claim(d) \/ Release(d) PROVE FALSE
  BY <1>1 DEF Claim, Release
<1>2. ASSUME NEW d \in Callers, Publish(d) \/ ClaimRefused(d) PROVE d = c
  BY <1>2 DEF Publish, ClaimRefused
<1>3. ASSUME NEW d \in Callers,
             ClaimThrows(d) \/ PublishThrows(d) \/ ReleaseThrows(d) \/ Crash(d) \/ Repeat(d)
      PROVE  FALSE
  BY <1>3 DEF ClaimThrows, PublishThrows, ReleaseThrows, Crash, Repeat
<1>4. ASSUME \/ \E l \in Keys : Expire(l) \/ ExpireEarly(l) \/ WindowEnds(l)
             \/ PruneExpired \/ Clear \/ CrashAll \/ UNCHANGED enqueueVars
      PROVE  FALSE
  BY <1>4 DEF Expire, ExpireEarly, WindowEnds, PruneExpired, Clear, CrashAll, enqueueVars
<1>5. QED
  BY <1>1, <1>2, <1>3, <1>4 DEF EnqueueNext, Enqueue

\* enqueue returns although nothing is stored only while somebody else still owes
\* the job, or a claim of its key was left behind: for every schedule of the calls.
THEOREM AcceptedJobsAreOwed == EnqueueSpec => []AcceptedIsOwed
<1>1. EnqueueInit => Owed
  BY IdempotentEnqueueAssumption DEF EnqueueInit, Owed, AcceptedIsOwed, ClaimIsWorkedOn
<1>2. EnqueueTypeOK /\ Owed /\ [EnqueueNext]_enqueueVars => Owed'
  <2> USE IdempotentEnqueueAssumption
  <2> SUFFICES ASSUME EnqueueTypeOK, AcceptedIsOwed, ClaimIsWorkedOn, [EnqueueNext]_enqueueVars,
                      NEW c \in Callers, pc'[c] = "done", stored'[KeyOf[c]] = 0,
                      ~orphaned'[KeyOf[c]]
               PROVE  \E d \in Callers : KeyOf[d] = KeyOf[c] /\ pc'[d] # "done"
    BY ClaimsKept DEF Owed, AcceptedIsOwed
  <2>1. stored[KeyOf[c]] = 0 /\ ~orphaned[KeyOf[c]]
    BY MarksStay
  <2>2. ASSUME NEW d \in Callers, KeyOf[d] = KeyOf[c] PROVE ~Publish(d)
    BY <2>1, <2>2 DEF Publish, Store, EnqueueTypeOK
  <2>3. CASE \E d \in Callers : KeyOf[d] = KeyOf[c] /\ ClaimRefused(d)
    <3>1. PICK d \in Callers : KeyOf[d] = KeyOf[c] /\ ClaimRefused(d)
      BY <2>3
    <3>2. row[KeyOf[c]] = "live"
      BY <3>1 DEF ClaimRefused, Claimable
    <3>3. PICK e \in Callers : KeyOf[e] = KeyOf[c] /\ InFlight(e)
      BY <2>1, <3>2 DEF ClaimIsWorkedOn
    <3>4. pc'[e] # "done"
      BY <3>1, <3>3 DEF ClaimRefused, GoTo, InFlight, EnqueueTypeOK
    <3>5. QED
      BY <3>3, <3>4
  <2>4. CASE ~\E d \in Callers : KeyOf[d] = KeyOf[c] /\ ClaimRefused(d)
    <3>1. pc[c] = "done"
      BY <2>2, <2>4, DoneAfter
    <3>2. PICK d \in Callers : KeyOf[d] = KeyOf[c] /\ pc[d] # "done"
      BY <2>1, <3>1 DEF AcceptedIsOwed
    <3>3. pc'[d] # "done"
      BY <2>2, <2>4, <3>2, DoneAfter
    <3>4. QED
      BY <3>2, <3>3
  <2>5. QED
    BY <2>3, <2>4
<1>3. Owed => AcceptedIsOwed
  BY DEF Owed
<1>4. QED
  BY <1>1, <1>2, <1>3, EnqueueTypeCorrect, PTL DEF EnqueueSpec

--------------------------------------------------------------------------------
(* A release takes the claim of another call only after two faults. *)

Holds(c) == row[KeyOf[c]] = "live" /\ owner[KeyOf[c]] = c

\* A call is about to release a key only after its publication threw, and a call
\* under way loses its claim only by a fault or to a release.
ReleasesArePaid ==
  \A c \in Callers :
    /\ pc[c] = "release" => failures >= 1
    /\ InFlight(c) /\ ~Holds(c) => failures >= 1
    /\ pc[c] = "release" /\ ~Holds(c) => failures >= 2

\* The three bounds are kept by every step.
LEMMA ReleasesInvariant == EnqueueSpec => []ReleasesArePaid
<1>1. EnqueueInit => ReleasesArePaid
  BY DEF EnqueueInit, ReleasesArePaid, InFlight
<1>2. EnqueueTypeOK /\ ReleasesArePaid /\ [EnqueueNext]_enqueueVars => ReleasesArePaid'
  <2> USE IdempotentEnqueueAssumption DEF EnqueueTypeOK
  <2> SUFFICES ASSUME EnqueueTypeOK, ReleasesArePaid, [EnqueueNext]_enqueueVars, NEW c \in Callers
               PROVE  /\ pc'[c] = "release" => failures' >= 1
                      /\ InFlight(c)' /\ ~Holds(c)' => failures' >= 1
                      /\ pc'[c] = "release" /\ ~Holds(c)' => failures' >= 2
    BY DEF ReleasesArePaid
  <2> DEFINE Paid == /\ pc'[c] = "release" => failures' >= 1
                     /\ InFlight(c)' /\ ~Holds(c)' => failures' >= 1
                     /\ pc'[c] = "release" /\ ~Holds(c)' => failures' >= 2
  <2>1. /\ pc[c] = "release" => failures >= 1
        /\ InFlight(c) /\ ~Holds(c) => failures >= 1
        /\ pc[c] = "release" /\ ~Holds(c) => failures >= 2
    BY DEF ReleasesArePaid
  <2>2. ASSUME failures' = failures + 1, pc'[c] = "release" => InFlight(c),
               InFlight(c)' => InFlight(c), pc[c] = "publish" => (Holds(c) <=> Holds(c)')
        PROVE  Paid
    BY <2>1, <2>2 DEF InFlight
  <2>3. ASSUME failures' = failures + 1, InFlight(c)' => pc'[c] = pc[c]
        PROVE  Paid
    BY <2>1, <2>3 DEF InFlight
  <2>4. ASSUME failures' = failures, InFlight(c)' => pc'[c] = pc[c], Holds(c) => Holds(c)'
        PROVE  Paid
    BY <2>1, <2>4 DEF InFlight
  <2>5. ASSUME NEW d \in Callers, Claim(d) PROVE Paid
    <3>1. CASE d = c
      BY <2>5, <3>1 DEF Claim, SetRow, GoTo, Holds
    <3>2. CASE d # c
      <4>1. Holds(c) => Holds(c)'
        BY <2>5, <3>2 DEF Claim, Claimable, SetRow, Holds
      <4>2. QED
        BY <2>4, <2>5, <3>2, <4>1 DEF Claim, GoTo
    <3>3. QED
      BY <3>1, <3>2
  <2>6. ASSUME NEW d \in Callers, ClaimRefused(d) \/ Publish(d) \/ Repeat(d) PROVE Paid
    BY <2>4, <2>6 DEF ClaimRefused, Publish, Repeat, GoTo, Holds, InFlight
  <2>7. ASSUME NEW d \in Callers, PublishThrows(d) PROVE Paid
    BY <2>2, <2>7 DEF PublishThrows, Fault, GoTo, Holds, InFlight
  <2>8. ASSUME NEW d \in Callers, Release(d) PROVE Paid
    <3>1. CASE d = c
      BY <2>8, <3>1 DEF Release, GoTo, InFlight
    <3>2. CASE d # c /\ (KeyOf[d] # KeyOf[c] \/ ~Holds(c))
      <4>1. Holds(c) => Holds(c)'
        BY <2>8, <3>2 DEF Release, DeleteRow, Holds
      <4>2. QED
        BY <2>4, <2>8, <3>2, <4>1 DEF Release, GoTo
    <3>3. CASE d # c /\ KeyOf[d] = KeyOf[c] /\ Holds(c)
      <4>1. pc[d] = "release" /\ ~Holds(d)
        BY <2>8, <3>3 DEF Release, Holds
      <4>2. failures >= 2 /\ failures' = failures
        BY <2>8, <4>1 DEF ReleasesArePaid, Release
      <4>3. QED
        BY <4>2
    <3>4. QED
      BY <3>1, <3>2, <3>3
  <2>9. ASSUME NEW d \in Callers, ClaimThrows(d) \/ ReleaseThrows(d) \/ Crash(d) PROVE Paid
    BY <2>3, <2>9 DEF ClaimThrows, ReleaseThrows, Crash, Fault, GoTo, InFlight
  <2>10. ASSUME (\E l \in Keys : ExpireEarly(l)) \/ Clear \/ CrashAll PROVE Paid
    BY <2>3, <2>10 DEF ExpireEarly, Clear, CrashAll, Fault, InFlight
  <2>11. ASSUME NEW l \in Keys, Expire(l) PROVE Paid
    <3>1. CASE InFlight(c) /\ Holds(c)
      <4>1. Holds(c)'
        BY <2>11, <3>1 DEF Expire, Holds
      <4>2. QED
        BY <2>4, <2>11, <4>1 DEF Expire
    <3>2. CASE ~(InFlight(c) /\ Holds(c))
      BY <2>1, <2>11, <3>2 DEF Expire, InFlight
    <3>3. QED
      BY <3>1, <3>2
  <2>12. ASSUME (\E l \in Keys : WindowEnds(l)) \/ PruneExpired \/ UNCHANGED enqueueVars PROVE Paid
    BY <2>4, <2>12 DEF WindowEnds, PruneExpired, Holds, enqueueVars
  <2>13. QED
    BY <2>5, <2>6, <2>7, <2>8, <2>9, <2>10, <2>11, <2>12 DEF EnqueueNext, Enqueue
<1>3. QED
  BY <1>1, <1>2, EnqueueTypeCorrect, PTL DEF EnqueueSpec

\* release compares no owners (postgres_idempotency_store.dart), and still it takes
\* a failed publication and a claim that ended under its call to delete another's.
THEOREM ForeignReleases == EnqueueSpec => []ForeignReleaseNeedsFaults
<1>1. ReleasesArePaid => ForeignReleaseNeedsFaults
  BY DEF ReleasesArePaid, ForeignReleaseNeedsFaults, Holds
<1>2. QED
  BY <1>1, ReleasesInvariant, PTL

--------------------------------------------------------------------------------
(* The in-memory job queue: what _drainTopic does. *)

\* The jobs at the head of a queue that are not in the future can be counted.
LEMMA DueCounts ==
  ASSUME NEW q \in Seq(Entry)
  PROVE  Due(q) \in 0..Len(q)
<1> DEFINE D == {n \in 1..Len(q) : \A i \in 1..n : ~q[i].later}
<1>1. Len(q) \in Nat
  OBVIOUS
<1>2. IsFiniteSet(1..Len(q)) /\ Cardinality(1..Len(q)) = Len(q)
  <2>1. /\ IsFiniteSet(1..Len(q))
        /\ Cardinality(1..Len(q)) = IF 1 > Len(q) THEN 0 ELSE Len(q) - 1 + 1
    BY <1>1, FS_Interval
  <2>2. QED
    BY <1>1, <2>1
<1>3. D \subseteq 1..Len(q)
  OBVIOUS
<1>4. IsFiniteSet(D) /\ Cardinality(D) <= Len(q)
  BY <1>2, <1>3, FS_Subset
<1>5. Cardinality(D) \in Nat
  BY <1>4, FS_CardinalityType
<1>6. QED
  BY <1>1, <1>4, <1>5 DEF Due

\* The invocation that starts for a queue entry.
Started(e) == [job |-> e.job, attempt |-> e.attempt + 1, completed |-> FALSE]

\* What _drainTopic does to the queue and the slots: it takes n entries off the head
\* and starts each on a slot of its own, free on an open worker.
Starts(q, run, n, slot) ==
  /\ n \in Nat /\ n <= Len(q) /\ (n # 0 => Usable')
  /\ jobs' \in Seq(Entry) /\ DOMAIN jobs' = 1..(Len(q) - n)
  /\ \A k \in 1..(Len(q) - n) : jobs'[k] = q[n + k]
  /\ \A i, k \in 1..n : slot[i] = slot[k] => i = k
  /\ \A i \in 1..n :
       /\ slot[i] \in Slots /\ run[slot[i]] = Idle /\ worker'[slot[i].worker] = "open"
       /\ task'[slot[i]] = Started(q[i])
  /\ \A s \in Slots : (\A i \in 1..n : slot[i] # s) => task'[s] = run[s]

\* Every drain is of that form, for the number of jobs that are due and the free slots.
LEMMA DrainStarts ==
  ASSUME NEW q \in Seq(Entry), NEW run \in [Slots -> Run \cup {Idle}],
         NEW armed \in BOOLEAN, Drain(q, run, armed)
  PROVE  /\ \E n, slot : Starts(q, run, n, slot)
         /\ wakeup' \in BOOLEAN /\ task' = [s \in Slots |-> task'[s]]
<1> DEFINE free == {s \in Slots : worker'[s.worker] = "open" /\ run[s] = Idle}
           n == IF Usable' THEN Lesser(Due(q), Cardinality(free)) ELSE 0
<1>1. n \in 0..Len(q) /\ (n # 0 => Usable')
  <2>1. IsFiniteSet(free)
    BY QueueAssumption, FS_Subset
  <2>2. Cardinality(free) \in Nat
    BY <2>1, FS_CardinalityType
  <2>3. QED
    BY <2>2, DueCounts DEF Lesser
<1>2. PICK slot \in [1..n -> free] :
        /\ \A i, k \in 1..n : slot[i] = slot[k] => i = k
        /\ jobs' = SubSeq(q, n + 1, Len(q))
        /\ task' = [s \in Slots |->
                      IF \E i \in 1..n : slot[i] = s
                        THEN LET e == q[CHOOSE i \in 1..n : slot[i] = s]
                             IN  [job |-> e.job, attempt |-> e.attempt + 1, completed |-> FALSE]
                        ELSE run[s]]
        /\ wakeup' = (armed \/ (Usable' /\ n < Len(q) /\ n < Cardinality(free)))
  BY DEF Drain
<1> HIDE DEF n
<1>3. Len(q) \in Nat /\ n \in Nat /\ n <= Len(q)
  BY <1>1
<1>4. /\ jobs' \in Seq(Entry) /\ DOMAIN jobs' = 1..(Len(q) - n)
      /\ \A k \in 1..(Len(q) - n) : jobs'[k] = q[n + k]
  BY <1>2, <1>3
<1>5. ASSUME NEW i \in 1..n
      PROVE  slot[i] \in free /\ task'[slot[i]] = Started(q[i])
  <2>1. slot[i] \in free /\ slot[i] \in Slots
    BY <1>2
  <2>2. (CHOOSE k \in 1..n : slot[k] = slot[i]) = i
    BY <1>2
  <2>3. QED
    BY <1>2, <2>1, <2>2 DEF Started
<1>6. ASSUME NEW s \in Slots, \A i \in 1..n : slot[i] # s
      PROVE  task'[s] = run[s]
  BY <1>2, <1>6
<1>7. Starts(q, run, n, slot)
  <2>1. \A i \in 1..n :
          /\ slot[i] \in Slots /\ run[slot[i]] = Idle /\ worker'[slot[i].worker] = "open"
          /\ task'[slot[i]] = Started(q[i])
    BY <1>5
  <2>2. QED
    BY <1>1, <1>2, <1>3, <1>4, <1>6, <2>1 DEF Starts
<1>8. QED
  BY <1>2, <1>7

\* _drainTopic leaves running invocations alone and starts others only on slots that
\* are free on open workers of a usable queue; each entry of the queue stays in it
\* or is started, and nothing else gets into the queue or onto a slot.
LEMMA DrainMoves ==
  ASSUME NEW q \in Seq(Entry), NEW run \in [Slots -> Run \cup {Idle}],
         NEW armed \in BOOLEAN, Drain(q, run, armed)
  PROVE  /\ jobs' \in Seq(Entry)
         /\ task' \in [Slots -> Run \cup {Idle}]
         /\ wakeup' \in BOOLEAN
         /\ \A k \in DOMAIN jobs' : \E i \in DOMAIN q : jobs'[k] = q[i]
         /\ \A s \in Slots :
              \/ task'[s] = run[s]
              \/ /\ run[s] = Idle /\ Usable' /\ worker'[s.worker] = "open"
                 /\ \E i \in DOMAIN q : task'[s] = Started(q[i])
         /\ \A i \in DOMAIN q :
              \/ \E k \in DOMAIN jobs' : jobs'[k] = q[i]
              \/ \E s \in Slots : run[s] = Idle /\ task'[s] = Started(q[i])
<1>1. PICK n, slot : Starts(q, run, n, slot)
  BY DrainStarts
<1>2. /\ n \in Nat /\ n <= Len(q) /\ (n # 0 => Usable')
      /\ jobs' \in Seq(Entry) /\ DOMAIN jobs' = 1..(Len(q) - n)
      /\ \A k \in 1..(Len(q) - n) : jobs'[k] = q[n + k]
  BY <1>1 DEF Starts
<1>3. Len(q) \in Nat /\ DOMAIN q = 1..Len(q) /\ \A i \in DOMAIN q : q[i] \in Entry
  OBVIOUS
<1>4. \A i \in 1..n :
        /\ slot[i] \in Slots /\ run[slot[i]] = Idle /\ worker'[slot[i].worker] = "open"
        /\ task'[slot[i]] = Started(q[i])
  BY <1>1 DEF Starts
<1>5. \A e \in Entry : Started(e) \in Run
  BY DEF Started, Entry, Run
<1>6. ASSUME NEW s \in Slots
      PROVE  \/ task'[s] = run[s]
             \/ /\ run[s] = Idle /\ Usable' /\ worker'[s.worker] = "open"
                /\ \E i \in DOMAIN q : task'[s] = Started(q[i])
  <2>1. CASE \E i \in 1..n : slot[i] = s
    <3>1. PICK i \in 1..n : slot[i] = s
      BY <2>1
    <3>2. n # 0 /\ i \in DOMAIN q
      BY <1>2, <1>3, <3>1
    <3>3. QED
      BY <1>2, <1>4, <3>1, <3>2
  <2>2. CASE ~(\E i \in 1..n : slot[i] = s)
    BY <1>1, <2>2 DEF Starts
  <2>3. QED
    BY <2>1, <2>2
<1>7. task' \in [Slots -> Run \cup {Idle}]
  <2>1. \A s \in Slots : task'[s] \in Run \cup {Idle}
    BY <1>3, <1>5, <1>6
  <2>2. task' = [s \in Slots |-> task'[s]]
    BY DrainStarts
  <2>3. QED
    BY <2>1, <2>2
<1>8. ASSUME NEW i \in DOMAIN q
      PROVE  \/ \E k \in DOMAIN jobs' : jobs'[k] = q[i]
             \/ \E s \in Slots : run[s] = Idle /\ task'[s] = Started(q[i])
  <2>1. CASE i <= n
    BY <1>3, <1>4, <2>1
  <2>2. CASE i > n
    <3>1. i - n \in 1..(Len(q) - n) /\ n + (i - n) = i
      BY <1>2, <1>3, <2>2
    <3>2. QED
      BY <1>2, <3>1
  <2>3. QED
    BY <1>2, <1>3, <2>1, <2>2
<1>9. ASSUME NEW k \in DOMAIN jobs'
      PROVE  \E i \in DOMAIN q : jobs'[k] = q[i]
  <2>1. n + k \in DOMAIN q /\ jobs'[k] = q[n + k]
    BY <1>2, <1>3
  <2>2. QED
    BY <2>1
<1>10. wakeup' \in BOOLEAN
  BY DrainStarts
<1>11. QED
  BY <1>2, <1>6, <1>7, <1>8, <1>9, <1>10

--------------------------------------------------------------------------------
(* Types. *)

\* The invocation that ends leaves its slot; the others stay.
LEMMA Emptied ==
  ASSUME TypeOK, NEW s \in Slots
  PROVE  /\ [task EXCEPT ![s] = Idle] \in [Slots -> Run \cup {Idle}]
         /\ [task EXCEPT ![s] = Idle][s] = Idle
         /\ \A o \in Slots : o # s => [task EXCEPT ![s] = Idle][o] = task[o]
BY DEF TypeOK

\* An armed timer is in the bag, and a timer that fires leaves the others in it.
LEMMA BagFacts ==
  ASSUME NEW B, NEW e
  PROVE  /\ BagToSet(BagOps!BagAdd(B, e)) = BagToSet(B) \cup {e}
         /\ BagToSet(BagOps!BagRemove(B, e)) \subseteq BagToSet(B)
         /\ BagToSet(B) \ {e} \subseteq BagToSet(BagOps!BagRemove(B, e))
BY DEF BagToSet, BagOps!BagAdd, BagOps!BagRemove

\* A retry of a running invocation is a queue entry.
LEMMA RetryIsEntry ==
  ASSUME TypeOK, NEW s \in Slots, task[s] # Idle
  PROVE  RetryOf(s) \in Entry /\ RetryOf(s).job = task[s].job /\ task[s] \in Run
         /\ RetryOf(s).attempt = task[s].attempt
<1>1. task[s] \in Run
  BY DEF TypeOK
<1>2. QED
  BY <1>1 DEF RetryOf, Run, Entry

\* Slots that a drain fills belong to open workers, so they keep the promise that
\* tasks run only on workers that came to be.
LEMMA DrainTypes ==
  ASSUME TypeOK, NEW q \in Seq(Entry), NEW run \in [Slots -> Run \cup {Idle}],
         NEW armed \in BOOLEAN, Drain(q, run, armed),
         \A s \in Slots : run[s] \in {task[s], Idle},
         \A w \in Workers : worker'[w] = worker[w] \/ worker'[w] # "new"
  PROVE  /\ jobs' \in Seq(Entry)
         /\ task' \in [Slots -> Run \cup {Idle}]
         /\ wakeup' \in BOOLEAN
         /\ \A s \in Slots : task'[s] # Idle => worker'[s.worker] # "new"
<1>1. /\ jobs' \in Seq(Entry)
      /\ task' \in [Slots -> Run \cup {Idle}]
      /\ wakeup' \in BOOLEAN
      /\ \A s \in Slots : task'[s] = run[s] \/ worker'[s.worker] = "open"
  BY DrainMoves
<1>2. ASSUME NEW s \in Slots, task'[s] # Idle PROVE worker'[s.worker] # "new"
  <2>1. s.worker \in Workers
    BY QueueAssumption
  <2>2. CASE task'[s] = run[s]
    BY <1>2, <2>1, <2>2 DEF TypeOK
  <2>3. QED
    BY <1>1, <2>2
<1>3. QED
  BY <1>1, <1>2

\* The variables keep their types, and close() awaits tasks only while it drains.
THEOREM TypeCorrect == Spec => []TypeOK
<1>1. Init => TypeOK
  <2> SUFFICES ASSUME Init PROVE TypeOK
    OBVIOUS
  <2>1. jobs \in Seq(Entry)
    <3>1. jobs = <<>>
      BY DEF Init
    <3>2. QED
      BY <3>1
  <2>2. BagToSet(retries) \subseteq Entry
    BY DEF Init, BagToSet, EmptyBag, SetToBag
  <2>3. closes \in 0..MaxCloses /\ reopened \in 0..closes
    BY QueueAssumption DEF Init
  <2>4. QED
    BY <2>1, <2>2, <2>3 DEF Init, TypeOK
<1>2. TypeOK /\ [Next]_vars => TypeOK'
  <2> SUFFICES ASSUME TypeOK, [Next]_vars PROVE TypeOK'
    OBVIOUS
  <2>0. /\ jobs \in Seq(Entry) /\ task \in [Slots -> Run \cup {Idle}]
        /\ wakeup \in BOOLEAN
    BY DEF TypeOK
  <2>1. ASSUME NEW j \in Jobs, EnqueueStart(j) PROVE TypeOK'
    BY <2>1 DEF EnqueueStart, lifeVars, TypeOK
  <2>2. ASSUME NEW j \in Jobs, EnqueueFinish(j) PROVE TypeOK'
    <3>1. PICK later \in BOOLEAN :
            Drain(Append(jobs, [job |-> j, attempt |-> 0, later |-> later]), task, wakeup)
      BY <2>2 DEF EnqueueFinish
    <3>2. Append(jobs, [job |-> j, attempt |-> 0, later |-> later]) \in Seq(Entry)
      BY <2>0 DEF Entry
    <3>3. worker' = worker
      BY <2>2 DEF EnqueueFinish
    <3>4. /\ jobs' \in Seq(Entry)
          /\ task' \in [Slots -> Run \cup {Idle}]
          /\ wakeup' \in BOOLEAN
          /\ \A s \in Slots : task'[s] # Idle => worker'[s.worker] # "new"
      BY <2>0, <3>1, <3>2, <3>3, DrainTypes
    <3>5. QED
      BY <2>2, <3>4 DEF EnqueueFinish, lifeVars, TypeOK
  <2>3. ASSUME NEW i \in DOMAIN jobs, BecomeDue(i) PROVE TypeOK'
    <3>1. jobs' \in Seq(Entry)
      <4>1. jobs[i] \in Entry /\ [jobs[i] EXCEPT !.later = FALSE] \in Entry
        <5>1. jobs[i] \in Entry
          BY <2>0
        <5>2. QED
          BY <5>1 DEF Entry
      <4>2. jobs' = [jobs EXCEPT ![i] = [jobs[i] EXCEPT !.later = FALSE]]
        BY <2>3 DEF BecomeDue
      <4>3. QED
        BY <2>0, <4>1, <4>2
    <3>2. QED
      BY <2>3, <3>1 DEF BecomeDue, lifeVars, TypeOK
  <2>4. CASE WakeUp
    <3>1. Drain(jobs, task, FALSE) /\ worker' = worker
      BY <2>4 DEF WakeUp
    <3>2. /\ jobs' \in Seq(Entry)
          /\ task' \in [Slots -> Run \cup {Idle}]
          /\ wakeup' \in BOOLEAN
          /\ \A s \in Slots : task'[s] # Idle => worker'[s.worker] # "new"
      BY <2>0, <3>1, DrainTypes
    <3>3. QED
      BY <2>4, <3>2 DEF WakeUp, lifeVars, TypeOK
  <2>5. ASSUME NEW e \in BagToSet(retries), RetryFires(e) PROVE TypeOK'
    <3>1. e \in Entry /\ BagToSet(retries') \subseteq Entry
      BY <2>5, BagFacts DEF RetryFires, TypeOK
    <3>2. CASE Usable
      <4>1. Drain(Append(jobs, e), task, wakeup) /\ worker' = worker
        BY <2>5, <3>2 DEF RetryFires
      <4>2. Append(jobs, e) \in Seq(Entry)
        BY <2>0, <3>1
      <4>3. /\ jobs' \in Seq(Entry)
            /\ task' \in [Slots -> Run \cup {Idle}]
            /\ wakeup' \in BOOLEAN
            /\ \A s \in Slots : task'[s] # Idle => worker'[s.worker] # "new"
        BY <2>0, <4>1, <4>2, DrainTypes
      <4>4. QED
        BY <2>5, <3>1, <3>2, <4>3 DEF RetryFires, lifeVars, TypeOK
    <3>3. CASE ~Usable
      BY <2>5, <3>1, <3>3 DEF RetryFires, Discard, lifeVars, TypeOK
    <3>4. QED
      BY <3>2, <3>3
  <2>6. ASSUME NEW s \in Slots, Context(s) PROVE TypeOK'
    <3>1. Complete(s)
      BY <2>6 DEF Context, ContextAck, ContextRetry, ContextDeadLetter
    <3>2. task' \in [Slots -> Run \cup {Idle}] /\ \A o \in Slots : task'[o] # Idle => task[o] # Idle
      <4>1. task[s] \in Run /\ task[s] # Idle
        BY <3>1 DEF Complete, TypeOK
      <4>2. [task[s] EXCEPT !.completed = TRUE] \in Run
        BY <4>1 DEF Run
      <4>3. task' = [task EXCEPT ![s] = [task[s] EXCEPT !.completed = TRUE]]
        BY <3>1 DEF Complete
      <4>4. QED
        BY <2>0, <4>1, <4>2, <4>3
    <3>3. BagToSet(retries') \subseteq Entry /\ explicit' \in Nat
      BY <2>6, <3>1, BagFacts, RetryIsEntry
      DEF Context, Complete, ContextAck, ContextRetry, ContextDeadLetter, Schedule, GiveUp, TypeOK
    <3>4. fate' \in [Jobs -> {"none", "acked", "buried", "dropped", "discarded"}]
      BY <2>6 DEF Context, ContextAck, ContextRetry, ContextDeadLetter, GiveUp, Meets, TypeOK
    <3>5. QED
      BY <3>1, <3>2, <3>3, <3>4 DEF Complete, lifeVars, TypeOK
  <2>7. ASSUME NEW s \in Slots, Handler(s) PROVE TypeOK'
    <3>1. task[s] # Idle /\ \E throws \in BOOLEAN : EndTask(s, throws)
      BY <2>7 DEF Handler, HandlerReturns, HandlerThrows, Usable, TypeOK, QueueAssumption
    <3>2. PICK throws \in BOOLEAN : EndTask(s, throws)
      BY <3>1
    <3>3. /\ jobs' \in Seq(Entry)
          /\ task' \in [Slots -> Run \cup {Idle}]
          /\ wakeup' \in BOOLEAN
          /\ \A o \in Slots : task'[o] # Idle => worker'[o.worker] # "new"
      <4> DEFINE run == [task EXCEPT ![s] = Idle]
      <4>1. Drain(jobs, run, wakeup) /\ worker' = worker
        BY <3>2 DEF EndTask
      <4>2. run \in [Slots -> Run \cup {Idle}] /\ \A o \in Slots : run[o] \in {task[o], Idle}
        BY Emptied
      <4> HIDE DEF run
      <4>3. QED
        BY <2>0, <4>1, <4>2, DrainTypes
    <3>4. BagToSet(retries') \subseteq Entry /\ faults' \in Nat /\ explicit' = explicit
      <4>1. explicit' = explicit /\ (faults' = faults \/ faults' = faults + 1)
        BY <2>7 DEF Handler, HandlerReturns, HandlerThrows
      <4>2. retries' = retries \/ Schedule(s)
        BY <2>7 DEF Handler, HandlerReturns, HandlerThrows, GiveUp
      <4>3. BagToSet(retries') \subseteq Entry
        <5>1. CASE Schedule(s)
          BY <3>1, <5>1, BagFacts, RetryIsEntry DEF Schedule, TypeOK
        <5>2. CASE retries' = retries
          BY <5>2 DEF TypeOK
        <5>3. QED
          BY <4>2, <5>1, <5>2
      <4>4. faults' \in Nat
        BY <4>1 DEF TypeOK
      <4>5. QED
        BY <4>1, <4>3, <4>4
    <3>5. fate' \in [Jobs -> {"none", "acked", "buried", "dropped", "discarded"}]
      BY <2>7 DEF Handler, HandlerReturns, HandlerThrows, GiveUp, Meets, TypeOK
    <3>6. /\ awaited' \in [Calls -> SUBSET Slots]
          /\ closer' \in [Calls -> {"none", "draining", "failing", "closed", "failed", "timeout"}]
          /\ \A c \in Calls : awaited'[c] # {} => closer'[c] \in {"draining", "failing"}
      BY <3>2 DEF EndTask, LeaveTask, TypeOK
    <3>7. QED
      BY <3>2, <3>3, <3>4, <3>5, <3>6 DEF EndTask, LeaveTask, TypeOK
  <2>8. ASSUME NEW w \in Workers, OpenWorker(w) PROVE TypeOK'
    <3>1. /\ Drain(jobs, task, wakeup) /\ worker' = [worker EXCEPT ![w] = "open"]
      BY <2>8 DEF OpenWorker
    <3>2. \A v \in Workers : worker'[v] = worker[v] \/ worker'[v] # "new"
      BY <3>1 DEF TypeOK
    <3>3. /\ jobs' \in Seq(Entry)
          /\ task' \in [Slots -> Run \cup {Idle}]
          /\ wakeup' \in BOOLEAN
          /\ \A s \in Slots : task'[s] # Idle => worker'[s.worker] # "new"
      BY <2>0, <3>1, <3>2, DrainTypes
    <3>4. QED
      BY <2>8, <3>3 DEF OpenWorker, lifeVars, TypeOK
  <2>9. ASSUME NEW w \in Workers, CloseWorker(w) PROVE TypeOK'
    BY <2>9, QueueAssumption DEF CloseWorker, lifeVars, TypeOK
  <2>10. CASE Connect
    <3>1. Drain(jobs, task, wakeup) /\ worker' = worker
      BY <2>10 DEF Connect
    <3>2. /\ jobs' \in Seq(Entry)
          /\ task' \in [Slots -> Run \cup {Idle}]
          /\ wakeup' \in BOOLEAN
          /\ \A s \in Slots : task'[s] # Idle => worker'[s.worker] # "new"
      BY <2>0, <3>1, DrainTypes
    <3>3. closes' \in 0..MaxCloses /\ reopened' \in 0..closes'
      BY <2>10, QueueAssumption DEF Connect, TypeOK
    <3>4. QED
      BY <2>10, <3>2, <3>3 DEF Connect, TypeOK
  <2>11. CASE CloseStart
    <3>1. BagToSet(retries') \subseteq Entry
      BY <2>11 DEF CloseStart, Shut, BagToSet, EmptyBag, SetToBag
    <3>2. \A s \in Slots : task'[s] # Idle => worker'[s.worker] # "new"
      BY <2>11, QueueAssumption DEF CloseStart, Shut, TypeOK
    <3>3. fate' \in [Jobs -> {"none", "acked", "buried", "dropped", "discarded"}]
      BY <2>11 DEF CloseStart, Shut, Discard, TypeOK
    <3>4. /\ connected' \in BOOLEAN /\ closing' \in BOOLEAN /\ wakeup' \in BOOLEAN
          /\ worker' \in [Workers -> {"new", "open", "closed", "orphaned"}]
          /\ UNCHANGED <<jobs, task, producer, faults, explicit>>
      BY <2>11 DEF CloseStart, Shut, TypeOK
    <3>5. /\ closes + 1 \in Calls /\ closes' \in 0..MaxCloses /\ reopened' \in 0..closes'
      BY <2>11, QueueAssumption DEF CloseStart, Calls, TypeOK
    <3>6. /\ closer' \in [Calls -> {"none", "draining", "failing", "closed", "failed", "timeout"}]
          /\ awaited' \in [Calls -> SUBSET Slots]
          /\ \A c \in Calls : awaited'[c] # {} => closer'[c] \in {"draining", "failing"}
      <4>1. {s \in Slots : task[s] # Idle} \in SUBSET Slots
        OBVIOUS
      <4>2. QED
        BY <2>11, <3>5, <4>1 DEF CloseStart, TypeOK
    <3>7. QED
      BY <3>1, <3>2, <3>3, <3>4, <3>5, <3>6 DEF TypeOK
  <2>12. ASSUME NEW c \in Calls, CloseEnds(c) PROVE TypeOK'
    <3>1. \A s \in Slots : task'[s] # Idle => worker'[s.worker] # "new"
      BY <2>12, QueueAssumption DEF CloseEnds, TypeOK
    <3>2. jobs' \in Seq(Entry)
      <4>1. jobs' = jobs \/ jobs' = <<>>
        BY <2>12 DEF CloseEnds
      <4>2. CASE jobs' = <<>>
        BY <4>2
      <4>3. QED
        BY <2>0, <4>1, <4>2
    <3>3. fate' \in [Jobs -> {"none", "acked", "buried", "dropped", "discarded"}]
      BY <2>12 DEF CloseEnds, Discard, TypeOK
    <3>4. worker' \in [Workers -> {"new", "open", "closed", "orphaned"}]
      BY <2>12 DEF CloseEnds, TypeOK
    <3>5. /\ connected' \in BOOLEAN /\ closing' \in BOOLEAN
          /\ closer' \in [Calls -> {"none", "draining", "failing", "closed", "failed", "timeout"}]
          /\ \A d \in Calls : awaited'[d] # {} => closer'[d] \in {"draining", "failing"}
      BY <2>12 DEF CloseEnds, TypeOK
    <3>6. UNCHANGED <<awaited, reopened, retries, wakeup, task, producer, faults, explicit, closes>>
      BY <2>12 DEF CloseEnds
    <3>7. QED
      BY <3>1, <3>2, <3>3, <3>4, <3>5, <3>6 DEF TypeOK
  <2>13. ASSUME NEW c \in Calls, CloseTimesOut(c) PROVE TypeOK'
    BY <2>13 DEF CloseTimesOut, GiveUpWaiting, TypeOK
  <2>14. CASE UNCHANGED vars
    BY <2>14 DEF vars, lifeVars, TypeOK
  <2>15. QED
    BY <2>1, <2>2, <2>3, <2>4, <2>5, <2>6, <2>7, <2>8, <2>9, <2>10, <2>11, <2>12,
       <2>13, <2>14 DEF Next
<1>3. QED
  BY <1>1, <1>2, PTL DEF Spec

--------------------------------------------------------------------------------
(* Closing. *)

\* A drain of a queue that is not connected starts nothing.
LEMMA DrainOfUnusable ==
  ASSUME NEW q \in Seq(Entry), NEW run \in [Slots -> Run \cup {Idle}],
         NEW armed \in BOOLEAN, Drain(q, run, armed), ~Usable', NEW s \in Slots
  PROVE  task'[s] = run[s]
BY DrainMoves

\* Until the queue is connected again, a close() that drains waits for every task
\* that runs, and one that has returned leaves none.
Covered ==
  /\ connected => reopened = closes
  /\ \A c \in Calls : c > closes => closer[c] = "none"
  /\ \A c \in Calls :
       c > reopened /\ Draining(c) => \A s \in Slots : task[s] # Idle => s \in awaited[c]
  /\ ClosedIsQuiet

\* A step that leaves close() alone and starts no task.
LEMMA QuietSteps ==
  ASSUME Covered, UNCHANGED <<connected, closer, awaited, reopened, closes>>,
         \A s \in Slots : task'[s] # Idle => task[s] # Idle
  PROVE  Covered'
BY DEF Covered, ClosedIsQuiet, Draining

\* On a connected queue every close() was called before the connect().
LEMMA CoveredWhileOpen ==
  ASSUME reopened' = closes', \A c \in Calls : c > closes' => closer'[c] = "none"
  PROVE  Covered'
BY DEF Covered, ClosedIsQuiet, Draining

\* close() covers the running tasks of a closed queue in every reachable state.
LEMMA CoverInvariant == Spec => []Covered
<1>1. Init => Covered
  BY DEF Init, Covered, ClosedIsQuiet, Draining
<1>2. TypeOK /\ Covered /\ [Next]_vars /\ connected' => Covered'
  <2> SUFFICES ASSUME TypeOK, Covered, [Next]_vars, connected' PROVE Covered'
    OBVIOUS
  <2>1. closes' = closes /\ reopened' = closes
    <3>1. CASE UNCHANGED <<connected, reopened, closes>>
      BY <3>1 DEF Covered
    <3>2. CASE Connect
      BY <3>2 DEF Connect
    <3>3. ~CloseStart
      BY DEF CloseStart, Shut
    <3>4. UNCHANGED <<connected, reopened, closes>> \/ Connect
      BY <3>3 DEF Next, EnqueueStart, EnqueueFinish, BecomeDue, WakeUp, RetryFires, Context,
         ContextAck, ContextRetry, ContextDeadLetter, Complete, Handler, HandlerReturns,
         HandlerThrows, EndTask, LeaveTask, OpenWorker, CloseWorker, CloseEnds, CloseTimesOut,
         GiveUpWaiting, lifeVars, vars
    <3>5. QED
      BY <3>1, <3>2, <3>4
  <2>2. \A c \in Calls : closer'[c] # closer[c] => Draining(c)
    <3>1. CASE UNCHANGED closer
      BY <3>1
    <3>2. ASSUME NEW s \in Slots, NEW throws, LeaveTask(s, throws)
          PROVE  \A c \in Calls : closer'[c] # closer[c] => Draining(c)
      BY <3>2 DEF LeaveTask, Draining, TypeOK
    <3>3. ASSUME NEW d \in Calls, CloseEnds(d) \/ CloseTimesOut(d)
          PROVE  \A c \in Calls : closer'[c] # closer[c] => Draining(c)
      BY <3>3 DEF CloseEnds, CloseTimesOut, GiveUpWaiting, Draining, TypeOK
    <3>4. ~CloseStart
      BY DEF CloseStart, Shut
    <3>5. \/ UNCHANGED closer
          \/ \E s \in Slots : \E throws \in BOOLEAN : LeaveTask(s, throws)
          \/ \E d \in Calls : CloseEnds(d) \/ CloseTimesOut(d)
      BY <3>4, QueueAssumption
      DEF Next, EnqueueStart, EnqueueFinish, BecomeDue, WakeUp, RetryFires, Context,
         ContextAck, ContextRetry, ContextDeadLetter, Complete, Handler, HandlerReturns,
         HandlerThrows, EndTask, OpenWorker, CloseWorker, Connect, lifeVars, vars,
         Usable, TypeOK
    <3>6. QED
      BY <3>1, <3>2, <3>3, <3>5
  <2>3. \A c \in Calls : c > closes => closer'[c] = "none"
    BY <2>2 DEF Covered, Draining
  <2>4. QED
    BY <2>1, <2>3, CoveredWhileOpen
<1>3. TypeOK /\ Covered /\ [Next]_vars /\ ~connected' => Covered'
  <2> SUFFICES ASSUME TypeOK, Covered, [Next]_vars, ~connected' PROVE Covered'
    OBVIOUS
  <2>0. /\ jobs \in Seq(Entry) /\ task \in [Slots -> Run \cup {Idle}]
        /\ wakeup \in BOOLEAN
    BY DEF TypeOK
  <2>1. ~Usable'
    BY DEF Usable
  <2>2. ASSUME NEW j \in Jobs, EnqueueStart(j) PROVE Covered'
    BY <2>2, QuietSteps DEF EnqueueStart, lifeVars
  <2>3. ASSUME NEW j \in Jobs, EnqueueFinish(j) PROVE Covered'
    <3>1. PICK later \in BOOLEAN :
            Drain(Append(jobs, [job |-> j, attempt |-> 0, later |-> later]), task, wakeup)
      BY <2>3 DEF EnqueueFinish
    <3>2. Append(jobs, [job |-> j, attempt |-> 0, later |-> later]) \in Seq(Entry)
      BY <2>0 DEF Entry
    <3>3. \A s \in Slots : task'[s] = task[s]
      BY <2>0, <2>1, <3>1, <3>2, DrainOfUnusable
    <3>4. QED
      BY <2>3, <3>3, QuietSteps DEF EnqueueFinish, lifeVars
  <2>4. ASSUME NEW i \in DOMAIN jobs, BecomeDue(i) PROVE Covered'
    BY <2>4, QuietSteps DEF BecomeDue, lifeVars
  <2>5. CASE WakeUp
    <3>1. \A s \in Slots : task'[s] = task[s]
      BY <2>0, <2>1, <2>5, DrainOfUnusable DEF WakeUp
    <3>2. QED
      BY <2>5, <3>1, QuietSteps DEF WakeUp, lifeVars
  <2>6. ASSUME NEW e \in BagToSet(retries), RetryFires(e) PROVE Covered'
    <3>1. UNCHANGED <<connected, closing, closer, awaited, reopened, closes>>
      BY <2>6 DEF RetryFires, lifeVars
    <3>2. task' = task
      BY <2>1, <2>6, <3>1 DEF RetryFires, Usable
    <3>3. QED
      BY <3>1, <3>2, QuietSteps
  <2>7. ASSUME NEW s \in Slots, Context(s) PROVE Covered'
    <3>1. Complete(s)
      BY <2>7 DEF Context, ContextAck, ContextRetry, ContextDeadLetter
    <3>2. \A o \in Slots : task'[o] # Idle => task[o] # Idle
      BY <2>0, <3>1 DEF Complete
    <3>3. QED
      BY <3>1, <3>2, QuietSteps DEF Complete, lifeVars
  <2>8. ASSUME NEW s \in Slots, Handler(s) PROVE Covered'
    <3> DEFINE run == [task EXCEPT ![s] = Idle]
    <3>1. \E throws \in BOOLEAN : EndTask(s, throws)
      BY <2>8, QueueAssumption DEF Handler, HandlerReturns, HandlerThrows, Usable, TypeOK
    <3>2. /\ Drain(jobs, run, wakeup) /\ UNCHANGED <<connected, reopened, closes>>
          /\ \A c \in Calls : /\ awaited'[c] = awaited[c] \ {s}
                             /\ \/ closer'[c] = closer[c]
                                \/ s \in awaited[c] /\ closer'[c] = "failing"
      BY <3>1 DEF EndTask, LeaveTask
    <3>3. /\ run \in [Slots -> Run \cup {Idle}] /\ run[s] = Idle
          /\ \A o \in Slots : o # s => run[o] = task[o]
      BY Emptied
    <3> HIDE DEF run
    <3>4. \A o \in Slots : task'[o] = run[o]
      BY <2>0, <2>1, <3>2, <3>3, DrainOfUnusable
    <3>5. \A o \in Slots : task'[o] # Idle => o # s /\ task[o] # Idle
      BY <3>3, <3>4
    <3>6. \A c \in Calls : s \in awaited[c] => Draining(c)
      BY DEF TypeOK, Draining
    <3>7. QED
      BY <3>2, <3>5, <3>6 DEF Covered, ClosedIsQuiet, Draining
  <2>9. ASSUME NEW w \in Workers, OpenWorker(w) PROVE Covered'
    BY <2>1, <2>9 DEF OpenWorker, Usable, lifeVars
  <2>10. ASSUME NEW w \in Workers, CloseWorker(w) PROVE Covered'
    BY <2>10, QuietSteps DEF CloseWorker, lifeVars
  <2>11. CASE Connect
    BY <2>11 DEF Connect
  <2>12. CASE CloseStart
    <3>1. closes \in Nat /\ closes + 1 \in Calls /\ reopened \in Nat
      BY <2>12, QueueAssumption DEF CloseStart, TypeOK, Calls
    <3>2. /\ \A c \in Calls : c > closes' => c > closes /\ c # closes + 1
          /\ \A c \in Calls : c # closes + 1 =>
               closer'[c] = closer[c] /\ awaited'[c] = awaited[c]
          /\ closer'[closes + 1] = "draining"
          /\ awaited'[closes + 1] = {s \in Slots : task[s] # Idle}
          /\ UNCHANGED <<task, reopened>>
      BY <2>12, <3>1 DEF CloseStart, TypeOK, Calls
    <3>3. \A c \in Calls : c > reopened /\ Draining(c)' =>
            \A s \in Slots : task'[s] # Idle => s \in awaited'[c]
      <4>1. ASSUME NEW c \in Calls, c > reopened, Draining(c)', c # closes + 1
            PROVE  \A s \in Slots : task'[s] # Idle => s \in awaited'[c]
        BY <3>2, <4>1 DEF Covered, Draining
      <4>2. QED
        BY <3>2, <4>1
    <3>4. ClosedIsQuiet'
      BY <3>2 DEF ClosedIsQuiet, Covered
    <3>5. QED
      BY <3>2, <3>3, <3>4 DEF Covered
  <2>13. ASSUME NEW c \in Calls, CloseEnds(c) PROVE Covered'
    <3>1. /\ Draining(c) /\ awaited[c] = {} /\ ~Draining(c)'
          /\ \A d \in Calls : d # c => closer'[d] = closer[d]
          /\ UNCHANGED <<connected, awaited, reopened, task, closes>>
      BY <2>13 DEF CloseEnds, Draining, TypeOK
    <3>2. \A d \in Calls : d > closes' => closer'[d] = "none"
      BY <3>1 DEF Covered, Draining
    <3>3. c > reopened => \A s \in Slots : task[s] = Idle
      BY <3>1 DEF Covered
    <3>4. QED
      BY <3>1, <3>2, <3>3 DEF Covered, ClosedIsQuiet, Draining
  <2>14. ASSUME NEW c \in Calls, CloseTimesOut(c) PROVE Covered'
    <3>1. /\ Draining(c) /\ closer'[c] = "timeout"
          /\ \A d \in Calls : d # c => closer'[d] = closer[d] /\ awaited'[d] = awaited[d]
          /\ UNCHANGED <<connected, reopened, task, closes>>
      BY <2>14 DEF CloseTimesOut, GiveUpWaiting, TypeOK
    <3>2. \A d \in Calls : d > closes' => closer'[d] = "none"
      BY <3>1 DEF Covered, Draining
    <3>3. QED
      BY <3>1, <3>2 DEF Covered, ClosedIsQuiet, Draining
  <2>15. CASE UNCHANGED vars
    BY <2>15, QuietSteps DEF vars, lifeVars
  <2>16. QED
    BY <2>2, <2>3, <2>4, <2>5, <2>6, <2>7, <2>8, <2>9, <2>10, <2>11, <2>12, <2>13,
       <2>14, <2>15 DEF Next
<1>4. QED
  BY <1>1, <1>2, <1>3, TypeCorrect, PTL DEF Spec

\* When close() has returned no handler runs until the next connect, for any number
\* of workers, slots, timers and producers that were past their check of the
\* connection.
THEOREM CloseIsQuiet == Spec => []ClosedIsQuiet
<1>1. Covered => ClosedIsQuiet
  BY DEF Covered, ClosedIsQuiet
<1>2. QED
  BY <1>1, CoverInvariant, PTL

--------------------------------------------------------------------------------
(* No job is lost, and none outlives its policy. *)

\* _drainTopic loses no job: what waits is started or waits on.
LEMMA DrainKeeps ==
  ASSUME NEW q \in Seq(Entry), NEW run \in [Slots -> Run \cup {Idle}],
         NEW armed \in BOOLEAN, Drain(q, run, armed), NEW j \in Jobs,
         \/ \E i \in DOMAIN q : q[i].job = j
         \/ \E e \in BagToSet(retries') : e.job = j
         \/ \E s \in Slots : run[s] # Idle /\ run[s].job = j /\ ~run[s].completed
  PROVE  Underway(j)'
<1>1. CASE \E i \in DOMAIN q : q[i].job = j
  <2>1. PICK i \in DOMAIN q : q[i].job = j
    BY <1>1
  <2>2. \/ \E k \in DOMAIN jobs' : jobs'[k] = q[i]
        \/ \E s \in Slots : task'[s] = Started(q[i])
    BY DrainMoves
  <2>3. CASE \E k \in DOMAIN jobs' : jobs'[k] = q[i]
    BY <2>1, <2>3 DEF Underway
  <2>4. CASE \E s \in Slots : task'[s] = Started(q[i])
    <3>1. q[i] \in Entry
      OBVIOUS
    <3>2. /\ Started(q[i]) \in Run /\ Started(q[i]).job = j
          /\ ~Started(q[i]).completed
      BY <2>1, <3>1 DEF Started, Run, Entry
    <3>3. QED
      BY <2>4, <3>2, QueueAssumption DEF Underway
  <2>5. QED
    BY <2>2, <2>3, <2>4
<1>2. CASE \E e \in BagToSet(retries') : e.job = j
  BY <1>2 DEF Underway
<1>3. CASE \E s \in Slots : run[s] # Idle /\ run[s].job = j /\ ~run[s].completed
  <2>1. \A s \in Slots : run[s] # Idle => task'[s] = run[s]
    BY DrainMoves
  <2>2. QED
    BY <1>3, <2>1 DEF Underway
<1>4. QED
  BY <1>1, <1>2, <1>3

\* A fate, once met, stays, and Meets gives the job one.
LEMMA FatesStay ==
  ASSUME TypeOK, [Next]_vars, NEW j \in Jobs, fate'[j] = "none"
  PROVE  fate[j] = "none"
<1> USE DEF TypeOK
<1>1. ASSUME NEW s \in Slots, Context(s) \/ Handler(s) PROVE fate[j] = "none"
  BY <1>1 DEF Context, ContextAck, ContextRetry, ContextDeadLetter, Handler,
       HandlerReturns, HandlerThrows, GiveUp, Meets
<1>2. ASSUME NEW e \in BagToSet(retries), RetryFires(e) PROVE fate[j] = "none"
  BY <1>2 DEF RetryFires, Discard
<1>3. CASE CloseStart \/ \E c \in Calls : CloseEnds(c)
  BY <1>3 DEF CloseStart, Shut, CloseEnds, Discard
<1>4. CASE UNCHANGED fate
  BY <1>4
<1>5. QED
  BY <1>1, <1>2, <1>3, <1>4
  DEF Next, EnqueueStart, EnqueueFinish, BecomeDue, WakeUp, OpenWorker, CloseWorker,
      Connect, CloseTimesOut, GiveUpWaiting, vars

\* No accepted job vanishes, however many workers, timers and handlers race with
\* close() and connect(): it waits, runs, or met a fate.
THEOREM NothingIsLost == Spec => []NothingVanishes
<1>1. Init => NothingVanishes
  BY DEF Init, NothingVanishes
<1>2. TypeOK /\ NothingVanishes /\ [Next]_vars => NothingVanishes'
  <2> SUFFICES ASSUME TypeOK, NothingVanishes, [Next]_vars,
                      NEW j \in Jobs, producer'[j] = "done", fate'[j] = "none"
               PROVE  Underway(j)'
    BY DEF NothingVanishes
  <2>0. /\ jobs \in Seq(Entry) /\ task \in [Slots -> Run \cup {Idle}]
        /\ wakeup \in BOOLEAN
    BY DEF TypeOK
  <2>a. fate[j] = "none"
    BY FatesStay
  <2>b. ASSUME producer[j] = "done" PROVE Underway(j)
    BY <2>a, <2>b DEF NothingVanishes
  <2>1. ASSUME NEW i \in Jobs, EnqueueStart(i) PROVE Underway(j)'
    <3>1. producer[j] = "done"
      BY <2>1 DEF EnqueueStart, TypeOK
    <3>2. QED
      BY <2>1, <2>b, <3>1 DEF EnqueueStart, Underway
  <2>2. ASSUME NEW i \in Jobs, EnqueueFinish(i) PROVE Underway(j)'
    <3>1. PICK later \in BOOLEAN :
            Drain(Append(jobs, [job |-> i, attempt |-> 0, later |-> later]), task, wakeup)
      BY <2>2 DEF EnqueueFinish
    <3> DEFINE e == [job |-> i, attempt |-> 0, later |-> later]
               q == Append(jobs, e)
    <3>2. e \in Entry /\ e.job = i
      BY DEF Entry
    <3> HIDE DEF e
    <3>3. /\ q \in Seq(Entry) /\ DOMAIN q = 1..(Len(jobs) + 1)
          /\ DOMAIN jobs = 1..Len(jobs) /\ Len(jobs) \in Nat
          /\ q[Len(jobs) + 1] = e /\ \A k \in 1..Len(jobs) : q[k] = jobs[k]
      BY <2>0, <3>2
    <3>4. Drain(q, task, wakeup) /\ UNCHANGED retries
      BY <2>2, <3>1 DEF EnqueueFinish, e
    <3> HIDE DEF q
    <3>5. CASE i = j
      <4>1. \E k \in DOMAIN q : q[k].job = j
        BY <3>2, <3>3, <3>5
      <4>2. QED
        BY <2>0, <3>3, <3>4, <4>1, DrainKeeps
    <3>6. CASE i # j
      <4>1. producer[j] = "done"
        BY <2>2, <3>6 DEF EnqueueFinish, TypeOK
      <4>2. \/ \E k \in DOMAIN q : q[k].job = j
            \/ \E x \in BagToSet(retries') : x.job = j
            \/ \E s \in Slots : task[s] # Idle /\ task[s].job = j /\ ~task[s].completed
        BY <2>b, <3>3, <3>4, <4>1 DEF Underway
      <4>3. QED
        BY <2>0, <3>3, <3>4, <4>2, DrainKeeps
    <3>7. QED
      BY <3>5, <3>6
  <2>3. ASSUME NEW i \in DOMAIN jobs, BecomeDue(i) PROVE Underway(j)'
    <3>1. UNCHANGED <<retries, task, producer>>
      BY <2>3 DEF BecomeDue
    <3>2. DOMAIN jobs' = DOMAIN jobs /\ \A k \in DOMAIN jobs : jobs'[k].job = jobs[k].job
      <4>1. \A k \in DOMAIN jobs : jobs[k] \in Entry
        BY <2>0
      <4>2. jobs' = [jobs EXCEPT ![i] = [jobs[i] EXCEPT !.later = FALSE]]
        BY <2>3 DEF BecomeDue
      <4>3. [jobs[i] EXCEPT !.later = FALSE].job = jobs[i].job
        BY <4>1 DEF Entry
      <4>4. QED
        BY <4>2, <4>3
    <3>3. QED
      BY <2>b, <3>1, <3>2 DEF Underway
  <2>4. CASE WakeUp
    <3>1. /\ \E armed \in BOOLEAN : Drain(jobs, task, armed)
          /\ UNCHANGED <<retries, producer>>
      BY <2>4 DEF WakeUp
    <3>2. QED
      BY <2>0, <2>b, <3>1, DrainKeeps DEF Underway
  <2>5. ASSUME NEW e \in BagToSet(retries), RetryFires(e) PROVE Underway(j)'
    <3>1. /\ e \in Entry /\ BagToSet(retries) \ {e} \subseteq BagToSet(retries')
          /\ producer' = producer
      BY <2>5, BagFacts DEF RetryFires, TypeOK
    <3>2. CASE Usable
      <4> DEFINE q == Append(jobs, e)
      <4>1. Drain(q, task, wakeup)
        BY <2>5, <3>2 DEF RetryFires
      <4>2. /\ q \in Seq(Entry) /\ DOMAIN q = 1..(Len(jobs) + 1)
            /\ DOMAIN jobs = 1..Len(jobs) /\ Len(jobs) \in Nat
            /\ q[Len(jobs) + 1] = e /\ \A k \in 1..Len(jobs) : q[k] = jobs[k]
        BY <2>0, <3>1
      <4> HIDE DEF q
      <4>3. \/ \E k \in DOMAIN q : q[k].job = j
            \/ \E x \in BagToSet(retries') : x.job = j
            \/ \E s \in Slots : task[s] # Idle /\ task[s].job = j /\ ~task[s].completed
        BY <2>b, <3>1, <4>2 DEF Underway
      <4>4. QED
        BY <2>0, <4>1, <4>2, <4>3, DrainKeeps
    <3>3. CASE ~Usable
      <4>1. Discard({e.job}) /\ UNCHANGED <<jobs, task>>
        BY <2>5, <3>3 DEF RetryFires
      <4>2. e.job # j
        BY <2>a, <4>1 DEF Discard
      <4>3. QED
        BY <2>b, <3>1, <4>1, <4>2 DEF Underway
    <3>4. QED
      BY <3>2, <3>3
  <2>6. ASSUME NEW s \in Slots, Context(s) PROVE Underway(j)'
    <3>1. /\ task[s] # Idle /\ task' = [task EXCEPT ![s].completed = TRUE]
          /\ UNCHANGED <<jobs, producer>>
      BY <2>6 DEF Context, ContextAck, ContextRetry, ContextDeadLetter, Complete
    <3>2. \A o \in Slots : o # s => task'[o] = task[o]
      BY <2>0, <3>1
    <3>3. BagToSet(retries) \subseteq BagToSet(retries')
      BY <2>6, BagFacts
      DEF Context, ContextAck, ContextRetry, ContextDeadLetter, GiveUp, Schedule
    <3>4. CASE task[s].job = j
      <4>1. ~(\E f \in {"acked", "buried", "dropped", "discarded"} : Meets(j, f))
        BY DEF Meets, TypeOK
      <4>2. Schedule(s)
        BY <2>6, <3>4, <4>1
        DEF Context, ContextAck, ContextRetry, ContextDeadLetter, GiveUp
      <4>3. QED
        BY <3>1, <3>4, <4>2, BagFacts, RetryIsEntry DEF Schedule, Underway
    <3>5. CASE task[s].job # j
      BY <2>b, <3>1, <3>2, <3>3, <3>5 DEF Underway
    <3>6. QED
      BY <3>4, <3>5
  <2>7. ASSUME NEW s \in Slots, Handler(s) PROVE Underway(j)'
    <3> DEFINE run == [task EXCEPT ![s] = Idle]
    <3>1. /\ task[s] # Idle /\ producer' = producer
          /\ Drain(jobs, run, wakeup)
      BY <2>7 DEF Handler, HandlerReturns, HandlerThrows, EndTask
    <3>2. /\ run \in [Slots -> Run \cup {Idle}]
          /\ \A o \in Slots : o # s => run[o] = task[o]
      BY Emptied
    <3> HIDE DEF run
    <3>3. BagToSet(retries) \subseteq BagToSet(retries')
      <4>1. retries' = retries \/ Schedule(s)
        BY <2>7 DEF Handler, HandlerReturns, HandlerThrows, GiveUp
      <4>2. CASE Schedule(s)
        BY <4>2, BagFacts DEF Schedule
      <4>3. CASE retries' = retries
        BY <4>3
      <4>4. QED
        BY <4>1, <4>2, <4>3
    <3>4. CASE task[s].job = j /\ ~task[s].completed
      <4>1. ~(\E f \in {"acked", "buried", "dropped", "discarded"} : Meets(j, f))
        BY DEF Meets, TypeOK
      <4>2. Schedule(s)
        BY <2>7, <3>4, <4>1 DEF Handler, HandlerReturns, HandlerThrows, GiveUp
      <4>3. \E e \in BagToSet(retries') : e.job = j
        BY <3>1, <3>4, <4>2, BagFacts, RetryIsEntry DEF Schedule
      <4>4. QED
        BY <2>0, <3>1, <3>2, <4>3, DrainKeeps
    <3>5. CASE ~(task[s].job = j /\ ~task[s].completed)
      <4>1. \/ \E i \in DOMAIN jobs : jobs[i].job = j
            \/ \E e \in BagToSet(retries') : e.job = j
            \/ \E o \in Slots : run[o] # Idle /\ run[o].job = j /\ ~run[o].completed
        BY <2>b, <3>1, <3>2, <3>3, <3>5 DEF Underway
      <4>2. QED
        BY <2>0, <3>1, <3>2, <4>1, DrainKeeps
    <3>6. QED
      BY <3>4, <3>5
  <2>8. CASE Connect \/ \E w \in Workers : OpenWorker(w)
    <3>1. Drain(jobs, task, wakeup) /\ UNCHANGED <<retries, producer>>
      BY <2>8 DEF Connect, OpenWorker
    <3>2. QED
      BY <2>0, <2>b, <3>1, DrainKeeps DEF Underway
  <2>9. CASE CloseStart
    <3>1. j \notin {e.job : e \in BagToSet(retries)}
      BY <2>9, <2>a DEF CloseStart, Shut, Discard
    <3>2. QED
      BY <2>9, <2>b, <3>1 DEF CloseStart, Shut, Underway
  <2>10. ASSUME NEW c \in Calls, CloseEnds(c) PROVE Underway(j)'
    <3>1. CASE UNCHANGED jobs
      BY <2>10, <2>b, <3>1 DEF CloseEnds, Underway
    <3>2. CASE Discard({jobs[i].job : i \in DOMAIN jobs})
      <4>1. j \notin {jobs[i].job : i \in DOMAIN jobs}
        BY <2>a, <3>2 DEF Discard
      <4>2. QED
        BY <2>10, <2>b, <4>1 DEF CloseEnds, Underway
    <3>3. QED
      BY <2>10, <3>1, <3>2 DEF CloseEnds
  <2>11. CASE UNCHANGED <<jobs, retries, task, producer>>
    BY <2>11, <2>b DEF Underway
  <2>12. QED
    BY <2>1, <2>2, <2>3, <2>4, <2>5, <2>6, <2>7, <2>8, <2>9, <2>10, <2>11
    DEF Next, CloseWorker, CloseTimesOut, GiveUpWaiting, vars
<1>3. QED
  BY <1>1, <1>2, TypeCorrect, PTL DEF Spec

\* The job may run once more when n explicit retries extend the policy.
Spare(e, n) == e.attempt < MaxAttempts + n

\* What waits, in the queue or for a timer, may run once more; what runs has used
\* no more than its attempts.
AttemptsLeft ==
  /\ \A i \in DOMAIN jobs : Spare(jobs[i], explicit)
  /\ \A e \in BagToSet(retries) : Spare(e, explicit)
  /\ AttemptsWithinPolicy

\* _drainTopic uses up the attempt that a job had to spare.
LEMMA DrainSpends ==
  ASSUME NEW q \in Seq(Entry), NEW run \in [Slots -> Run \cup {Idle}],
         NEW armed \in BOOLEAN, Drain(q, run, armed),
         explicit \in Nat, UNCHANGED explicit,
         \A i \in DOMAIN q : Spare(q[i], explicit),
         \A e \in BagToSet(retries') : Spare(e, explicit),
         \A s \in Slots : run[s] # Idle => run[s].attempt <= MaxAttempts + explicit
  PROVE  AttemptsLeft'
<1>1. \A k \in DOMAIN jobs' : Spare(jobs'[k], explicit')
  <2>1. \A k \in DOMAIN jobs' : \E i \in DOMAIN q : jobs'[k] = q[i]
    BY DrainMoves
  <2>2. QED
    BY <2>1
<1>2. \A e \in BagToSet(retries') : Spare(e, explicit')
  BY DEF Spare
<1>3. ASSUME NEW s \in Slots, task'[s] # Idle
      PROVE  task'[s].attempt <= MaxAttempts + explicit'
  <2>1. task'[s] = run[s] \/ \E i \in DOMAIN q : task'[s] = Started(q[i])
    BY DrainMoves
  <2>2. CASE task'[s] = run[s]
    BY <1>3, <2>2
  <2>3. CASE \E i \in DOMAIN q : task'[s] = Started(q[i])
    <3>1. PICK i \in DOMAIN q : task'[s] = Started(q[i])
      BY <2>3
    <3>2. q[i].attempt \in Nat /\ Spare(q[i], explicit) /\ MaxAttempts \in Nat
      <4>1. q[i] \in Entry
        OBVIOUS
      <4>2. QED
        BY <4>1, QueueAssumption DEF Entry
    <3>3. task'[s].attempt = q[i].attempt + 1
      BY <3>1 DEF Started
    <3>4. QED
      BY <3>2, <3>3 DEF Spare
  <2>4. QED
    BY <2>1, <2>2, <2>3
<1>4. QED
  BY <1>1, <1>2, <1>3 DEF AttemptsLeft, AttemptsWithinPolicy

\* No job is run more often than its policy allows, but for explicit
\* context.retry() calls: retries through timers, closes and drains count every run.
THEOREM RetriesWithinPolicy == Spec => []AttemptsWithinPolicy
<1>1. Init => AttemptsLeft
  BY DEF Init, AttemptsLeft, AttemptsWithinPolicy, BagToSet, EmptyBag, SetToBag
<1>2. TypeOK /\ AttemptsLeft /\ [Next]_vars => AttemptsLeft'
  <2> SUFFICES ASSUME TypeOK, AttemptsLeft, [Next]_vars PROVE AttemptsLeft'
    OBVIOUS
  <2>0. /\ jobs \in Seq(Entry) /\ task \in [Slots -> Run \cup {Idle}]
        /\ wakeup \in BOOLEAN /\ explicit \in Nat /\ MaxAttempts \in Nat \ {0}
    BY QueueAssumption DEF TypeOK
  <2>a. /\ \A i \in DOMAIN jobs : Spare(jobs[i], explicit)
        /\ \A e \in BagToSet(retries) : Spare(e, explicit)
        /\ \A s \in Slots : task[s] # Idle => task[s].attempt <= MaxAttempts + explicit
    BY DEF AttemptsLeft, AttemptsWithinPolicy
  <2>1. ASSUME NEW j \in Jobs, EnqueueFinish(j) PROVE AttemptsLeft'
    <3>1. PICK later \in BOOLEAN :
            Drain(Append(jobs, [job |-> j, attempt |-> 0, later |-> later]), task, wakeup)
      BY <2>1 DEF EnqueueFinish
    <3> DEFINE e == [job |-> j, attempt |-> 0, later |-> later]
               q == Append(jobs, e)
    <3>2. e \in Entry /\ Spare(e, explicit)
      BY <2>0 DEF Entry, Spare
    <3> HIDE DEF e
    <3>3. q \in Seq(Entry) /\ \A i \in DOMAIN q : Spare(q[i], explicit)
      BY <2>0, <2>a, <3>2
    <3>4. Drain(q, task, wakeup) /\ UNCHANGED <<retries, explicit>>
      BY <2>1, <3>1 DEF EnqueueFinish, e
    <3> HIDE DEF q
    <3>5. QED
      BY <2>0, <2>a, <3>3, <3>4, DrainSpends
  <2>2. ASSUME NEW i \in DOMAIN jobs, BecomeDue(i) PROVE AttemptsLeft'
    <3>1. DOMAIN jobs' = DOMAIN jobs /\ \A k \in DOMAIN jobs : jobs'[k].attempt = jobs[k].attempt
      <4>1. \A k \in DOMAIN jobs : jobs[k] \in Entry
        BY <2>0
      <4>2. jobs' = [jobs EXCEPT ![i] = [jobs[i] EXCEPT !.later = FALSE]]
        BY <2>2 DEF BecomeDue
      <4>3. [jobs[i] EXCEPT !.later = FALSE].attempt = jobs[i].attempt
        BY <4>1 DEF Entry
      <4>4. QED
        BY <4>2, <4>3
    <3>2. UNCHANGED <<retries, task, explicit>>
      BY <2>2 DEF BecomeDue
    <3>3. QED
      BY <2>a, <3>1, <3>2 DEF AttemptsLeft, AttemptsWithinPolicy, Spare
  <2>3. CASE WakeUp \/ Connect \/ \E w \in Workers : OpenWorker(w)
    <3>1. /\ \E armed \in BOOLEAN : Drain(jobs, task, armed)
          /\ UNCHANGED <<retries, explicit>>
      BY <2>0, <2>3 DEF WakeUp, Connect, OpenWorker
    <3>2. QED
      BY <2>0, <2>a, <3>1, DrainSpends
  <2>4. ASSUME NEW e \in BagToSet(retries), RetryFires(e) PROVE AttemptsLeft'
    <3>1. /\ e \in Entry /\ Spare(e, explicit) /\ explicit' = explicit
          /\ \A x \in BagToSet(retries') : Spare(x, explicit)
      BY <2>4, <2>a, BagFacts DEF RetryFires, TypeOK
    <3>2. CASE Usable
      <4> DEFINE q == Append(jobs, e)
      <4>1. Drain(q, task, wakeup)
        BY <2>4, <3>2 DEF RetryFires
      <4>2. q \in Seq(Entry) /\ \A i \in DOMAIN q : Spare(q[i], explicit)
        BY <2>0, <2>a, <3>1
      <4> HIDE DEF q
      <4>3. QED
        BY <2>0, <2>a, <3>1, <4>1, <4>2, DrainSpends
    <3>3. CASE ~Usable
      <4>1. UNCHANGED <<jobs, task>>
        BY <2>4, <3>3 DEF RetryFires
      <4>2. QED
        BY <2>a, <3>1, <4>1 DEF AttemptsLeft, AttemptsWithinPolicy, Spare
    <3>4. QED
      BY <3>2, <3>3
  <2>5. ASSUME NEW s \in Slots, Context(s) PROVE AttemptsLeft'
    <3>1. /\ task[s] # Idle /\ task' = [task EXCEPT ![s] = [task[s] EXCEPT !.completed = TRUE]]
          /\ jobs' = jobs
      BY <2>5 DEF Context, ContextAck, ContextRetry, ContextDeadLetter, Complete
    <3>2. \A o \in Slots : task'[o] # Idle => task[o] # Idle /\ task'[o].attempt = task[o].attempt
      BY <2>0, <3>1 DEF Run
    <3>3. \/ UNCHANGED <<retries, explicit>>
          \/ Schedule(s) /\ explicit' = explicit + 1
      BY <2>5 DEF Context, ContextAck, ContextRetry, ContextDeadLetter, GiveUp
    <3>4. CASE UNCHANGED <<retries, explicit>>
      BY <2>a, <3>1, <3>2, <3>4 DEF AttemptsLeft, AttemptsWithinPolicy, Spare
    <3>5. CASE Schedule(s) /\ explicit' = explicit + 1
      <4>1. \A x \in Entry : Spare(x, explicit) => Spare(x, explicit')
        BY <2>0, <3>5 DEF Spare, Entry
      <4>2. RetryOf(s) \in Entry /\ RetryOf(s).attempt \in Nat /\ Spare(RetryOf(s), explicit')
        <5>1. /\ RetryOf(s) \in Entry /\ RetryOf(s).attempt = task[s].attempt
              /\ task[s].attempt \in Nat
          BY <3>1, RetryIsEntry DEF Run
        <5>2. task[s].attempt <= MaxAttempts + explicit
          BY <2>a, <3>1
        <5>3. task[s].attempt < MaxAttempts + explicit'
          BY <2>0, <3>5, <5>1, <5>2
        <5>4. QED
          BY <5>1, <5>3 DEF Spare
      <4>3. \A i \in DOMAIN jobs' : Spare(jobs'[i], explicit')
        <5>1. \A i \in DOMAIN jobs : jobs[i] \in Entry
          BY <2>0
        <5>2. QED
          BY <2>a, <3>1, <4>1, <5>1
      <4>4. \A e \in BagToSet(retries') : Spare(e, explicit')
        <5>1. BagToSet(retries') = BagToSet(retries) \cup {RetryOf(s)}
          BY <3>5, BagFacts DEF Schedule
        <5>2. BagToSet(retries) \subseteq Entry
          BY DEF TypeOK
        <5>3. QED
          BY <2>a, <4>1, <4>2, <5>1, <5>2
      <4>5. ASSUME NEW o \in Slots, task'[o] # Idle
            PROVE  task'[o].attempt <= MaxAttempts + explicit'
        <5>1. task[o] \in Run /\ task[o].attempt <= MaxAttempts + explicit
          BY <2>0, <2>a, <3>2, <4>5
        <5>2. task[o].attempt \in Nat
          BY <5>1 DEF Run
        <5>3. QED
          BY <2>0, <3>2, <3>5, <4>5, <5>1, <5>2
      <4>6. QED
        BY <4>3, <4>4, <4>5 DEF AttemptsLeft, AttemptsWithinPolicy
    <3>6. QED
      BY <3>3, <3>4, <3>5
  <2>6. ASSUME NEW s \in Slots, Handler(s) PROVE AttemptsLeft'
    <3> DEFINE run == [task EXCEPT ![s] = Idle]
    <3>1. /\ task[s] # Idle /\ explicit' = explicit
          /\ Drain(jobs, run, wakeup)
      BY <2>6 DEF Handler, HandlerReturns, HandlerThrows, EndTask
    <3>2. /\ run \in [Slots -> Run \cup {Idle}]
          /\ \A o \in Slots : run[o] = task[o] \/ run[o] = Idle
      BY Emptied
    <3> HIDE DEF run
    <3>3. \A e \in BagToSet(retries') : Spare(e, explicit)
      <4>1. retries' = retries \/ (Schedule(s) /\ task[s].attempt < MaxAttempts)
        BY <2>6 DEF Handler, HandlerReturns, HandlerThrows, GiveUp, RetryLeft
      <4>2. CASE retries' = retries
        BY <2>a, <4>2
      <4>3. CASE Schedule(s) /\ task[s].attempt < MaxAttempts
        <5>1. RetryOf(s).attempt = task[s].attempt /\ task[s].attempt \in Nat
          BY <3>1, RetryIsEntry DEF Run
        <5>2. Spare(RetryOf(s), explicit)
          BY <2>0, <4>3, <5>1 DEF Spare
        <5>3. QED
          BY <2>a, <4>3, <5>2, BagFacts DEF Schedule
      <4>4. QED
        BY <4>1, <4>2, <4>3
    <3>4. QED
      BY <2>0, <2>a, <3>1, <3>2, <3>3, DrainSpends
  <2>7. CASE CloseStart
    <3>1. BagToSet(retries') = {} /\ UNCHANGED <<jobs, task, explicit>>
      BY <2>7 DEF CloseStart, Shut, BagToSet, EmptyBag, SetToBag
    <3>2. QED
      BY <2>a, <3>1 DEF AttemptsLeft, AttemptsWithinPolicy, Spare
  <2>8. ASSUME NEW c \in Calls, CloseEnds(c) PROVE AttemptsLeft'
    <3>1. (jobs' = jobs \/ jobs' = <<>>) /\ UNCHANGED <<retries, task, explicit>>
      BY <2>8 DEF CloseEnds
    <3>2. QED
      BY <2>a, <3>1 DEF AttemptsLeft, AttemptsWithinPolicy, Spare
  <2>9. CASE UNCHANGED <<jobs, retries, task, explicit>>
    BY <2>9 DEF AttemptsLeft, AttemptsWithinPolicy, Spare
  <2>10. QED
    BY <2>1, <2>2, <2>3, <2>4, <2>5, <2>6, <2>7, <2>8, <2>9
    DEF Next, EnqueueStart, CloseWorker, CloseTimesOut, GiveUpWaiting, vars
<1>3. AttemptsLeft => AttemptsWithinPolicy
  BY DEF AttemptsLeft
<1>4. QED
  BY <1>1, <1>2, <1>3, TypeCorrect, PTL DEF Spec

--------------------------------------------------------------------------------
(* One copy or one fate. *)

\* What a queue holds of a job can be counted.
LEMMA QueuedFinite ==
  ASSUME NEW q \in Seq(Entry), NEW j
  PROVE  IsFiniteSet(Queued(q, j)) /\ Cardinality(Queued(q, j)) \in Nat
<1>1. Queued(q, j) \subseteq 1..Len(q) /\ Len(q) \in Nat
  BY DEF Queued
<1>2. IsFiniteSet(1..Len(q))
  BY <1>1, FS_Interval
<1>3. IsFiniteSet(Queued(q, j))
  BY <1>1, <1>2, FS_Subset
<1>4. QED
  BY <1>3, FS_CardinalityType

\* The slots that run a job undecided can be counted.
LEMMA RunningFinite ==
  ASSUME NEW run, NEW j
  PROVE  IsFiniteSet(Running(run, j)) /\ Cardinality(Running(run, j)) \in Nat
<1>1. Running(run, j) \subseteq Slots
  BY DEF Running
<1>2. IsFiniteSet(Running(run, j))
  BY <1>1, QueueAssumption, FS_Subset
<1>3. QED
  BY <1>2, FS_CardinalityType

\* enqueue and a retry timer add one copy of one job to the queue.
LEMMA QueuedAppend ==
  ASSUME NEW q \in Seq(Entry), NEW e \in Entry, NEW j
  PROVE  /\ Append(q, e) \in Seq(Entry)
         /\ Cardinality(Queued(Append(q, e), j)) =
              Cardinality(Queued(q, j)) + (IF e.job = j THEN 1 ELSE 0)
<1> DEFINE m == Len(q) + 1
<1>1. /\ Append(q, e) \in Seq(Entry) /\ Len(q) \in Nat
      /\ DOMAIN Append(q, e) = DOMAIN q \cup {m} /\ m \notin DOMAIN q
      /\ Append(q, e)[m] = e /\ \A i \in DOMAIN q : Append(q, e)[i] = q[i]
  OBVIOUS
<1>2. IsFiniteSet(Queued(q, j)) /\ Cardinality(Queued(q, j)) \in Nat
  BY QueuedFinite
<1>3. CASE e.job = j
  <2>1. Queued(Append(q, e), j) = Queued(q, j) \cup {m} /\ m \notin Queued(q, j)
    BY <1>1, <1>3 DEF Queued
  <2>2. Cardinality(Queued(q, j) \cup {m}) = Cardinality(Queued(q, j)) + 1
    BY <1>2, <2>1, FS_AddElement
  <2>3. QED
    BY <1>1, <1>3, <2>1, <2>2
<1>4. CASE e.job # j
  <2>1. Queued(Append(q, e), j) = Queued(q, j)
    BY <1>1, <1>4 DEF Queued
  <2>2. QED
    BY <1>1, <1>2, <1>4, <2>1
<1>5. QED
  BY <1>3, <1>4

\* _drainTopic makes no copy: what it starts it takes off the queue.
LEMMA DrainCounts ==
  ASSUME NEW q \in Seq(Entry), NEW run \in [Slots -> Run \cup {Idle}],
         NEW armed \in BOOLEAN, Drain(q, run, armed), NEW j
  PROVE  Cardinality(Queued(jobs', j)) + Cardinality(Running(task', j))
           <= Cardinality(Queued(q, j)) + Cardinality(Running(run, j))
<1>1. PICK n, slot : Starts(q, run, n, slot)
  BY DrainStarts
<1>2. /\ n \in Nat /\ n <= Len(q) /\ Len(q) \in Nat /\ DOMAIN q = 1..Len(q)
      /\ jobs' \in Seq(Entry) /\ DOMAIN jobs' = 1..(Len(q) - n)
      /\ \A k \in 1..(Len(q) - n) : jobs'[k] = q[n + k]
  BY <1>1 DEF Starts
<1> DEFINE head == {i \in Queued(q, j) : i <= n}
           tail == {i \in Queued(q, j) : i > n}
           new == Running(task', j) \ Running(run, j)
<1>3. /\ IsFiniteSet(head) /\ IsFiniteSet(tail)
      /\ Cardinality(head) \in Nat /\ Cardinality(tail) \in Nat
      /\ Cardinality(Queued(q, j)) = Cardinality(head) + Cardinality(tail)
  <2>1. head \subseteq Queued(q, j) /\ tail \subseteq Queued(q, j)
    OBVIOUS
  <2>2. IsFiniteSet(head) /\ IsFiniteSet(tail)
    BY <2>1, QueuedFinite, FS_Subset
  <2>3. Queued(q, j) = head \cup tail /\ head \cap tail = {}
    BY <1>2 DEF Queued
  <2>4. Cardinality(head) \in Nat /\ Cardinality(tail) \in Nat
    BY <2>2, FS_CardinalityType
  <2> HIDE DEF head, tail
  <2>5. Cardinality(head \cup tail) = Cardinality(head) + Cardinality(tail) - Cardinality({})
    BY <2>2, <2>3, FS_Union
  <2>6. Cardinality({}) = 0
    BY FS_EmptySet
  <2>7. QED
    BY <2>2, <2>3, <2>4, <2>5, <2>6
<1>4. Cardinality(Queued(jobs', j)) <= Cardinality(tail)
  <2> DEFINE f == [k \in Queued(jobs', j) |-> n + k]
  <2>1. \A k \in Queued(jobs', j) : k \in Nat /\ n + k \in tail
    BY <1>2 DEF Queued
  <2>2. f \in [Queued(jobs', j) -> tail]
    BY <2>1
  <2>3. \A a, b \in Queued(jobs', j) : f[a] = f[b] => a = b
    BY <1>2, <2>1
  <2>4. f \in Injection(Queued(jobs', j), tail)
    <3> HIDE DEF f, tail
    <3>1. QED
      BY <2>2, <2>3, Fun_IsInj
  <2>5. QED
    <3> HIDE DEF f, tail
    <3>1. QED
      BY <1>3, <2>4, FS_Injection
<1>5. Cardinality(new) <= Cardinality(head)
  <2>1. ASSUME NEW s \in new
        PROVE  \E i \in head : slot[i] = s
    <3>1. s \in Slots /\ task'[s] # Idle /\ task'[s].job = j /\ task'[s] # run[s]
      BY <2>1 DEF Running
    <3>2. PICK i \in 1..n : slot[i] = s
      BY <1>1, <3>1 DEF Starts
    <3>3. task'[s] = Started(q[i]) /\ i \in DOMAIN q
      BY <1>1, <1>2, <3>2 DEF Starts
    <3>4. q[i].job = j
      BY <3>1, <3>3 DEF Started
    <3>5. QED
      BY <3>2, <3>3, <3>4 DEF Queued
  <2> DEFINE f == [s \in new |-> CHOOSE i \in head : slot[i] = s]
  <2>2. \A s \in new : f[s] \in head /\ slot[f[s]] = s
    BY <2>1
  <2>3. f \in [new -> head]
    BY <2>2
  <2>4. f \in Injection(new, head)
    <3> HIDE DEF f, new, head
    <3>1. \A a, b \in new : f[a] = f[b] => a = b
      BY <2>2
    <3>2. QED
      BY <2>3, <3>1, Fun_IsInj
  <2>5. QED
    <3> HIDE DEF f, new, head
    <3>1. QED
      BY <1>3, <2>4, FS_Injection
<1>6. Cardinality(Running(task', j)) <= Cardinality(Running(run, j)) + Cardinality(new)
  <2>1. IsFiniteSet(new) /\ Cardinality(new) \in Nat
    <3>1. new \subseteq Running(task', j)
      OBVIOUS
    <3>2. IsFiniteSet(new)
      BY <3>1, RunningFinite, FS_Subset
    <3>3. QED
      BY <3>2, FS_CardinalityType
  <2>2. Running(task', j) \subseteq Running(run, j) \cup new
    OBVIOUS
  <2>3. Running(run, j) \cap new = {} /\ Cardinality({}) = 0
    BY FS_EmptySet
  <2> HIDE DEF new
  <2>4. /\ IsFiniteSet(Running(run, j) \cup new)
        /\ Cardinality(Running(run, j) \cup new)
             = Cardinality(Running(run, j)) + Cardinality(new)
    <3>1. Cardinality(Running(run, j) \cup new)
             = Cardinality(Running(run, j)) + Cardinality(new) - Cardinality({})
      BY <2>1, <2>3, RunningFinite, FS_Union
    <3>2. QED
      BY <2>1, <2>3, <3>1, RunningFinite, FS_Union
  <2>5. Cardinality(Running(task', j)) <= Cardinality(Running(run, j) \cup new)
    BY <2>2, <2>4, FS_Subset
  <2>6. QED
    BY <2>4, <2>5
<1>7. /\ Cardinality(Queued(jobs', j)) \in Nat /\ Cardinality(Running(task', j)) \in Nat
      /\ Cardinality(Queued(q, j)) \in Nat /\ Cardinality(Running(run, j)) \in Nat
  BY <1>2, QueuedFinite, RunningFinite
<1>8. Cardinality(new) \in Nat
  <2>1. new \subseteq Running(task', j)
    OBVIOUS
  <2>2. IsFiniteSet(new)
    BY <2>1, RunningFinite, FS_Subset
  <2>3. QED
    BY <2>2, FS_CardinalityType
<1> HIDE DEF head, tail, new
<1>9. QED
  BY <1>3, <1>4, <1>5, <1>6, <1>7, <1>8

\* The armed timers are finitely many, each with a multiplicity of its own.
Armed ==
  /\ \A e \in BagToSet(retries) : retries[e] \in Nat \ {0}
  /\ \A j \in Jobs : IsFiniteSet(Timers(j))

\* _schedule arms one timer for one job.
LEMMA TimerArmed ==
  ASSUME Armed, NEW e, retries' = BagOps!BagAdd(retries, e)
  PROVE  /\ Armed'
         /\ \A j \in Jobs :
              Cardinality(Timers(j)') = Cardinality(Timers(j)) + (IF e.job = j THEN 1 ELSE 0)
<1> DEFINE m == IF e \in BagToSet(retries) THEN retries[e] ELSE 0
<1>1. m \in Nat
  BY DEF Armed
<1>2. /\ BagToSet(retries') = BagToSet(retries) \cup {e} /\ retries'[e] = m + 1
      /\ \A x \in BagToSet(retries) : x # e => retries'[x] = retries[x]
  BY DEF BagToSet, BagOps!BagAdd
<1>3. ASSUME NEW x \in BagToSet(retries') PROVE retries'[x] \in Nat \ {0}
  BY <1>1, <1>2 DEF Armed
<1> HIDE DEF m
<1>4. \A x \in BagToSet(retries) : x = e => retries[x] = m
  BY DEF m
<1>5. e \notin BagToSet(retries) => m = 0
  BY DEF m
<1>6. ASSUME NEW j \in Jobs
      PROVE  /\ IsFiniteSet(Timers(j)')
             /\ Cardinality(Timers(j)') = Cardinality(Timers(j)) + (IF e.job = j THEN 1 ELSE 0)
  <2>1. IsFiniteSet(Timers(j)) /\ Cardinality(Timers(j)) \in Nat
    <3>1. IsFiniteSet(Timers(j))
      BY DEF Armed
    <3>2. QED
      BY <3>1, FS_CardinalityType
  <2>2. CASE e.job = j
    <3>1. <<e, m + 1>> \notin Timers(j)
      BY <1>1, <1>4, <1>5 DEF Timers
    <3>2. Timers(j)' = Timers(j) \cup {<<e, m + 1>>}
      <4>1. ASSUME NEW t \in Timers(j)' PROVE t \in Timers(j) \cup {<<e, m + 1>>}
        <5>1. PICK x \in BagToSet(retries') : x.job = j /\ t \in {x} \X (1..retries'[x])
          BY <4>1 DEF Timers
        <5>2. PICK i \in 1..retries'[x] : t = <<x, i>>
          BY <5>1
        <5>3. CASE x # e
          BY <1>2, <5>1, <5>2, <5>3 DEF Timers
        <5>4. CASE x = e
          <6>1. i \in 1..m \/ i = m + 1
            BY <1>1, <1>2, <5>2, <5>4
          <6>2. i \in 1..m => e \in BagToSet(retries) /\ retries[e] = m
            BY <1>4, <1>5
          <6>3. QED
            BY <2>2, <5>2, <5>4, <6>1, <6>2 DEF Timers
        <5>5. QED
          BY <5>3, <5>4
      <4>2. ASSUME NEW t \in Timers(j) PROVE t \in Timers(j)'
        <5>1. PICK x \in BagToSet(retries) : x.job = j /\ t \in {x} \X (1..retries[x])
          BY <4>2 DEF Timers
        <5>2. PICK i \in 1..retries[x] : t = <<x, i>>
          BY <5>1
        <5>3. i \in 1..retries'[x]
          BY <1>1, <1>2, <1>4, <5>2
        <5>4. QED
          BY <1>2, <5>1, <5>2, <5>3 DEF Timers
      <4>3. <<e, m + 1>> \in Timers(j)'
        BY <1>1, <1>2, <2>2 DEF Timers
      <4>4. QED
        BY <4>1, <4>2, <4>3
    <3>3. /\ IsFiniteSet(Timers(j) \cup {<<e, m + 1>>})
          /\ Cardinality(Timers(j) \cup {<<e, m + 1>>}) = Cardinality(Timers(j)) + 1
      BY <2>1, <3>1, FS_AddElement
    <3>4. QED
      BY <2>2, <3>2, <3>3
  <2>3. CASE e.job # j
    <3>1. {x \in BagToSet(retries') : x.job = j} = {x \in BagToSet(retries) : x.job = j}
      BY <1>2, <2>3
    <3>2. \A x \in BagToSet(retries) : x.job = j => retries'[x] = retries[x]
      BY <1>2, <2>3
    <3>3. Timers(j)' = Timers(j)
      BY <3>1, <3>2 DEF Timers
    <3>4. QED
      BY <2>1, <2>3, <3>3
  <2>4. QED
    BY <2>2, <2>3
<1>7. QED
  BY <1>3, <1>6 DEF Armed

\* A timer that fires is gone.
LEMMA TimerFired ==
  ASSUME Armed, NEW e \in BagToSet(retries), retries' = BagOps!BagRemove(retries, e)
  PROVE  /\ Armed'
         /\ \A j \in Jobs :
              Cardinality(Timers(j)') = Cardinality(Timers(j)) - (IF e.job = j THEN 1 ELSE 0)
<1> DEFINE m == retries[e]
<1>1. m \in Nat \ {0}
  BY DEF Armed
<1>2. /\ BagToSet(retries') = IF m = 1 THEN BagToSet(retries) \ {e} ELSE BagToSet(retries)
      /\ m # 1 => retries'[e] = m - 1
      /\ \A x \in BagToSet(retries) : x # e => retries'[x] = retries[x]
  BY DEF BagToSet, BagOps!BagRemove
<1> HIDE DEF m
<1>0. retries[e] = m
  BY DEF m
<1>3. ASSUME NEW x \in BagToSet(retries') PROVE retries'[x] \in Nat \ {0}
  <2>1. x \in BagToSet(retries) /\ (x = e => m # 1)
    BY <1>2
  <2>2. CASE x = e
    BY <1>1, <1>2, <2>1, <2>2
  <2>3. CASE x # e
    BY <1>2, <2>1, <2>3 DEF Armed
  <2>4. QED
    BY <2>2, <2>3
<1>4. ASSUME NEW j \in Jobs
      PROVE  /\ IsFiniteSet(Timers(j)')
             /\ Cardinality(Timers(j)') = Cardinality(Timers(j)) - (IF e.job = j THEN 1 ELSE 0)
  <2>1. IsFiniteSet(Timers(j)) /\ Cardinality(Timers(j)) \in Nat
    <3>1. IsFiniteSet(Timers(j))
      BY DEF Armed
    <3>2. QED
      BY <3>1, FS_CardinalityType
  <2>2. CASE e.job = j
    <3>1. <<e, m>> \in Timers(j)
      BY <1>0, <1>1, <2>2 DEF Timers
    <3>2. Timers(j)' = Timers(j) \ {<<e, m>>}
      <4>1. ASSUME NEW t \in Timers(j)' PROVE t \in Timers(j) \ {<<e, m>>}
        <5>1. PICK x \in BagToSet(retries') : x.job = j /\ t \in {x} \X (1..retries'[x])
          BY <4>1 DEF Timers
        <5>2. PICK i \in 1..retries'[x] : t = <<x, i>>
          BY <5>1
        <5>3. x \in BagToSet(retries) /\ (x = e => m # 1)
          BY <1>2, <5>1
        <5>4. i \in 1..retries[x] /\ (x = e => i # m)
          <6>1. CASE x = e
            BY <1>0, <1>1, <1>2, <5>2, <5>3, <6>1
          <6>2. CASE x # e
            BY <1>2, <5>2, <5>3, <6>2
          <6>3. QED
            BY <6>1, <6>2
        <5>5. QED
          BY <5>1, <5>2, <5>3, <5>4 DEF Timers
      <4>2. ASSUME NEW t \in Timers(j), t # <<e, m>> PROVE t \in Timers(j)'
        <5>1. PICK x \in BagToSet(retries) : x.job = j /\ t \in {x} \X (1..retries[x])
          BY <4>2 DEF Timers
        <5>2. PICK i \in 1..retries[x] : t = <<x, i>>
          BY <5>1
        <5>3. x \in BagToSet(retries') /\ i \in 1..retries'[x]
          <6>1. CASE x = e
            <7>1. i \in 1..m /\ i # m
              BY <1>0, <4>2, <5>2, <6>1
            <7>2. m # 1 /\ i \in 1..(m - 1)
              BY <1>1, <7>1
            <7>3. QED
              BY <1>2, <6>1, <7>2
          <6>2. CASE x # e
            BY <1>2, <5>2, <6>2
          <6>3. QED
            BY <6>1, <6>2
        <5>4. QED
          BY <5>1, <5>2, <5>3 DEF Timers
      <4>3. QED
        BY <4>1, <4>2
    <3>3. /\ IsFiniteSet(Timers(j) \ {<<e, m>>})
          /\ Cardinality(Timers(j) \ {<<e, m>>}) = Cardinality(Timers(j)) - 1
      BY <2>1, <3>1, FS_RemoveElement
    <3>4. QED
      BY <2>2, <3>2, <3>3
  <2>3. CASE e.job # j
    <3>1. {x \in BagToSet(retries') : x.job = j} = {x \in BagToSet(retries) : x.job = j}
      BY <1>2, <2>3
    <3>2. \A x \in BagToSet(retries) : x.job = j => retries'[x] = retries[x]
      BY <1>2, <2>3
    <3>3. Timers(j)' = Timers(j)
      BY <3>1, <3>2 DEF Timers
    <3>4. QED
      BY <2>1, <2>3, <3>3
  <2>4. QED
    BY <2>2, <2>3
<1>5. QED
  BY <1>3, <1>4 DEF Armed

\* An invocation that ends, or that settles its job, is no copy any more.
LEMMA CopyLeaves ==
  ASSUME TypeOK, NEW s \in Slots, task[s] # Idle, NEW run, NEW j \in Jobs,
         \A o \in Slots : o # s => run[o] = task[o], run[s] = Idle \/ run[s].completed
  PROVE  Cardinality(Running(run, j)) =
           Cardinality(Running(task, j))
             - (IF task[s].job = j /\ ~task[s].completed THEN 1 ELSE 0)
<1>1. IsFiniteSet(Running(task, j)) /\ Cardinality(Running(task, j)) \in Nat
  BY RunningFinite
<1>2. CASE task[s].job = j /\ ~task[s].completed
  <2>1. s \in Running(task, j) /\ Running(run, j) = Running(task, j) \ {s}
    BY <1>2 DEF Running
  <2>2. Cardinality(Running(task, j) \ {s}) = Cardinality(Running(task, j)) - 1
    BY <1>1, <2>1, FS_RemoveElement
  <2>3. QED
    BY <1>2, <2>1, <2>2
<1>3. CASE ~(task[s].job = j /\ ~task[s].completed)
  <2>1. Running(run, j) = Running(task, j)
    BY <1>3 DEF Running
  <2>2. QED
    BY <1>1, <1>3, <2>1
<1>4. QED
  BY <1>2, <1>3

Settled(j) == IF fate[j] = "none" THEN 0 ELSE 1

Accepted(j) == IF producer[j] = "done" THEN 1 ELSE 0

\* OneCopyOrFate is not inductive: a job that enqueue has not accepted yet is still
\* to get its copy.
CopiesPaid ==
  /\ Armed
  /\ \A j \in Jobs : Copies(j) + Settled(j) <= Accepted(j) + faults

\* The numbers in the account of a job are natural numbers.
LEMMA CountsAreNat ==
  ASSUME TypeOK, Armed, NEW j \in Jobs
  PROVE  /\ Cardinality(Queued(jobs, j)) \in Nat
         /\ Cardinality(Timers(j)) \in Nat
         /\ Cardinality(Running(task, j)) \in Nat
         /\ Settled(j) \in {0, 1} /\ Accepted(j) \in {0, 1} /\ faults \in Nat
<1>1. Cardinality(Queued(jobs, j)) \in Nat /\ Cardinality(Running(task, j)) \in Nat
  BY QueuedFinite, RunningFinite DEF TypeOK
<1>2. Cardinality(Timers(j)) \in Nat
  BY FS_CardinalityType DEF Armed
<1>3. QED
  BY <1>1, <1>2 DEF Settled, Accepted, TypeOK

\* Meets gives one job a fate.
LEMMA OneMeets ==
  ASSUME TypeOK, NEW i \in Jobs, NEW f, Meets(i, f), NEW j \in Jobs
  PROVE  Settled(j)' <= Settled(j) + (IF i = j THEN 1 ELSE 0)
BY DEF Meets, Settled, TypeOK

\* A job that close() or a late timer discards has a copy to give up.
LEMMA DiscardSettles ==
  ASSUME TypeOK, NEW gone, Discard(gone), NEW j \in Jobs
  PROVE  Settled(j)' <= Settled(j) + (IF j \in gone THEN 1 ELSE 0)
BY DEF Discard, Settled, TypeOK

\* Every step keeps the account of every job: what adds a copy or a fate gives up
\* a copy, accepts the job or is a fault.
LEMMA PaidInvariant == Spec => []CopiesPaid
<1>1. Init => CopiesPaid
  <2> SUFFICES ASSUME Init PROVE CopiesPaid
    OBVIOUS
  <2>1. BagToSet(retries) = {}
    BY DEF Init, BagToSet, EmptyBag, SetToBag
  <2>2. IsFiniteSet({}) /\ Cardinality({}) = 0
    BY FS_EmptySet
  <2>3. ASSUME NEW j \in Jobs
        PROVE  Queued(jobs, j) = {} /\ Timers(j) = {} /\ Running(task, j) = {}
    BY <2>1 DEF Init, Queued, Timers, Running
  <2>4. \A j \in Jobs : Settled(j) = 0 /\ Accepted(j) = 0 /\ faults = 0
    BY DEF Init, Settled, Accepted
  <2>5. \A j \in Jobs : Copies(j) = 0
    BY <2>2, <2>3 DEF Copies
  <2>6. Armed
    BY <2>1, <2>2, <2>3 DEF Armed
  <2>7. QED
    BY <2>4, <2>5, <2>6 DEF CopiesPaid
<1>2. TypeOK /\ TypeOK' /\ CopiesPaid /\ [Next]_vars => CopiesPaid'
  <2> SUFFICES ASSUME TypeOK, TypeOK', CopiesPaid, [Next]_vars PROVE CopiesPaid'
    OBVIOUS
  <2> DEFINE Paid(j) == Copies(j)' + Settled(j)' <= Accepted(j)' + faults'
  <2>0. /\ jobs \in Seq(Entry) /\ task \in [Slots -> Run \cup {Idle}]
        /\ wakeup \in BOOLEAN /\ BagToSet(retries) \subseteq Entry /\ Armed
    BY DEF TypeOK, CopiesPaid
  <2> DEFINE Before(j) ==
               /\ Cardinality(Queued(jobs, j)) \in Nat
               /\ Cardinality(Timers(j)) \in Nat
               /\ Cardinality(Running(task, j)) \in Nat
               /\ Settled(j) \in {0, 1} /\ Accepted(j) \in {0, 1} /\ faults \in Nat
               /\ Cardinality(Queued(jobs, j)) + Cardinality(Timers(j))
                    + Cardinality(Running(task, j)) + Settled(j) <= Accepted(j) + faults
             After(j) ==
               /\ Cardinality(Queued(jobs', j)) \in Nat
               /\ Cardinality(Timers(j)') \in Nat
               /\ Cardinality(Running(task', j)) \in Nat
               /\ Settled(j)' \in {0, 1} /\ Accepted(j)' \in {0, 1} /\ faults' \in Nat
  <2>n. ASSUME NEW j \in Jobs PROVE Before(j)
    BY CountsAreNat DEF CopiesPaid, Copies
  <2>p. ASSUME NEW j \in Jobs, Armed' PROVE After(j)
    <3>1. Cardinality(Queued(jobs', j)) \in Nat /\ Cardinality(Running(task', j)) \in Nat
      BY QueuedFinite, RunningFinite DEF TypeOK
    <3>2. Cardinality(Timers(j)') \in Nat
      BY <2>p, FS_CardinalityType DEF Armed
    <3>3. QED
      BY <3>1, <3>2 DEF Settled, Accepted, TypeOK
  <2>c. ASSUME NEW j \in Jobs
        PROVE  Copies(j)' = Cardinality(Queued(jobs', j)) + Cardinality(Timers(j)')
                              + Cardinality(Running(task', j))
    BY DEF Copies, Queued, Running
  <2>r. retries' = retries => Armed' /\ \A j \in Jobs : Timers(j)' = Timers(j)
    BY <2>0 DEF Armed, Timers
  <2>1. ASSUME NEW i \in Jobs, EnqueueFinish(i) PROVE CopiesPaid'
    <3>1. PICK later \in BOOLEAN :
            Drain(Append(jobs, [job |-> i, attempt |-> 0, later |-> later]), task, wakeup)
      BY <2>1 DEF EnqueueFinish
    <3> DEFINE e == [job |-> i, attempt |-> 0, later |-> later]
               q == Append(jobs, e)
    <3>2. e \in Entry /\ e.job = i
      BY DEF Entry
    <3> HIDE DEF e
    <3>3. /\ q \in Seq(Entry) /\ Drain(q, task, wakeup)
          /\ \A j \in Jobs : Cardinality(Queued(q, j)) =
               Cardinality(Queued(jobs, j)) + (IF e.job = j THEN 1 ELSE 0)
      BY <2>0, <3>1, <3>2, QueuedAppend DEF e
    <3> HIDE DEF q
    <3>4. UNCHANGED <<retries, fate, faults>> /\ Armed'
      BY <2>1, <2>r DEF EnqueueFinish
    <3>5. ASSUME NEW j \in Jobs PROVE Paid(j)
      <4>1. Accepted(j)' = Accepted(j) + (IF i = j THEN 1 ELSE 0)
        BY <2>1 DEF EnqueueFinish, Accepted, TypeOK
      <4>2. Cardinality(Queued(jobs', j)) + Cardinality(Running(task', j))
              <= Cardinality(Queued(q, j)) + Cardinality(Running(task, j))
        BY <2>0, <3>3, DrainCounts
      <4>3. /\ Timers(j)' = Timers(j) /\ Settled(j)' = Settled(j)
            /\ Cardinality(Queued(q, j)) = Cardinality(Queued(jobs, j)) + (IF i = j THEN 1 ELSE 0)
        BY <2>r, <3>2, <3>3, <3>4 DEF Settled
      <4>n. Before(j) /\ After(j)
        BY <2>n, <2>p, <3>4
      <4>4. QED
        BY <2>c, <3>4, <4>1, <4>2, <4>3, <4>n
    <3>6. QED
      BY <3>4, <3>5 DEF CopiesPaid
  <2>2. CASE WakeUp \/ Connect \/ \E w \in Workers : OpenWorker(w)
    <3>1. /\ \E armed \in BOOLEAN : Drain(jobs, task, armed)
          /\ UNCHANGED <<retries, producer, fate, faults>>
      BY <2>0, <2>2 DEF WakeUp, Connect, OpenWorker
    <3>2. ASSUME NEW j \in Jobs PROVE Paid(j)
      <4>1. Cardinality(Queued(jobs', j)) + Cardinality(Running(task', j))
              <= Cardinality(Queued(jobs, j)) + Cardinality(Running(task, j))
        BY <2>0, <3>1, DrainCounts
      <4>2. /\ Timers(j)' = Timers(j) /\ Settled(j)' = Settled(j)
            /\ Accepted(j)' = Accepted(j) /\ faults' = faults /\ Armed'
        BY <2>r, <3>1 DEF Settled, Accepted
      <4>n. Before(j) /\ After(j)
        BY <2>n, <2>p, <4>2
      <4>3. QED
        BY <2>c, <4>1, <4>2, <4>n
    <3>3. QED
      BY <2>r, <3>1, <3>2 DEF CopiesPaid
  <2>3. ASSUME NEW e \in BagToSet(retries), RetryFires(e) PROVE CopiesPaid'
    <3>1. /\ retries' = BagOps!BagRemove(retries, e) /\ e \in Entry
          /\ UNCHANGED <<producer, faults>>
      BY <2>0, <2>3 DEF RetryFires
    <3>2. /\ Armed'
          /\ \A j \in Jobs :
               Cardinality(Timers(j)') = Cardinality(Timers(j)) - (IF e.job = j THEN 1 ELSE 0)
      BY <2>0, <3>1, TimerFired
    <3>3. ASSUME NEW j \in Jobs PROVE Paid(j)
      <4>1. Accepted(j)' = Accepted(j) /\ faults' = faults
        BY <3>1 DEF Accepted
      <4>2. CASE Usable
        <5> DEFINE q == Append(jobs, e)
        <5>1. Drain(q, task, wakeup) /\ fate' = fate
          BY <2>3, <4>2 DEF RetryFires
        <5>2. /\ q \in Seq(Entry)
              /\ Cardinality(Queued(q, j)) =
                   Cardinality(Queued(jobs, j)) + (IF e.job = j THEN 1 ELSE 0)
          BY <2>0, <3>1, QueuedAppend
        <5> HIDE DEF q
        <5>3. Cardinality(Queued(jobs', j)) + Cardinality(Running(task', j))
                <= Cardinality(Queued(q, j)) + Cardinality(Running(task, j))
          BY <2>0, <5>1, <5>2, DrainCounts
        <5>4. Settled(j)' = Settled(j)
          BY <5>1 DEF Settled
        <5>5. Cardinality(Timers(j)') = Cardinality(Timers(j)) - (IF e.job = j THEN 1 ELSE 0)
          BY <3>2
        <5>n. Before(j) /\ After(j)
          BY <2>n, <2>p, <3>2
        <5>9. Copies(j)' = Cardinality(Queued(jobs', j)) + Cardinality(Timers(j)')
                             + Cardinality(Running(task', j))
          BY <2>c
        <5>6. Cardinality(Queued(q, j)) + Cardinality(Timers(j)')
                = Cardinality(Queued(jobs, j)) + Cardinality(Timers(j))
          <6>1. CASE e.job = j
            BY <5>2, <5>5, <5>n, <6>1
          <6>2. CASE e.job # j
            BY <5>2, <5>5, <5>n, <6>2
          <6>3. QED
            BY <6>1, <6>2
        <5>7. Cardinality(Queued(q, j)) \in Nat
          BY <5>2, QueuedFinite
        <5>8. QED
          BY <4>1, <5>3, <5>4, <5>6, <5>7, <5>n, <5>9
      <4>3. CASE ~Usable
        <5>1. Discard({e.job}) /\ UNCHANGED <<jobs, task>>
          BY <2>3, <4>3 DEF RetryFires
        <5>2. Settled(j)' <= Settled(j) + (IF e.job = j THEN 1 ELSE 0)
          BY <5>1, DiscardSettles
        <5>n. Before(j) /\ After(j)
          BY <2>n, <2>p, <3>2
        <5>3. QED
          BY <2>c, <3>2, <4>1, <5>1, <5>2, <5>n
      <4>4. QED
        BY <4>2, <4>3
    <3>4. QED
      BY <3>2, <3>3 DEF CopiesPaid
  <2>4. ASSUME NEW s \in Slots, Context(s) PROVE CopiesPaid'
    <3>1. /\ task[s] # Idle /\ task[s] \in Run /\ ~task[s].completed
          /\ task' = [task EXCEPT ![s] = [task[s] EXCEPT !.completed = TRUE]]
          /\ UNCHANGED <<jobs, producer, faults>>
      BY <2>0, <2>4 DEF Context, ContextAck, ContextRetry, ContextDeadLetter, Complete
    <3>2. /\ \A o \in Slots : o # s => task'[o] = task[o]
          /\ task'[s].completed
      BY <2>0, <3>1 DEF Run
    <3>3. /\ task[s].job \in Jobs /\ RetryOf(s).job = task[s].job
      BY <3>1, RetryIsEntry DEF Run
    <3>4. \/ Schedule(s) /\ fate' = fate
          \/ retries' = retries /\ \E f : Meets(task[s].job, f)
      BY <2>4 DEF Context, ContextAck, ContextRetry, ContextDeadLetter, GiveUp
    <3>5. ASSUME NEW j \in Jobs
          PROVE  /\ Cardinality(Running(task', j)) =
                      Cardinality(Running(task, j)) - (IF task[s].job = j THEN 1 ELSE 0)
                 /\ Accepted(j)' = Accepted(j) /\ faults' = faults
                 /\ Queued(jobs', j) = Queued(jobs, j)
      <4>1. Cardinality(Running(task', j)) =
              Cardinality(Running(task, j))
                - (IF task[s].job = j /\ ~task[s].completed THEN 1 ELSE 0)
        BY <3>1, <3>2, CopyLeaves
      <4>2. QED
        BY <3>1, <4>1 DEF Accepted
    <3>6. CASE Schedule(s) /\ fate' = fate
      <4>1. /\ Armed'
            /\ \A j \in Jobs :
                 Cardinality(Timers(j)') =
                   Cardinality(Timers(j)) + (IF task[s].job = j THEN 1 ELSE 0)
        BY <2>0, <3>3, <3>6, TimerArmed DEF Schedule
      <4>2. ASSUME NEW j \in Jobs PROVE Paid(j)
        <5>1. Settled(j)' = Settled(j)
          BY <3>6 DEF Settled
        <5>n. Before(j) /\ After(j)
          BY <2>n, <2>p, <4>1
        <5>2. QED
          BY <2>c, <3>5, <4>1, <5>1, <5>n
      <4>3. QED
        BY <4>1, <4>2 DEF CopiesPaid
    <3>7. CASE retries' = retries /\ \E f : Meets(task[s].job, f)
      <4>1. ASSUME NEW j \in Jobs PROVE Paid(j)
        <5>1. Settled(j)' <= Settled(j) + (IF task[s].job = j THEN 1 ELSE 0)
          BY <3>3, <3>7, OneMeets
        <5>2. Timers(j)' = Timers(j) /\ Armed'
          BY <2>r, <3>7
        <5>n. Before(j) /\ After(j)
          BY <2>n, <2>p, <5>2
        <5>3. QED
          BY <2>c, <3>5, <5>1, <5>2, <5>n
      <4>2. QED
        BY <2>r, <3>7, <4>1 DEF CopiesPaid
    <3>8. QED
      BY <3>4, <3>6, <3>7
  <2>5. ASSUME NEW s \in Slots, Handler(s) PROVE CopiesPaid'
    <3> DEFINE run == [task EXCEPT ![s] = Idle]
    <3>1. /\ task[s] # Idle /\ task[s] \in Run /\ producer' = producer
          /\ Drain(jobs, run, wakeup)
      BY <2>0, <2>5 DEF Handler, HandlerReturns, HandlerThrows, EndTask
    <3>2. /\ run \in [Slots -> Run \cup {Idle}] /\ run[s] = Idle
          /\ \A o \in Slots : o # s => run[o] = task[o]
      BY Emptied
    <3> HIDE DEF run
    <3>3. task[s].job \in Jobs /\ RetryOf(s).job = task[s].job /\ task[s].completed \in BOOLEAN
      BY <3>1, RetryIsEntry DEF Run
    <3>4. faults' = faults \/ (task[s].completed /\ faults' = faults + 1)
      BY <2>5 DEF Handler, HandlerReturns, HandlerThrows
    <3>5. \/ task[s].completed /\ UNCHANGED <<retries, fate, faults>>
          \/ /\ ~task[s].completed \/ faults' = faults + 1
             /\ \/ Schedule(s) /\ fate' = fate
                \/ retries' = retries /\ \E f : Meets(task[s].job, f)
      <4>1. CASE HandlerReturns(s)
        BY <4>1 DEF HandlerReturns
      <4>2. CASE HandlerThrows(s)
        BY <4>2 DEF HandlerThrows, GiveUp
      <4>3. QED
        BY <2>5, <4>1, <4>2 DEF Handler
    <3>6. ASSUME NEW j \in Jobs
          PROVE  /\ Cardinality(Queued(jobs', j)) + Cardinality(Running(task', j))
                      <= Cardinality(Queued(jobs, j)) + Cardinality(Running(task, j))
                           - (IF task[s].job = j /\ ~task[s].completed THEN 1 ELSE 0)
                 /\ Accepted(j)' = Accepted(j)
      <4>1. Cardinality(Queued(jobs', j)) + Cardinality(Running(task', j))
              <= Cardinality(Queued(jobs, j)) + Cardinality(Running(run, j))
        BY <2>0, <3>1, <3>2, DrainCounts
      <4>2. Cardinality(Running(run, j)) =
              Cardinality(Running(task, j))
                - (IF task[s].job = j /\ ~task[s].completed THEN 1 ELSE 0)
        BY <3>1, <3>2, CopyLeaves
      <4>3. Accepted(j)' = Accepted(j)
        BY <3>1 DEF Accepted
      <4>4. QED
        BY <2>n, <4>1, <4>2, <4>3
    <3>7. CASE task[s].completed /\ UNCHANGED <<retries, fate, faults>>
      <4>1. ASSUME NEW j \in Jobs PROVE Paid(j)
        <5>1. Settled(j)' = Settled(j) /\ Timers(j)' = Timers(j) /\ Armed'
          BY <2>r, <3>7 DEF Settled
        <5>n. Before(j) /\ After(j)
          BY <2>n, <2>p, <5>1
        <5>2. QED
          BY <2>c, <3>6, <3>7, <5>1, <5>n
      <4>2. QED
        BY <2>r, <3>7, <4>1 DEF CopiesPaid
    <3>8. CASE (~task[s].completed \/ faults' = faults + 1) /\ Schedule(s) /\ fate' = fate
      <4>1. /\ Armed'
            /\ \A j \in Jobs :
                 Cardinality(Timers(j)') =
                   Cardinality(Timers(j)) + (IF task[s].job = j THEN 1 ELSE 0)
        BY <2>0, <3>3, <3>8, TimerArmed DEF Schedule
      <4>2. ASSUME NEW j \in Jobs PROVE Paid(j)
        <5>1. Settled(j)' = Settled(j)
          BY <3>8 DEF Settled
        <5>n. Before(j) /\ After(j)
          BY <2>n, <2>p, <4>1
        <5>2. QED
          BY <2>c, <3>4, <3>6, <3>8, <4>1, <5>1, <5>n
      <4>3. QED
        BY <4>1, <4>2 DEF CopiesPaid
    <3>9. CASE /\ ~task[s].completed \/ faults' = faults + 1
               /\ retries' = retries /\ \E f : Meets(task[s].job, f)
      <4>1. ASSUME NEW j \in Jobs PROVE Paid(j)
        <5>1. Settled(j)' <= Settled(j) + (IF task[s].job = j THEN 1 ELSE 0)
          BY <3>3, <3>9, OneMeets
        <5>2. Timers(j)' = Timers(j) /\ Armed'
          BY <2>r, <3>9
        <5>n. Before(j) /\ After(j)
          BY <2>n, <2>p, <5>2
        <5>3. QED
          BY <2>c, <3>4, <3>6, <3>9, <5>1, <5>2, <5>n
      <4>2. QED
        BY <2>r, <3>9, <4>1 DEF CopiesPaid
    <3>10. QED
      BY <3>5, <3>7, <3>8, <3>9
  <2>6. CASE CloseStart
    <3>1. /\ BagToSet(retries') = {} /\ UNCHANGED <<jobs, task, producer, faults>>
          /\ Discard({e.job : e \in BagToSet(retries)})
      BY <2>6 DEF CloseStart, Shut, BagToSet, EmptyBag, SetToBag
    <3>2. /\ \A j \in Jobs : Timers(j)' = {}
          /\ IsFiniteSet({}) /\ Cardinality({}) = 0
      BY <3>1, FS_EmptySet DEF Timers
    <3>3. Armed'
      BY <3>1, <3>2 DEF Armed
    <3>4. ASSUME NEW j \in Jobs PROVE Paid(j)
      <4>1. Accepted(j)' = Accepted(j) /\ faults' = faults
        BY <3>1 DEF Accepted
      <4>2. Settled(j)' <= Settled(j)
              + (IF j \in {e.job : e \in BagToSet(retries)} THEN 1 ELSE 0)
        BY <3>1, DiscardSettles
      <4>n. Before(j) /\ After(j)
        BY <2>n, <2>p, <3>3
      <4>3. Settled(j)' <= Settled(j) + Cardinality(Timers(j))
        <5>1. CASE j \in {e.job : e \in BagToSet(retries)}
          <6>1. PICK e \in BagToSet(retries) : e.job = j
            BY <5>1
          <6>2. <<e, 1>> \in Timers(j)
            BY <2>0, <6>1 DEF Armed, Timers
          <6>3. Cardinality(Timers(j)) # 0
            BY <2>0, <6>2, FS_EmptySet DEF Armed
          <6>4. QED
            BY <4>2, <4>n, <5>1, <6>3
        <5>2. CASE j \notin {e.job : e \in BagToSet(retries)}
          BY <4>2, <4>n, <5>2
        <5>3. QED
          BY <5>1, <5>2
      <4>4. Cardinality(Timers(j)') = 0 /\ jobs' = jobs /\ task' = task
        BY <3>1, <3>2
      <4>5. Copies(j)' = Cardinality(Queued(jobs', j)) + Cardinality(Timers(j)')
                           + Cardinality(Running(task', j))
        BY <2>c
      <4>6. QED
        BY <4>1, <4>3, <4>4, <4>5, <4>n
    <3>5. QED
      BY <3>3, <3>4 DEF CopiesPaid
  <2>7. ASSUME NEW c \in Calls, CloseEnds(c), jobs' = <<>>,
               Discard({jobs[i].job : i \in DOMAIN jobs})
        PROVE  CopiesPaid'
    <3>1. UNCHANGED <<retries, task, producer, faults>> /\ Armed'
      BY <2>7, <2>r DEF CloseEnds
    <3>2. \A j \in Jobs : Queued(jobs', j) = {} /\ Cardinality({}) = 0
      BY <2>7, FS_EmptySet DEF Queued
    <3>3. ASSUME NEW j \in Jobs PROVE Paid(j)
      <4>1. Accepted(j)' = Accepted(j) /\ faults' = faults /\ Timers(j)' = Timers(j)
        BY <2>r, <3>1 DEF Accepted
      <4>2. Settled(j)' <= Settled(j)
              + (IF j \in {jobs[i].job : i \in DOMAIN jobs} THEN 1 ELSE 0)
        BY <2>7, DiscardSettles
      <4>n. Before(j) /\ After(j)
        BY <2>n, <2>p, <3>1
      <4>3. Settled(j)' <= Settled(j) + Cardinality(Queued(jobs, j))
        <5>1. CASE j \in {jobs[i].job : i \in DOMAIN jobs}
          <6>1. Queued(jobs, j) # {}
            BY <5>1 DEF Queued
          <6>2. Cardinality(Queued(jobs, j)) # 0
            BY <2>0, <6>1, QueuedFinite, FS_EmptySet
          <6>3. QED
            BY <4>2, <4>n, <5>1, <6>2
        <5>2. CASE j \notin {jobs[i].job : i \in DOMAIN jobs}
          BY <4>2, <4>n, <5>2
        <5>3. QED
          BY <5>1, <5>2
      <4>4. Cardinality(Queued(jobs', j)) = 0 /\ task' = task
        BY <3>1, <3>2
      <4>5. Copies(j)' = Cardinality(Queued(jobs', j)) + Cardinality(Timers(j)')
                           + Cardinality(Running(task', j))
        BY <2>c
      <4>6. QED
        BY <4>1, <4>3, <4>4, <4>5, <4>n
    <3>4. QED
      BY <3>1, <3>3 DEF CopiesPaid
  <2>8. ASSUME UNCHANGED <<retries, task, fate, faults>>,
               \A j \in Jobs : Queued(jobs', j) = Queued(jobs, j),
               \A j \in Jobs : producer'[j] = "done" <=> producer[j] = "done"
        PROVE  CopiesPaid'
    <3>1. ASSUME NEW j \in Jobs PROVE Paid(j)
      <4>1. /\ Settled(j)' = Settled(j) /\ Accepted(j)' = Accepted(j)
            /\ Timers(j)' = Timers(j)
        BY <2>8, <2>r DEF Settled, Accepted
      <4>2. QED
        BY <2>8, <2>n, <2>c, <4>1
    <3>2. QED
      BY <2>8, <2>r, <3>1 DEF CopiesPaid
  <2>9. ASSUME NEW i \in DOMAIN jobs, BecomeDue(i) PROVE CopiesPaid'
    <3>1. DOMAIN jobs' = DOMAIN jobs /\ \A k \in DOMAIN jobs : jobs'[k].job = jobs[k].job
      <4>1. \A k \in DOMAIN jobs : jobs[k] \in Entry
        BY <2>0
      <4>2. jobs' = [jobs EXCEPT ![i] = [jobs[i] EXCEPT !.later = FALSE]]
        BY <2>9 DEF BecomeDue
      <4>3. [jobs[i] EXCEPT !.later = FALSE].job = jobs[i].job
        BY <4>1 DEF Entry
      <4>4. QED
        BY <4>2, <4>3
    <3>2. \A j \in Jobs : Queued(jobs', j) = Queued(jobs, j)
      BY <3>1 DEF Queued
    <3>3. QED
      BY <2>8, <2>9, <3>2 DEF BecomeDue
  <2>10. ASSUME NEW i \in Jobs, EnqueueStart(i) PROVE CopiesPaid'
    <3>1. \A j \in Jobs : producer'[j] = "done" <=> producer[j] = "done"
      BY <2>10 DEF EnqueueStart, TypeOK
    <3>2. QED
      BY <2>8, <2>10, <3>1 DEF EnqueueStart
  <2>11. CASE \/ \E w \in Workers : CloseWorker(w)
              \/ \E c \in Calls : CloseTimesOut(c)
              \/ \E c \in Calls : CloseEnds(c) /\ UNCHANGED <<jobs, fate>>
              \/ UNCHANGED vars
    BY <2>8, <2>11 DEF CloseWorker, CloseTimesOut, GiveUpWaiting, CloseEnds, vars
  <2>12. QED
    BY <2>1, <2>2, <2>3, <2>4, <2>5, <2>6, <2>7, <2>9, <2>10, <2>11
    DEF Next, CloseEnds
<1>3. QED
  BY <1>1, <1>2, TypeCorrect, PTL DEF Spec

\* A job has one copy or one fate, for any number of jobs, workers, timers, closes
\* and reconnects, but for handlers that throw after they settled their job.
THEOREM OneCopyOrOneFate == Spec => []OneCopyOrFate
<1>1. TypeOK /\ CopiesPaid => OneCopyOrFate
  <2> SUFFICES ASSUME TypeOK, CopiesPaid, NEW j \in Jobs
               PROVE  Copies(j) + Settled(j) <= 1 + faults
    BY DEF OneCopyOrFate, Settled
  <2>1. Copies(j) + Settled(j) <= Accepted(j) + faults /\ Armed
    BY DEF CopiesPaid
  <2>2. /\ Copies(j) \in Nat /\ Settled(j) \in {0, 1} /\ Accepted(j) \in {0, 1}
        /\ faults \in Nat
    BY <2>1, CountsAreNat DEF Copies
  <2>3. QED
    BY <2>1, <2>2
<1>2. QED
  BY <1>1, TypeCorrect, PaidInvariant, PTL

\* No job vanishes, is doubled or outlives its retry policy, for every set of jobs,
\* workers and slots and every attempt budget.
THEOREM QueueJobsAreAccounted == Spec => []JobsAccounted
<1>1. NothingVanishes /\ OneCopyOrFate /\ AttemptsWithinPolicy => JobsAccounted
  BY DEF JobsAccounted
<1>2. QED
  BY <1>1, NothingIsLost, OneCopyOrOneFate, RetriesWithinPolicy, PTL

================================================================================
