--------------------------------- MODULE Outbox ---------------------------------
(***************************************************************************)
(* PostgresOutbox and PostgresOutboxRelay (podbus_postgres): the outbox    *)
(* table, the relays that lease rows from it and publish them, and the     *)
(* maintenance call that takes back expired leases.                        *)
(*                                                                         *)
(* One variable per column the statements read or write.  A statement is a *)
(* transaction and hence one step; everything between two statements of a  *)
(* relay (the publication, a crash, another relay) interleaves with it.    *)
(* The clock is abstracted to what the statements compare it with: whether *)
(* next_attempt_at has been reached (due) and whether locked_until lies in *)
(* the future or in the past.                                              *)
(***************************************************************************)
EXTENDS Naturals, FiniteSets

CONSTANTS
  Rows,          \* ids, numbered in the order of (created_at, id)
  Relays,        \* relays; each has a worker id of its own
  NoRelay,       \* SQL NULL in locked_by
  NoRow,         \* a relay with no record in hand
  BatchSize,     \* PostgresOutboxRelay.batchSize
  MaxAttempts,   \* RetryPolicy.maxAttempts
  Reaper,        \* TRUE when the application calls releaseExpiredLeases
  MaxFaults      \* bound on crashes, lost replies and overrun leases

ASSUME OutboxAssumption ==
  /\ Rows \subseteq Nat
  /\ NoRow \notin Rows
  /\ IsFiniteSet(Relays)
  /\ NoRelay \notin Relays
  /\ BatchSize \in Nat \ {0}
  /\ MaxAttempts \in Nat \ {0}
  /\ Reaper \in BOOLEAN
  /\ MaxFaults \in Nat

VARIABLES
  status,        \* "absent" before the row is inserted
  attempts,
  due,           \* next_attempt_at <= now()
  lockedBy,
  lockedUntil,   \* "null", "future" or "past"
  pc,            \* per relay: what runOnce awaits next
  batch,         \* per relay: claimed records it has not tried yet
  cur,           \* per relay: the record in hand
  delivered,     \* history: how often the transport got the row's message
  faults         \* history: crashes, lost replies and overrun leases so far

rowVars   == <<status, attempts, due, lockedBy, lockedUntil>>
relayVars == <<pc, batch, cur>>
vars      == <<rowVars, relayVars, delivered, faults>>

OutboxState == {"pending", "processing", "failed", "published", "dead"}

\* The types of the variables, and their coherence: the two lock columns are set
\* together, on the processing rows and no others; a relay has a record in hand
\* exactly while it awaits one of the two updates that end its turn.
TypeOK ==
  /\ status \in [Rows -> OutboxState \cup {"absent"}]
  /\ attempts \in [Rows -> Nat]
  /\ due \in [Rows -> BOOLEAN]
  /\ lockedBy \in [Rows -> Relays \cup {NoRelay}]
  /\ lockedUntil \in [Rows -> {"null", "future", "past"}]
  /\ pc \in [Relays -> {"ready", "mark", "fail", "down"}]
  /\ batch \in [Relays -> SUBSET Rows]
  /\ cur \in [Relays -> Rows \cup {NoRow}]
  /\ delivered \in [Rows -> Nat]
  /\ faults \in Nat
  /\ \A r \in Rows : lockedBy[r] # NoRelay <=> status[r] = "processing"
  /\ \A r \in Rows : lockedUntil[r] # "null" <=> status[r] = "processing"
  /\ \A w \in Relays : cur[w] # NoRow <=> pc[w] \in {"mark", "fail"}

Init ==
  /\ status = [r \in Rows |-> "absent"]
  /\ attempts = [r \in Rows |-> 0]
  /\ due = [r \in Rows |-> FALSE]
  /\ lockedBy = [r \in Rows |-> NoRelay]
  /\ lockedUntil = [r \in Rows |-> "null"]
  /\ pc = [w \in Relays |-> "ready"]
  /\ batch = [w \in Relays |-> {}]
  /\ cur = [w \in Relays |-> NoRow]
  /\ delivered = [r \in Rows |-> 0]
  /\ faults = 0

Fault == faults < MaxFaults /\ faults' = faults + 1

--------------------------------------------------------------------------------
(* The table. *)

\* The caller's transaction commits the row; availableAt may lie in the future.
\* A second insert of the same id violates the primary key and changes nothing.
Enqueue(r) ==
  /\ status[r] = "absent"
  /\ status' = [status EXCEPT ![r] = "pending"]
  /\ \E now \in BOOLEAN : due' = [due EXCEPT ![r] = now]
  /\ UNCHANGED <<attempts, lockedBy, lockedUntil, relayVars, delivered, faults>>

\* The clock reaches next_attempt_at.
BecomeDue(r) ==
  /\ status[r] \in {"pending", "failed"}
  /\ ~due[r]
  /\ due' = [due EXCEPT ![r] = TRUE]
  /\ UNCHANGED <<status, attempts, lockedBy, lockedUntil, relayVars, delivered, faults>>

Holds(w, r) == r \in batch[w] \/ cur[w] = r

\* The clock reaches locked_until of a row whose relay crashed or gave up its run.
LeaseRunsOut(r) ==
  /\ lockedUntil[r] = "future"
  /\ \A w \in Relays : lockedBy[r] = w => ~Holds(w, r)
  /\ lockedUntil' = [lockedUntil EXCEPT ![r] = "past"]
  /\ UNCHANGED <<status, attempts, due, lockedBy, relayVars, delivered, faults>>

\* The clock reaches locked_until while the relay still works on its batch.
LeaseOverrun(r) ==
  /\ Fault
  /\ lockedUntil[r] = "future"
  /\ \E w \in Relays : lockedBy[r] = w /\ Holds(w, r)
  /\ lockedUntil' = [lockedUntil EXCEPT ![r] = "past"]
  /\ UNCHANGED <<status, attempts, due, lockedBy, relayVars, delivered>>

\* Mutant: the deadline is not compared with the clock.
Expired_AnyLease(r) == status[r] = "processing"

Expired(r) == status[r] = "processing" /\ lockedUntil[r] = "past"

\* One UPDATE over every processing row whose lease is over, whatever its attempts.
ReleaseExpiredLeases ==
  /\ Reaper
  /\ \E r \in Rows : Expired(r)
  /\ status' = [r \in Rows |-> IF Expired(r) THEN "failed" ELSE status[r]]
  /\ due' = [r \in Rows |-> IF Expired(r) THEN TRUE ELSE due[r]]
  /\ lockedBy' = [r \in Rows |-> IF Expired(r) THEN NoRelay ELSE lockedBy[r]]
  /\ lockedUntil' = [r \in Rows |-> IF Expired(r) THEN "null" ELSE lockedUntil[r]]
  /\ UNCHANGED <<attempts, relayVars, delivered, faults>>

--------------------------------------------------------------------------------
(* A relay's runOnce. *)

\* Mutant: failed rows are left out of the claim.
Claimable_PendingOnly(r) == status[r] = "pending" /\ due[r] /\ lockedUntil[r] # "future"

Claimable(r) ==
  /\ status[r] \in {"pending", "failed"}
  /\ due[r]
  /\ lockedUntil[r] \in {"null", "past"}

\* ORDER BY created_at, id LIMIT batchSize.
FirstBatch(S) == {r \in S : Cardinality({q \in S : q < r}) < BatchSize}

ClaimBatch(w) ==
  /\ pc[w] = "ready"
  /\ batch[w] = {}
  /\ LET claimed == FirstBatch({r \in Rows : Claimable(r)})
     IN  /\ claimed # {}
         /\ status' = [r \in Rows |-> IF r \in claimed THEN "processing" ELSE status[r]]
         /\ attempts' = [r \in Rows |-> IF r \in claimed THEN attempts[r] + 1 ELSE attempts[r]]
         /\ lockedBy' = [r \in Rows |-> IF r \in claimed THEN w ELSE lockedBy[r]]
         /\ lockedUntil' = [r \in Rows |-> IF r \in claimed THEN "future" ELSE lockedUntil[r]]
         /\ batch' = [batch EXCEPT ![w] = claimed]
  /\ UNCHANGED <<due, pc, cur, delivered, faults>>

\* Mutant: the record stays in the batch and is taken again.
TakeRecord_Kept(w, r, next) ==
  /\ pc[w] = "ready"
  /\ r \in batch[w]
  /\ cur' = [cur EXCEPT ![w] = r]
  /\ pc' = [pc EXCEPT ![w] = next]
  /\ UNCHANGED batch

\* The relay takes the next record.  RETURNING promises no order.
TakeRecord(w, r, next) ==
  /\ pc[w] = "ready"
  /\ r \in batch[w]
  /\ batch' = [batch EXCEPT ![w] = @ \ {r}]
  /\ cur' = [cur EXCEPT ![w] = r]
  /\ pc' = [pc EXCEPT ![w] = next]

Publish(w, r) ==
  /\ TakeRecord(w, r, "mark")
  /\ delivered' = [delivered EXCEPT ![r] = @ + 1]
  /\ UNCHANGED <<rowVars, faults>>

\* The payload does not decode, or publish throws; the transport may have
\* accepted the message all the same (a confirmation that came too late).
PublishThrows(w, r) ==
  /\ TakeRecord(w, r, "fail")
  /\ \E reached \in {0, 1} : delivered' = [delivered EXCEPT ![r] = @ + reached]
  /\ UNCHANGED <<rowVars, faults>>

\* Mutant: the updates find the row by its id alone.
Owns_Unchecked(w, r) == w \in Relays /\ r \in Rows

\* WHERE status = 'processing' AND locked_by = @worker_id
Owns(w, r) == status[r] = "processing" /\ lockedBy[r] = w

SetPublished(r) ==
  /\ status' = [status EXCEPT ![r] = "published"]
  /\ lockedBy' = [lockedBy EXCEPT ![r] = NoRelay]
  /\ lockedUntil' = [lockedUntil EXCEPT ![r] = "null"]
  /\ UNCHANGED <<attempts, due>>

\* Mutant: locked_by is not cleared.
SetFailed_KeepsLock(r) ==
  /\ status' = [status EXCEPT ![r] = IF attempts[r] >= MaxAttempts THEN "dead" ELSE "failed"]
  /\ due' = [due EXCEPT ![r] = FALSE]
  /\ lockedUntil' = [lockedUntil EXCEPT ![r] = "null"]
  /\ UNCHANGED <<attempts, lockedBy>>

\* Mutant: one attempt too many.
SetFailed_OffByOne(r) ==
  /\ status' = [status EXCEPT ![r] = IF attempts[r] > MaxAttempts THEN "dead" ELSE "failed"]
  /\ due' = [due EXCEPT ![r] = FALSE]
  /\ lockedBy' = [lockedBy EXCEPT ![r] = NoRelay]
  /\ lockedUntil' = [lockedUntil EXCEPT ![r] = "null"]
  /\ UNCHANGED attempts

SetFailed(r) ==
  /\ status' = [status EXCEPT ![r] = IF attempts[r] >= MaxAttempts THEN "dead" ELSE "failed"]
  /\ due' = [due EXCEPT ![r] = FALSE]
  /\ lockedBy' = [lockedBy EXCEPT ![r] = NoRelay]
  /\ lockedUntil' = [lockedUntil EXCEPT ![r] = "null"]
  /\ UNCHANGED attempts

MarkPublished(w) ==
  /\ pc[w] = "mark"
  /\ Owns(w, cur[w])
  /\ SetPublished(cur[w])
  /\ pc' = [pc EXCEPT ![w] = "ready"]
  /\ cur' = [cur EXCEPT ![w] = NoRow]
  /\ UNCHANGED <<batch, delivered, faults>>

\* markPublished throws, because ownership was lost or because the connection
\* failed before or after the statement committed: the catch block follows.
MarkPublishedThrows(w) ==
  /\ pc[w] = "mark"
  /\ \/ ~Owns(w, cur[w]) /\ UNCHANGED <<rowVars, faults>>
     \/ Fault /\ UNCHANGED rowVars
     \/ Fault /\ Owns(w, cur[w]) /\ SetPublished(cur[w])
  /\ pc' = [pc EXCEPT ![w] = "fail"]
  /\ UNCHANGED <<batch, cur, delivered>>

MarkFailed(w) ==
  /\ pc[w] = "fail"
  /\ Owns(w, cur[w])
  /\ SetFailed(cur[w])
  /\ pc' = [pc EXCEPT ![w] = "ready"]
  /\ cur' = [cur EXCEPT ![w] = NoRow]
  /\ UNCHANGED <<batch, delivered, faults>>

\* markFailed throws inside the catch block: runOnce ends, and the records of
\* the batch it has not reached stay claimed in the table.
MarkFailedThrows(w) ==
  /\ pc[w] = "fail"
  /\ \/ ~Owns(w, cur[w]) /\ UNCHANGED <<rowVars, faults>>
     \/ Fault /\ UNCHANGED rowVars
     \/ Fault /\ Owns(w, cur[w]) /\ SetFailed(cur[w])
  /\ pc' = [pc EXCEPT ![w] = "ready"]
  /\ cur' = [cur EXCEPT ![w] = NoRow]
  /\ batch' = [batch EXCEPT ![w] = {}]
  /\ UNCHANGED delivered

Crash(w) ==
  /\ Fault
  /\ pc[w] # "down"
  /\ pc' = [pc EXCEPT ![w] = "down"]
  /\ cur' = [cur EXCEPT ![w] = NoRow]
  /\ batch' = [batch EXCEPT ![w] = {}]
  /\ UNCHANGED <<rowVars, delivered>>

Restart(w) ==
  /\ pc[w] = "down"
  /\ pc' = [pc EXCEPT ![w] = "ready"]
  /\ UNCHANGED <<rowVars, batch, cur, delivered, faults>>

--------------------------------------------------------------------------------
RunOnce(w) ==
  \/ ClaimBatch(w)
  \/ \E r \in Rows : Publish(w, r)
  \/ \E r \in Rows : PublishThrows(w, r)
  \/ MarkPublished(w)
  \/ MarkPublishedThrows(w)
  \/ MarkFailed(w)
  \/ MarkFailedThrows(w)

Next ==
  \/ \E r \in Rows : Enqueue(r)
  \/ \E r \in Rows : BecomeDue(r)
  \/ \E r \in Rows : LeaseRunsOut(r)
  \/ \E r \in Rows : LeaseOverrun(r)
  \/ ReleaseExpiredLeases
  \/ \E w \in Relays : RunOnce(w)
  \/ \E w \in Relays : Crash(w)
  \/ \E w \in Relays : Restart(w)

\* The clock advances, the supervised loop keeps calling runOnce, a crashed
\* replica is restarted and, where there is a reaper, it keeps being called.
Fairness ==
  /\ \A r \in Rows : WF_vars(BecomeDue(r)) /\ WF_vars(LeaseRunsOut(r))
  /\ \A w \in Relays : WF_vars(RunOnce(w)) /\ WF_vars(Restart(w))
  /\ WF_vars(ReleaseExpiredLeases)

Spec == Init /\ [][Next]_vars

FairSpec == Spec /\ Fairness

--------------------------------------------------------------------------------
(* Properties. *)

\* A message reaches the transport at most once per claim of its row: relays
\* never publish a record twice on one lease, and no two relays share a claim
\* (runOnce publishes each record of its batch once; claimBatch counts it).
DeliveredWithinAttempts == \A r \in Rows : delivered[r] <= attempts[r]

\* A claim beyond maxAttempts needs a crash, a lost reply or an overrun lease
\* for each of the extra ones: releaseExpiredLeases returns a row to "failed"
\* without looking at its attempts, but nothing else does.
ExtraAttemptsNeedFaults == \A r \in Rows : attempts[r] <= MaxAttempts + faults

\* While a lease is live, only the relay that holds it can move the row out of
\* "processing", and only for the record it has in hand (the ownership guards
\* of _ownedUpdate and markFailed, against stale relays and the reaper).
OnlyHolderSettles ==
  [][\A r \in Rows :
       (status[r] = "processing" /\ lockedUntil[r] = "future" /\ status'[r] # "processing")
         => \E w \in Relays : lockedBy[r] = w /\ cur[w] = r]_vars

\* The outbox keeps the at-least-once promise: a row is "published" only after
\* its message reached the transport, and "published" and "dead" are final.
PhaseOf ==
  [r \in Rows |-> CASE status[r] = "absent" -> "unsent"
                   [] status[r] = "published" -> "settled"
                   [] status[r] = "dead" -> "buried"
                   [] OTHER -> "owed"]

Promise == INSTANCE AtLeastOnce
             WITH Messages <- Rows, phase <- PhaseOf, deliveries <- delivered

KeepsPromise == Promise!Spec

\* With a reaper, every row is published or given up, whatever crashes.
EventuallySettled == Promise!EventuallySettled

\* A lease that expired is recovered: the row does not stay "processing" for a
\* relay that is gone.
ExpiredLeaseRecovered == \A r \in Rows : Expired(r) ~> ~Expired(r)

================================================================================
