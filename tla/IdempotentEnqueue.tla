--------------------------- MODULE IdempotentEnqueue ---------------------------
(***************************************************************************)
(* enqueue with an idempotency key: claim the key in an IdempotencyStore,  *)
(* publish the job, release the key when the publication throws            *)
(* (NatsJetStreamJobQueue.enqueue; RabbitMqMessageBus.enqueue is the same  *)
(* with a broker that does not know message ids).                          *)
(*                                                                         *)
(* The three calls are separate awaits, so calls for one key interleave    *)
(* between them.  A caller whose call threw calls again, one whose call    *)
(* returned is done.  The clock is abstracted to whether expires_at of a   *)
(* key has been reached.                                                   *)
(***************************************************************************)
EXTENDS Naturals, FiniteSets

CONSTANTS
  Keys,
  Callers,
  KeyOf,         \* [Callers -> Keys], the key a caller enqueues its job under
  Nobody,
  MaxRepeats,    \* bound on calls for a key by callers that were done with it
  MaxFailures    \* bound on failing calls, crashes, early expiries and clears

ASSUME IdempotentEnqueueAssumption ==
  /\ IsFiniteSet(Callers)
  /\ KeyOf \in [Callers -> Keys]
  /\ Nobody \notin Callers
  /\ MaxRepeats \in Nat
  /\ MaxFailures \in Nat

VARIABLES
  store,         \* "postgres": shared, survives crashes; "memory": in the one process of all callers
  broker,        \* "jetstream" drops a repeated message id for a while, "rabbitmq" does not
  row,           \* per key: no row, a row before or after its expires_at
  window,        \* per key: the broker still remembers the message id
  stored,        \* per key: jobs the broker took
  pc,            \* per caller: "idle" is about to call enqueue
  owner,         \* history: whose claim the row is, Nobody once it is not anybody's call
  orphaned,      \* history: a claim of the key was left behind by a call that ended
  lapses,        \* history: how often a claim of the key expired
  repeats,
  failures

config  == <<store, broker>>
history == <<orphaned, lapses>>
enqueueVars == <<config, row, owner, window, stored, pc, history, repeats, failures>>

InFlight(c) == pc[c] \in {"publish", "release"}

EnqueueTypeOK ==
  /\ store \in {"postgres", "memory"}
  /\ broker \in {"jetstream", "rabbitmq"}
  /\ row \in [Keys -> {"none", "live", "expired"}]
  /\ window \in [Keys -> BOOLEAN]
  /\ stored \in [Keys -> Nat]
  /\ pc \in [Callers -> {"idle", "publish", "release", "done"}]
  /\ owner \in [Keys -> Callers \cup {Nobody}]
  /\ orphaned \in [Keys -> BOOLEAN]
  /\ lapses \in [Keys -> Nat]
  /\ repeats \in Nat
  /\ failures \in Nat
  /\ \A k \in Keys : window[k] => broker = "jetstream" /\ stored[k] > 0

EnqueueInit ==
  /\ store \in {"postgres", "memory"}
  /\ broker \in {"jetstream", "rabbitmq"}
  /\ row = [k \in Keys |-> "none"]
  /\ window = [k \in Keys |-> FALSE]
  /\ stored = [k \in Keys |-> 0]
  /\ pc = [c \in Callers |-> "idle"]
  /\ owner = [k \in Keys |-> Nobody]
  /\ orphaned = [k \in Keys |-> FALSE]
  /\ lapses = [k \in Keys |-> 0]
  /\ repeats = 0
  /\ failures = 0

Fault == failures < MaxFailures /\ failures' = failures + 1

\* A call that returned is "done", one that threw is "idle" again.
GoTo(c, next) == pc' = [pc EXCEPT ![c] = next]

--------------------------------------------------------------------------------
(* The store. *)

\* Mutant: ON CONFLICT updates whatever row it finds.
Claimable_Always(k) == k \in Keys

\* No row, or ON CONFLICT finds one whose expires_at has been reached; the
\* memory store drops those first.
Claimable(k) == row[k] # "live"

SetRow(k, c) ==
  /\ row' = [row EXCEPT ![k] = "live"]
  /\ owner' = [owner EXCEPT ![k] = c]

\* Mutant: a key that was released keeps its row until it expires.
DeleteRow_Never(k) == k \in Keys /\ UNCHANGED <<row, owner>>

\* release deletes the row by its key, whoever claimed it.
DeleteRow(k) ==
  /\ row' = [row EXCEPT ![k] = "none"]
  /\ owner' = [owner EXCEPT ![k] = Nobody]

\* The clock reaches expires_at of a claim whose call is over.
Expire(k) ==
  /\ row[k] = "live"
  /\ owner[k] # Nobody => ~InFlight(owner[k])
  /\ row' = [row EXCEPT ![k] = "expired"]
  /\ lapses' = [lapses EXCEPT ![k] = @ + 1]
  /\ UNCHANGED <<config, owner, window, stored, pc, orphaned, repeats, failures>>

\* The clock reaches expires_at while the claiming call is still under way.
ExpireEarly(k) ==
  /\ Fault
  /\ row[k] = "live"
  /\ owner[k] # Nobody /\ InFlight(owner[k])
  /\ row' = [row EXCEPT ![k] = "expired"]
  /\ UNCHANGED <<config, owner, window, stored, pc, orphaned, lapses, repeats>>

\* pruneExpired: one batch of the rows that are over.
PruneExpired ==
  \E batch \in SUBSET {k \in Keys : row[k] = "expired"} :
    /\ batch # {}
    /\ row' = [k \in Keys |-> IF k \in batch THEN "none" ELSE row[k]]
    /\ owner' = [k \in Keys |-> IF k \in batch THEN Nobody ELSE owner[k]]
    /\ UNCHANGED <<config, window, stored, pc, history, repeats, failures>>

\* clear: the table is truncated, the map emptied.
Clear ==
  /\ Fault
  /\ row' = [k \in Keys |-> "none"]
  /\ owner' = [k \in Keys |-> Nobody]
  /\ UNCHANGED <<config, window, stored, pc, history, repeats>>

--------------------------------------------------------------------------------
(* The broker. *)

\* Mutant: the message id is remembered although the job is not stored.
Store_IdOnly(k) ==
  /\ window' = [window EXCEPT ![k] = broker = "jetstream"]
  /\ UNCHANGED stored

\* publish with the key as message id: JetStream drops what it remembers.
Store(k) ==
  /\ stored' = [stored EXCEPT ![k] = IF window[k] THEN @ ELSE @ + 1]
  /\ window' = [window EXCEPT ![k] = broker = "jetstream"]

\* The duplicate window of the stream passes.
WindowEnds(k) ==
  /\ window[k]
  /\ window' = [window EXCEPT ![k] = FALSE]
  /\ UNCHANGED <<config, row, owner, stored, pc, history, repeats, failures>>

--------------------------------------------------------------------------------
(* enqueue. *)

Claim(c) ==
  /\ pc[c] = "idle"
  /\ Claimable(KeyOf[c])
  /\ SetRow(KeyOf[c], c)
  /\ GoTo(c, "publish")
  /\ UNCHANGED <<config, window, stored, history, repeats, failures>>

\* claim gives false: enqueue returns normally, whatever the claimant does next.
ClaimRefused(c) ==
  /\ pc[c] = "idle"
  /\ ~Claimable(KeyOf[c])
  /\ GoTo(c, "done")
  /\ UNCHANGED <<config, row, owner, window, stored, history, repeats, failures>>

\* Mutant: the claim moved into the try block, whose catch releases the key.
ClaimThrows_Releases(c) ==
  /\ Fault
  /\ store = "postgres"
  /\ pc[c] = "idle"
  /\ GoTo(c, "release")
  /\ UNCHANGED <<config, row, owner, window, stored, history, repeats>>

\* The statement fails, before or after it committed.  It stands before the try
\* block: nothing is released, and a committed claim belongs to no call.
ClaimThrows(c) ==
  /\ Fault
  /\ store = "postgres"
  /\ pc[c] = "idle"
  /\ \/ UNCHANGED <<row, owner, orphaned>>
     \/ /\ Claimable(KeyOf[c])
        /\ SetRow(KeyOf[c], Nobody)
        /\ orphaned' = [orphaned EXCEPT ![KeyOf[c]] = TRUE]
  /\ UNCHANGED <<config, window, stored, pc, lapses, repeats>>

Publish(c) ==
  /\ pc[c] = "publish"
  /\ Store(KeyOf[c])
  /\ GoTo(c, "done")
  /\ UNCHANGED <<config, row, owner, history, repeats, failures>>

\* Mutant: the error goes to the caller with the key still claimed.
PublishThrows_KeepsKey(c) ==
  /\ Fault
  /\ pc[c] = "publish"
  /\ \/ Store(KeyOf[c])
     \/ UNCHANGED <<stored, window>>
  /\ GoTo(c, "idle")
  /\ UNCHANGED <<config, row, owner, history, repeats>>

\* The payload does not encode, or the publication times out or fails; the
\* broker may have stored the job all the same.
PublishThrows(c) ==
  /\ Fault
  /\ pc[c] = "publish"
  /\ \/ Store(KeyOf[c])
     \/ UNCHANGED <<stored, window>>
  /\ GoTo(c, "release")
  /\ UNCHANGED <<config, row, owner, history, repeats>>

\* Then the error is thrown to the caller, who calls again.
Release(c) ==
  /\ pc[c] = "release"
  /\ DeleteRow(KeyOf[c])
  /\ GoTo(c, "idle")
  /\ UNCHANGED <<config, window, stored, history, repeats, failures>>

\* Whoever the row belongs to, the call that ends can no longer release it.
LeaveBehind(c) ==
  orphaned' = [orphaned EXCEPT ![KeyOf[c]] = @ \/ (row[KeyOf[c]] = "live" /\ owner[KeyOf[c]] = c)]

\* The delete fails, before or after it committed.
ReleaseThrows(c) ==
  /\ Fault
  /\ store = "postgres"
  /\ pc[c] = "release"
  /\ \/ DeleteRow(KeyOf[c]) /\ UNCHANGED orphaned
     \/ LeaveBehind(c) /\ UNCHANGED <<row, owner>>
  /\ GoTo(c, "idle")
  /\ UNCHANGED <<config, window, stored, lapses, repeats>>

\* A process dies in the middle of a call and takes the call up again after it
\* has restarted; the rows in PostgreSQL stay.
Crash(c) ==
  /\ Fault
  /\ store = "postgres"
  /\ InFlight(c)
  /\ LeaveBehind(c)
  /\ GoTo(c, "idle")
  /\ UNCHANGED <<config, row, owner, window, stored, lapses, repeats>>

\* The process of all callers dies, and the memory store with it.
CrashAll ==
  /\ Fault
  /\ store = "memory"
  /\ pc' = [c \in Callers |-> IF InFlight(c) THEN "idle" ELSE pc[c]]
  /\ row' = [k \in Keys |-> "none"]
  /\ owner' = [k \in Keys |-> Nobody]
  /\ UNCHANGED <<config, window, stored, history, repeats>>

\* A caller that was told the job is enqueued enqueues it once more.
Repeat(c) ==
  /\ repeats < MaxRepeats
  /\ pc[c] = "done"
  /\ GoTo(c, "idle")
  /\ repeats' = repeats + 1
  /\ UNCHANGED <<config, row, owner, window, stored, history, failures>>

--------------------------------------------------------------------------------
Enqueue(c) ==
  \/ Claim(c)
  \/ ClaimRefused(c)
  \/ Publish(c)
  \/ Release(c)

EnqueueNext ==
  \/ \E c \in Callers : Enqueue(c)
  \/ \E c \in Callers : ClaimThrows(c)
  \/ \E c \in Callers : PublishThrows(c)
  \/ \E c \in Callers : ReleaseThrows(c)
  \/ \E c \in Callers : Crash(c)
  \/ \E c \in Callers : Repeat(c)
  \/ \E k \in Keys : Expire(k)
  \/ \E k \in Keys : ExpireEarly(k)
  \/ \E k \in Keys : WindowEnds(k)
  \/ PruneExpired
  \/ Clear
  \/ CrashAll

\* Calls end, and a caller whose call threw keeps calling.
EnqueueFairness == \A c \in Callers : WF_enqueueVars(Enqueue(c))

EnqueueSpec == EnqueueInit /\ [][EnqueueNext]_enqueueVars

FairEnqueueSpec == EnqueueSpec /\ EnqueueFairness

--------------------------------------------------------------------------------
(* Properties. *)

\* A second job under one key needs an expired claim or a fault for each copy:
\* calls that race each other never enqueue twice (the key is claimed before
\* the publication, and a release follows only a publication that threw).
JobsNeedLapses == \A k \in Keys : stored[k] <= 1 + lapses[k] + failures

\* A caller is told that its job is enqueued while it is not (enqueue returns
\* when claim gives false), but then somebody who was not told so still owes the
\* job, or a claim of the key was left behind by a failing store or a crash.
AcceptedIsOwed ==
  \A c \in Callers :
    pc[c] = "done" /\ stored[KeyOf[c]] = 0
      => \/ \E d \in Callers : KeyOf[d] = KeyOf[c] /\ pc[d] # "done"
         \/ orphaned[KeyOf[c]]

\* release does not compare owners, so a call may delete the claim of another call
\* under way; but it takes a failed publication and, besides, a claim that ended
\* under its call (expired or cleared) to get there.
ForeignReleaseNeedsFaults ==
  \A c, d \in Callers :
    (c # d /\ KeyOf[c] = KeyOf[d] /\ pc[c] = "release"
       /\ InFlight(d) /\ row[KeyOf[d]] = "live" /\ owner[KeyOf[d]] = d)
      => failures >= 2

\* Every key gets its job, although a caller stops as soon as one call returned:
\* only a claim left behind swallows it.
EventuallyStored == \A k \in Keys : <>(stored[k] > 0 \/ orphaned[k])

================================================================================
