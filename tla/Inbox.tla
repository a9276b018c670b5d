--------------------------------- MODULE Inbox ---------------------------------
(***************************************************************************)
(* PostgresInbox (podbus_postgres) under the handler that the inbox guide  *)
(* prescribes (website/content/reliability.ts, "Consumer-side              *)
(* deduplication"): acquire the message id, apply the side effect,         *)
(* complete; fail and rethrow when anything throws.                        *)
(*                                                                         *)
(* The broker is external: it hands an unacknowledged message to any idle  *)
(* handler, again and to several at once if it likes.  The clock is        *)
(* abstracted to whether locked_until lies in the future or in the past.   *)
(***************************************************************************)
EXTENDS Naturals, FiniteSets

CONSTANTS
  Messages,
  Handlers,      \* concurrent handler invocations
  Workers,       \* worker ids
  WorkerOf,      \* [Handlers -> Workers], the workerId a handler passes
  Nobody, NoMessage,
  AckWhenNull,   \* TRUE: the handler returns normally when acquire gives null
  MaxFaults      \* bound on crashes, failed statements and overrun leases

ASSUME InboxAssumption ==
  /\ IsFiniteSet(Handlers)
  /\ WorkerOf \in [Handlers -> Workers]
  /\ Nobody \notin Handlers \cup Workers
  /\ NoMessage \notin Messages
  /\ AckWhenNull \in BOOLEAN
  /\ MaxFaults \in Nat

VARIABLES
  state,         \* "absent" before the first insert
  attempts,
  lockedBy,
  lease,         \* locked_until: "future" or "past"
  pc, msg,       \* per handler: where it is and the delivery it works on
  acked,         \* the broker settled the message
  holder,        \* history: the handler of the latest acquisition
  effects,       \* history: how often the side effect of the message ran
  faults

rowVars     == <<state, attempts, lockedBy, lease, holder>>
handlerVars == <<pc, msg>>
vars        == <<rowVars, handlerVars, acked, effects, faults>>

TypeOK ==
  /\ state \in [Messages -> {"absent", "processing", "completed", "failed"}]
  /\ attempts \in [Messages -> Nat]
  /\ lockedBy \in [Messages -> Workers \cup {Nobody}]
  /\ lease \in [Messages -> {"future", "past"}]
  /\ pc \in [Handlers -> {"idle", "acquire", "apply", "complete", "fail"}]
  /\ msg \in [Handlers -> Messages \cup {NoMessage}]
  /\ acked \in [Messages -> BOOLEAN]
  /\ holder \in [Messages -> Handlers \cup {Nobody}]
  /\ effects \in [Messages -> Nat]
  /\ faults \in Nat
  /\ \A h \in Handlers : msg[h] = NoMessage <=> pc[h] = "idle"
  /\ \A m \in Messages : lease[m] = "future" => state[m] = "processing"

\* settled: whether the broker starts with nothing to deliver.
InitWith(settled) ==
  /\ state = [m \in Messages |-> "absent"]
  /\ attempts = [m \in Messages |-> 0]
  /\ lockedBy = [m \in Messages |-> Nobody]
  /\ lease = [m \in Messages |-> "past"]
  /\ pc = [h \in Handlers |-> "idle"]
  /\ msg = [h \in Handlers |-> NoMessage]
  /\ acked = [m \in Messages |-> settled]
  /\ holder = [m \in Messages |-> Nobody]
  /\ effects = [m \in Messages |-> 0]
  /\ faults = 0

Init == InitWith(FALSE)

Fault == faults < MaxFaults /\ faults' = faults + 1

--------------------------------------------------------------------------------
(* The broker and the clock. *)

Deliver(h, m) ==
  /\ pc[h] = "idle"
  /\ ~acked[m]
  /\ pc' = [pc EXCEPT ![h] = "acquire"]
  /\ msg' = [msg EXCEPT ![h] = m]
  /\ UNCHANGED <<rowVars, acked, effects, faults>>

\* The handler ends: a normal return acknowledges the delivery, an exception
\* leaves the message to be delivered again.
Return(h, ack) ==
  /\ pc' = [pc EXCEPT ![h] = "idle"]
  /\ msg' = [msg EXCEPT ![h] = NoMessage]
  /\ acked' = [acked EXCEPT ![msg[h]] = @ \/ ack]

\* The clock reaches locked_until after the holder crashed or failed to settle.
LeaseRunsOut(m) ==
  /\ lease[m] = "future"
  /\ \A h \in Handlers : ~(holder[m] = h /\ msg[h] = m /\ pc[h] # "acquire")
  /\ lease' = [lease EXCEPT ![m] = "past"]
  /\ UNCHANGED <<state, attempts, lockedBy, holder, handlerVars, acked, effects, faults>>

\* The clock reaches locked_until while the holder is still at work.
LeaseOverrun(m) ==
  /\ Fault
  /\ lease[m] = "future"
  /\ \E h \in Handlers : holder[m] = h /\ msg[h] = m /\ pc[h] # "acquire"
  /\ lease' = [lease EXCEPT ![m] = "past"]
  /\ UNCHANGED <<state, attempts, lockedBy, holder, handlerVars, acked, effects>>

--------------------------------------------------------------------------------
(* The handler. *)

\* Mutant: the deadline of the current lease is ignored.
Acquirable_AnyTime(m) == state[m] # "completed"

\* Mutant: only messages never seen before are acquired.
Acquirable_NewOnly(m) == state[m] = "absent"

\* The row is new, or ON CONFLICT finds it unfinished with its lease over.
Acquirable(m) == state[m] # "completed" /\ lease[m] = "past"

Acquire(h) ==
  LET m == msg[h] IN
  /\ pc[h] = "acquire"
  /\ Acquirable(m)
  /\ state' = [state EXCEPT ![m] = "processing"]
  /\ attempts' = [attempts EXCEPT ![m] = @ + 1]
  /\ lockedBy' = [lockedBy EXCEPT ![m] = WorkerOf[h]]
  /\ lease' = [lease EXCEPT ![m] = "future"]
  /\ holder' = [holder EXCEPT ![m] = h]
  /\ pc' = [pc EXCEPT ![h] = "apply"]
  /\ UNCHANGED <<msg, acked, effects, faults>>

\* acquire returns null, whether the message is completed or leased elsewhere.
NotAcquired(h) ==
  /\ pc[h] = "acquire"
  /\ ~Acquirable(msg[h])
  /\ Return(h, AckWhenNull)
  /\ UNCHANGED <<rowVars, effects, faults>>

\* Mutant: the side effect is left to the code after complete.
ApplyEffect_Skipped(h) ==
  /\ pc[h] = "apply"
  /\ pc' = [pc EXCEPT ![h] = "complete"]
  /\ UNCHANGED <<effects, faults>>

ApplyEffect(h) ==
  /\ pc[h] = "apply"
  /\ pc' = [pc EXCEPT ![h] = "complete"]
  /\ effects' = [effects EXCEPT ![msg[h]] = @ + 1]
  /\ UNCHANGED faults

Apply(h) == ApplyEffect(h) /\ UNCHANGED <<rowVars, msg, acked>>

\* The side effect throws, having run or not.
ApplyThrows(h) ==
  /\ Fault
  /\ pc[h] = "apply"
  /\ pc' = [pc EXCEPT ![h] = "fail"]
  /\ \E ran \in {0, 1} : effects' = [effects EXCEPT ![msg[h]] = @ + ran]
  /\ UNCHANGED <<rowVars, msg, acked>>

\* Mutant: the update finds the row by its id and state alone.
Owns_AnyWorker(h, m) == h \in Handlers /\ state[m] = "processing"

\* WHERE state = 'processing' AND locked_by = @worker_id
Owns(h, m) == state[m] = "processing" /\ lockedBy[m] = WorkerOf[h]

\* extend, while the effect is in progress: it renews even an expired lease as
\* long as nobody took it.
Extend(h) ==
  /\ pc[h] = "apply"
  /\ Owns(h, msg[h])
  /\ lease' = [lease EXCEPT ![msg[h]] = "future"]
  /\ UNCHANGED <<state, attempts, lockedBy, holder, handlerVars, acked, effects, faults>>

ExtendThrows(h) ==
  /\ pc[h] = "apply"
  /\ ~Owns(h, msg[h])
  /\ pc' = [pc EXCEPT ![h] = "fail"]
  /\ UNCHANGED <<rowVars, msg, acked, effects, faults>>

\* Mutant: locked_until keeps its value.
Transition_KeepsLease(m, next) ==
  /\ state' = [state EXCEPT ![m] = next]
  /\ UNCHANGED <<lease, attempts, lockedBy, holder>>

\* _transition; locked_until = now() makes the row claimable at once.
Transition(m, next) ==
  /\ state' = [state EXCEPT ![m] = next]
  /\ lease' = [lease EXCEPT ![m] = "past"]
  /\ UNCHANGED <<attempts, lockedBy, holder>>

Complete(h) ==
  /\ pc[h] = "complete"
  /\ Owns(h, msg[h])
  /\ Transition(msg[h], "completed")
  /\ Return(h, TRUE)
  /\ UNCHANGED <<effects, faults>>

\* complete throws: ownership was lost, or the connection failed before or after
\* the statement committed.
CompleteThrows(h) ==
  /\ pc[h] = "complete"
  /\ \/ ~Owns(h, msg[h]) /\ UNCHANGED <<rowVars, faults>>
     \/ Fault /\ UNCHANGED rowVars
     \/ Fault /\ Owns(h, msg[h]) /\ Transition(msg[h], "completed")
  /\ pc' = [pc EXCEPT ![h] = "fail"]
  /\ UNCHANGED <<msg, acked, effects>>

\* fail, then rethrow; when fail itself throws, its error is rethrown instead.
Fail(h) ==
  /\ pc[h] = "fail"
  /\ \/ Owns(h, msg[h]) /\ Transition(msg[h], "failed") /\ UNCHANGED faults
     \/ ~Owns(h, msg[h]) /\ UNCHANGED <<rowVars, faults>>
     \/ Fault /\ UNCHANGED rowVars
  /\ Return(h, FALSE)
  /\ UNCHANGED effects

\* The process of a worker dies with every handler it runs.
Crash(w) ==
  LET dying == {h \in Handlers : WorkerOf[h] = w /\ pc[h] # "idle"} IN
  /\ Fault
  /\ dying # {}
  /\ pc' = [h \in Handlers |-> IF h \in dying THEN "idle" ELSE pc[h]]
  /\ msg' = [h \in Handlers |-> IF h \in dying THEN NoMessage ELSE msg[h]]
  /\ UNCHANGED <<rowVars, acked, effects>>

--------------------------------------------------------------------------------
\* The steps that end a handler's work (extend alone would go on forever).
Work(h) ==
  \/ Acquire(h)
  \/ NotAcquired(h)
  \/ Apply(h)
  \/ ApplyThrows(h)
  \/ Complete(h)
  \/ CompleteThrows(h)
  \/ Fail(h)

Next ==
  \/ \E h \in Handlers, m \in Messages : Deliver(h, m)
  \/ \E m \in Messages : LeaseRunsOut(m)
  \/ \E m \in Messages : LeaseOverrun(m)
  \/ \E h \in Handlers : Work(h)
  \/ \E h \in Handlers : Extend(h)
  \/ \E h \in Handlers : ExtendThrows(h)
  \/ \E w \in Workers : Crash(w)

\* The clock advances, handlers finish and the broker redelivers what it is owed.
\* Redelivery is strongly fair: a message competes with others for idle handlers.
Fairness ==
  /\ \A m \in Messages : WF_vars(LeaseRunsOut(m))
  /\ \A h \in Handlers : WF_vars(Work(h))
  /\ \A m \in Messages : SF_vars(\E h \in Handlers : Deliver(h, m) /\ Acquirable(m))

Spec == Init /\ [][Next]_vars

FairSpec == Spec /\ Fairness

--------------------------------------------------------------------------------
(* Properties. *)

\* The side effect runs twice only across a crash, a failed statement or an
\* overrun lease: redeliveries and competing replicas alone never repeat it.
DuplicatesNeedFaults == \A m \in Messages : effects[m] <= 1 + faults

\* While a lease is live, only the handler that acquired it settles the message.
\* This needs a worker id per handler: the guards of _transition compare
\* locked_by alone, so an overrun lease of the same worker id passes them.
OnlyHolderSettles ==
  [][\A m \in Messages :
       (lease[m] = "future" /\ state'[m] # "processing")
         => pc[holder[m]] \in {"complete", "fail"} /\ msg[holder[m]] = m
            /\ pc'[holder[m]] # pc[holder[m]]]_vars

\* The inbox "lets a new worker recover a message when the previous worker died
\* after acquiring it" (website/content/reliability.ts:362): every message is
\* completed in the end.
EventuallyCompleted == \A m \in Messages : <>(state[m] = "completed")

================================================================================
