----------------------------- MODULE JetStreamJobs -----------------------------
(***************************************************************************)
(* NatsJetStreamJobQueue (podbus_nats): the worker loops that fetch from a *)
(* durable JetStream consumer, run the handler and settle the delivery.    *)
(*                                                                         *)
(* The broker is external, modelled from the calls the adapter makes: an   *)
(* explicit-ack consumer that hands a job out again when its ack wait ends *)
(* or when it is nak'ed, forgets it once it is acked or termed, and        *)
(* accepts the settlement of an older delivery.  Acknowledgements are      *)
(* plain publications, so one can be lost without the client noticing.     *)
(***************************************************************************)
EXTENDS Naturals, FiniteSets

CONSTANTS
  Jobs,
  Loops,         \* concurrent _run loops, over all workers and replicas
  NoDelivery,
  FetchBatch,    \* _fetchBatchSize
  MaxAttempts,   \* RetryPolicy.maxAttempts
  DeadLetters,   \* DeadLetterPolicy.enabled
  MaxFaults,     \* bound on crashes, failed calls, late handlers and late throws
  MaxRetries     \* bound on explicit context.retry() calls

ASSUME JetStreamAssumption ==
  /\ IsFiniteSet(Loops)
  /\ FetchBatch \in Nat \ {0}
  /\ MaxAttempts \in Nat \ {0}
  /\ DeadLetters \in BOOLEAN
  /\ MaxFaults \in Nat
  /\ MaxRetries \in Nat

Delivery == [job : Jobs, attempt : Nat \ {0}]

ASSUME NoDeliveryAssumption == NoDelivery \notin Delivery

VARIABLES
  stream,        \* broker: "absent", "ready", "out", "acked" or "termed"
  count,         \* broker: deliveries made so far
  deadLettered,  \* broker: dead letters published for the job
  pc,            \* per loop: what it awaits
  buffer,        \* per loop: fetched deliveries it has not processed yet
  cur,           \* per loop: the delivery in process
  completed,     \* per loop: the context's completed flag
  closed,        \* per loop: its worker's _closed flag
  runs,          \* history: handler invocations of the job
  faults,
  retries        \* history: explicit retries

brokerVars == <<stream, count, deadLettered>>
loopVars   == <<pc, buffer, cur, completed>>
vars       == <<brokerVars, loopVars, closed, runs, faults, retries>>

Pc == {"idle", "handler", "ack", "nak", "bury", "term", "ctxTerm", "stopped"}

Busy(l) == pc[l] \notin {"idle", "stopped"}

TypeOK ==
  /\ stream \in [Jobs -> {"absent", "ready", "out", "acked", "termed"}]
  /\ count \in [Jobs -> Nat]
  /\ deadLettered \in [Jobs -> Nat]
  /\ pc \in [Loops -> Pc]
  /\ buffer \in [Loops -> SUBSET Delivery]
  /\ cur \in [Loops -> Delivery \cup {NoDelivery}]
  /\ completed \in [Loops -> BOOLEAN]
  /\ closed \in [Loops -> BOOLEAN]
  /\ runs \in [Jobs -> Nat]
  /\ faults \in Nat
  /\ retries \in Nat
  /\ \A l \in Loops : cur[l] # NoDelivery <=> Busy(l)
  /\ \A l \in Loops : \A d \in buffer[l] \cup ({cur[l]} \ {NoDelivery}) : d.attempt <= count[d.job]

Init ==
  /\ stream = [j \in Jobs |-> "absent"]
  /\ count = [j \in Jobs |-> 0]
  /\ deadLettered = [j \in Jobs |-> 0]
  /\ pc = [l \in Loops |-> "idle"]
  /\ buffer = [l \in Loops |-> {}]
  /\ cur = [l \in Loops |-> NoDelivery]
  /\ completed = [l \in Loops |-> FALSE]
  /\ closed = [l \in Loops |-> FALSE]
  /\ runs = [j \in Jobs |-> 0]
  /\ faults = 0
  /\ retries = 0

Fault == faults < MaxFaults /\ faults' = faults + 1

--------------------------------------------------------------------------------
(* The broker. *)

Enqueue(j) ==
  /\ stream[j] = "absent"
  /\ stream' = [stream EXCEPT ![j] = "ready"]
  /\ UNCHANGED <<count, deadLettered, loopVars, closed, runs, faults, retries>>

Holds(l, j) == \E d \in buffer[l] \cup {cur[l]} : d # NoDelivery /\ d.job = j

\* The ack wait ends for a delivery nobody works on any more.
AckWaitEnds(j) ==
  /\ stream[j] = "out"
  /\ \A l \in Loops : ~Holds(l, j)
  /\ stream' = [stream EXCEPT ![j] = "ready"]
  /\ UNCHANGED <<count, deadLettered, loopVars, closed, runs, faults, retries>>

\* The ack wait ends while the delivery waits in a batch, runs in its handler, or
\* sleeps through the client-side delay of nak.
AckWaitOverrun(j) ==
  /\ Fault
  /\ stream[j] = "out"
  /\ \E l \in Loops : Holds(l, j)
  /\ stream' = [stream EXCEPT ![j] = "ready"]
  /\ UNCHANGED <<count, deadLettered, loopVars, closed, runs, retries>>

\* What the broker does with a settlement of any delivery of j.
AckJob(j) == stream' = [stream EXCEPT ![j] = IF @ \in {"ready", "out"} THEN "acked" ELSE @]

TermJob(j) == stream' = [stream EXCEPT ![j] = IF @ \in {"ready", "out"} THEN "termed" ELSE @]

NakJob(j) == stream' = [stream EXCEPT ![j] = IF @ = "out" THEN "ready" ELSE @]

--------------------------------------------------------------------------------
(* The loop: fetch a batch, process its deliveries one after the other. *)

\* The broker answers a fetch with some of the jobs that are ready.
Fetch(l) ==
  /\ pc[l] = "idle" /\ buffer[l] = {} /\ ~closed[l]
  /\ \E sent \in SUBSET {j \in Jobs : stream[j] = "ready"} :
       /\ sent # {} /\ Cardinality(sent) <= FetchBatch
       /\ stream' = [j \in Jobs |-> IF j \in sent THEN "out" ELSE stream[j]]
       /\ count' = [j \in Jobs |-> IF j \in sent THEN count[j] + 1 ELSE count[j]]
       /\ buffer' = [buffer EXCEPT ![l] = {[job |-> j, attempt |-> count[j] + 1] : j \in sent}]
  /\ UNCHANGED <<deadLettered, pc, cur, completed, closed, runs, faults, retries>>

\* Mutant: a delivery is retried once more than the policy allows.
FailureSteps_OffByOne(d) == {"bury"} \cup (IF d.attempt <= MaxAttempts THEN {"nak"} ELSE {})

\* Where _process sends a delivery whose handler threw: nak while the error is
\* retriable and attempts are left, else dead letter and term.
FailureSteps(d) == {"bury"} \cup (IF d.attempt < MaxAttempts THEN {"nak"} ELSE {})

\* _process starts on the next delivery of the batch.
Take(l, d) ==
  /\ pc[l] = "idle" /\ ~closed[l]
  /\ d \in buffer[l]
  /\ buffer' = [buffer EXCEPT ![l] = @ \ {d}]
  /\ cur' = [cur EXCEPT ![l] = d]

RunHandler(l) ==
  /\ \E d \in buffer[l] :
       /\ Take(l, d)
       /\ runs' = [runs EXCEPT ![d.job] = @ + 1]
  /\ pc' = [pc EXCEPT ![l] = "handler"]
  /\ UNCHANGED <<brokerVars, completed, closed, faults, retries>>

\* Mutant: a delivery that does not decode is acked and forgotten.
Undecodable_Acked(l) ==
  /\ \E d \in buffer[l] : Take(l, d)
  /\ pc' = [pc EXCEPT ![l] = "ack"]
  /\ UNCHANGED <<brokerVars, completed, closed, runs, faults, retries>>

\* The headers (_handleMalformedMessage) or the payload (_handleFailure) do not
\* decode, which the default failure classifier never retries.
Undecodable(l) ==
  /\ \E d \in buffer[l] : Take(l, d)
  /\ pc' = [pc EXCEPT ![l] = "bury"]
  /\ UNCHANGED <<brokerVars, completed, closed, runs, faults, retries>>

GoTo(l, step) ==
  /\ pc' = [pc EXCEPT ![l] = step]
  /\ UNCHANGED <<buffer, cur>>

\* Mutant: the next delivery starts with the finished one still in hand.
Done_KeepsDelivery(l) ==
  /\ pc' = [pc EXCEPT ![l] = "idle"]
  /\ completed' = [completed EXCEPT ![l] = FALSE]
  /\ UNCHANGED <<buffer, cur>>

\* _process returns: on to the next delivery of the batch.
Done(l) ==
  /\ pc' = [pc EXCEPT ![l] = "idle"]
  /\ cur' = [cur EXCEPT ![l] = NoDelivery]
  /\ completed' = [completed EXCEPT ![l] = FALSE]
  /\ UNCHANGED buffer

\* _process throws: the catch block of _run drops the rest of the batch.
Abandon(l) ==
  /\ pc' = [pc EXCEPT ![l] = "idle"]
  /\ cur' = [cur EXCEPT ![l] = NoDelivery]
  /\ completed' = [completed EXCEPT ![l] = FALSE]
  /\ buffer' = [buffer EXCEPT ![l] = {}]

\* The dead letters of one publication: none when the policy is disabled.
Copies == IF DeadLetters THEN 1 ELSE 0

AddDeadLetters(l, n) == deadLettered' = [deadLettered EXCEPT ![cur[l].job] = @ + n]

--------------------------------------------------------------------------------
(* The handler and its context.  A handler settles its delivery at most once. *)

ContextAck(l) ==
  /\ pc[l] = "handler" /\ ~completed[l]
  /\ AckJob(cur[l].job)
  /\ completed' = [completed EXCEPT ![l] = TRUE]
  /\ UNCHANGED <<count, deadLettered, pc, buffer, cur, closed, runs, faults, retries>>

\* retry() naks whatever the attempt.
ContextRetry(l) ==
  /\ pc[l] = "handler" /\ ~completed[l]
  /\ retries < MaxRetries
  /\ retries' = retries + 1
  /\ NakJob(cur[l].job)
  /\ completed' = [completed EXCEPT ![l] = TRUE]
  /\ UNCHANGED <<count, deadLettered, pc, buffer, cur, closed, runs, faults>>

\* deadLetter() publishes first, then terms.
ContextDeadLetter(l) ==
  /\ pc[l] = "handler" /\ ~completed[l]
  /\ AddDeadLetters(l, Copies)
  /\ GoTo(l, "ctxTerm")
  /\ UNCHANGED <<stream, count, completed, closed, runs, faults, retries>>

ContextTerm(l) ==
  /\ pc[l] = "ctxTerm"
  /\ TermJob(cur[l].job)
  /\ GoTo(l, "handler")
  /\ completed' = [completed EXCEPT ![l] = TRUE]
  /\ UNCHANGED <<count, deadLettered, closed, runs, faults, retries>>

HandlerReturns(l) ==
  /\ pc[l] = "handler"
  /\ \/ completed[l] /\ Done(l)
     \/ ~completed[l] /\ GoTo(l, "ack") /\ UNCHANGED completed
  /\ UNCHANGED <<brokerVars, closed, runs, faults, retries>>

HandlerThrows(l) ==
  /\ pc[l] = "handler" /\ ~completed[l]
  /\ \E step \in FailureSteps(cur[l]) : GoTo(l, step)
  /\ UNCHANGED <<brokerVars, completed, closed, runs, faults, retries>>

\* The handler throws after it settled the delivery, or deadLetter() throws after
\* its publication: _handleFailure runs without a look at completed.  (A context
\* call that throws before it reached the broker is a plain HandlerThrows.)
HandlerThrowsLate(l) ==
  /\ Fault
  /\ pc[l] = "ctxTerm" \/ (pc[l] = "handler" /\ completed[l])
  /\ \E step \in FailureSteps(cur[l]) : GoTo(l, step)
  /\ UNCHANGED <<brokerVars, completed, closed, runs, retries>>

--------------------------------------------------------------------------------
(* Settlement by the loop. *)

Ack(l) ==
  /\ pc[l] = "ack"
  /\ AckJob(cur[l].job)
  /\ Done(l)
  /\ UNCHANGED <<count, deadLettered, closed, runs, faults, retries>>

\* The acknowledgement throws inside the try block: the successful run is handled
\* as a failure.
AckThrows(l) ==
  /\ Fault
  /\ pc[l] = "ack"
  /\ \E step \in FailureSteps(cur[l]) : GoTo(l, step)
  /\ UNCHANGED <<brokerVars, completed, closed, runs, retries>>

\* Mutant: the loop does not come back from the delay of a nak.
Nak_Hangs(l) ==
  /\ pc[l] = "nak"
  /\ NakJob(cur[l].job)
  /\ UNCHANGED <<count, deadLettered, loopVars, closed, runs, faults, retries>>

Nak(l) ==
  /\ pc[l] = "nak"
  /\ NakJob(cur[l].job)
  /\ Done(l)
  /\ UNCHANGED <<count, deadLettered, closed, runs, faults, retries>>

\* Mutant: the delivery is termed before its dead letter is published.
PublishDeadLetter_TermFirst(l) ==
  /\ pc[l] = "bury"
  /\ IF stream[cur[l].job] \in {"ready", "out"}
       THEN TermJob(cur[l].job) /\ UNCHANGED <<deadLettered, pc>>
       ELSE /\ AddDeadLetters(l, Copies)
            /\ pc' = [pc EXCEPT ![l] = "term"]
            /\ UNCHANGED stream
  /\ UNCHANGED <<count, buffer, cur, completed, closed, runs, faults, retries>>

PublishDeadLetter(l) ==
  /\ pc[l] = "bury"
  /\ AddDeadLetters(l, Copies)
  /\ GoTo(l, "term")
  /\ UNCHANGED <<stream, count, completed, closed, runs, faults, retries>>

\* The publication throws; the broker may have stored the dead letter.
PublishDeadLetterThrows(l) ==
  /\ Fault
  /\ pc[l] = "bury" /\ DeadLetters
  /\ \E stored \in {0, 1} :
       AddDeadLetters(l, stored)
  /\ Abandon(l)
  /\ UNCHANGED <<stream, count, closed, runs, retries>>

\* Mutant: the delivery is nak'ed where it should be termed.
Term_Naks(l) ==
  /\ pc[l] = "term"
  /\ NakJob(cur[l].job)
  /\ Done(l)
  /\ UNCHANGED <<count, deadLettered, closed, runs, faults, retries>>

Term(l) ==
  /\ pc[l] = "term"
  /\ TermJob(cur[l].job)
  /\ Done(l)
  /\ UNCHANGED <<count, deadLettered, closed, runs, faults, retries>>

\* The broker never gets the settlement; the client notices or it does not.
SettlementLost(l) ==
  /\ Fault
  /\ \/ pc[l] \in {"ack", "nak", "term"} /\ Done(l)
     \/ pc[l] \in {"nak", "term"} /\ Abandon(l)
  /\ UNCHANGED <<brokerVars, closed, runs, retries>>

--------------------------------------------------------------------------------
(* Shutdown and crashes. *)

Close(l) ==
  /\ ~closed[l]
  /\ pc[l] # "stopped"
  /\ Fault
  /\ closed' = [closed EXCEPT ![l] = TRUE]
  /\ UNCHANGED <<brokerVars, loopVars, runs, retries>>

\* The loop sees _closed between two deliveries and leaves the rest unsettled.
Stop(l) ==
  /\ closed[l] /\ pc[l] = "idle"
  /\ pc' = [pc EXCEPT ![l] = "stopped"]
  /\ buffer' = [buffer EXCEPT ![l] = {}]
  /\ UNCHANGED <<brokerVars, cur, completed, closed, runs, faults, retries>>

Crash(l) ==
  /\ Fault
  /\ Busy(l) \/ buffer[l] # {}
  /\ pc' = [pc EXCEPT ![l] = "stopped"]
  /\ cur' = [cur EXCEPT ![l] = NoDelivery]
  /\ buffer' = [buffer EXCEPT ![l] = {}]
  /\ completed' = [completed EXCEPT ![l] = FALSE]
  /\ UNCHANGED <<brokerVars, closed, runs, retries>>

\* The replica is replaced and registers its worker again.
Restart(l) ==
  /\ pc[l] = "stopped"
  /\ pc' = [pc EXCEPT ![l] = "idle"]
  /\ closed' = [closed EXCEPT ![l] = FALSE]
  /\ UNCHANGED <<brokerVars, buffer, cur, completed, runs, faults, retries>>

--------------------------------------------------------------------------------
Context(l) ==
  \/ ContextAck(l)
  \/ ContextRetry(l)
  \/ ContextDeadLetter(l)
  \/ ContextTerm(l)

Process(l) ==
  \/ RunHandler(l)
  \/ Undecodable(l)
  \/ Context(l)
  \/ HandlerReturns(l)
  \/ HandlerThrows(l)
  \/ HandlerThrowsLate(l)
  \/ Ack(l)
  \/ AckThrows(l)
  \/ Nak(l)
  \/ PublishDeadLetter(l)
  \/ PublishDeadLetterThrows(l)
  \/ Term(l)
  \/ SettlementLost(l)
  \/ Stop(l)

Next ==
  \/ \E j \in Jobs : Enqueue(j)
  \/ \E j \in Jobs : AckWaitEnds(j)
  \/ \E j \in Jobs : AckWaitOverrun(j)
  \/ \E l \in Loops : Fetch(l)
  \/ \E l \in Loops : Process(l)
  \/ \E l \in Loops : Close(l)
  \/ \E l \in Loops : Crash(l)
  \/ \E l \in Loops : Restart(l)

\* Loops keep running, handlers end, replicas are replaced, the broker's ack wait
\* is finite, and a job that stays ready is among those a fetch returns.
Fairness ==
  /\ \A l \in Loops : WF_vars(Process(l)) /\ WF_vars(Restart(l))
  /\ \A j \in Jobs : WF_vars(AckWaitEnds(j))
  /\ \A j \in Jobs : SF_vars(\E l \in Loops : Fetch(l) /\ stream[j] = "ready" /\ stream'[j] = "out")

Spec == Init /\ [][Next]_vars

FairSpec == Spec /\ Fairness

--------------------------------------------------------------------------------
(* Properties. *)

\* A termed job was published to the
\* dead-letter subject first ("Retry or dead-letter publication must complete
\* before the source delivery is finalized", website/content/transports.ts).
TermedMeansDeadLettered ==
  DeadLetters => \A j \in Jobs : stream[j] = "termed" => deadLettered[j] > 0

\* A job is dead-lettered twice only across a crash, a failed or late call, or a
\* handler that throws after it settled: two loops never both bury one delivery.
DeadLetteredOnce == \A j \in Jobs : deadLettered[j] <= 1 + faults

\* The retry budget: a handler runs more often than maxAttempts only as often as
\* something failed or a handler asked for another run with context.retry().
RunsWithinBudget == \A j \in Jobs : runs[j] <= MaxAttempts + faults + retries

\* No job leaves the queue without a trace, and none is run or buried more often than
\* the policy, the faults and the handlers' own wishes explain.
JobsAccounted == TermedMeansDeadLettered /\ DeadLetteredOnce /\ RunsWithinBudget

\* The queue keeps the at-least-once promise towards the handler: a job is acked
\* only after a handler ran, and acked and termed jobs stay so.
PhaseOf ==
  [j \in Jobs |-> CASE stream[j] = "absent" -> "unsent"
                    [] stream[j] = "acked" -> "settled"
                    [] stream[j] = "termed" -> "buried"
                    [] OTHER -> "owed"]

Promise == INSTANCE AtLeastOnce WITH Messages <- Jobs, phase <- PhaseOf, deliveries <- runs

KeepsPromise == Promise!Spec

\* Every enqueued job is acked or given up in the end, whatever crashes.
EventuallySettled == Promise!EventuallySettled

================================================================================
