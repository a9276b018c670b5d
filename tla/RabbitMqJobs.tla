------------------------------ MODULE RabbitMqJobs ------------------------------
(***************************************************************************)
(* The job workers of RabbitMqMessageBus (podbus_rabbitmq): a job that     *)
(* fails is published again with a higher attempt, or published to the     *)
(* dead-letter exchange, and only then is its delivery acked.  A job may   *)
(* therefore exist in several copies, told apart here by a number.         *)
(*                                                                         *)
(* The broker is external: one queue, a retry queue whose entries expire   *)
(* back into it, and per worker a channel with a prefetch limit.  What is  *)
(* unacked on a channel returns to the queue when the channel goes, and    *)
(* settling a delivery twice is a channel error.                           *)
(***************************************************************************)
EXTENDS Naturals, FiniteSets, Sequences

CONSTANTS
  Jobs,
  Workers,       \* each on a bus, and so a channel, of its own
  Concurrency,   \* worker(concurrency:)
  Prefetch,      \* config.prefetchCount
  MaxAttempts,   \* RetryPolicy.maxAttempts
  DeadLetters,   \* the workers whose DeadLetterPolicy is enabled
  RetryQueues,   \* the workers whose bus has useBrokerRetryQueues, with a delay
  NoCopy,
  MaxFaults,     \* bound on crashes, lost channels, failed calls and late throws
  MaxRetries,    \* bound on explicit context.retry() calls
  MaxCloses      \* bound on the worker.close() and bus.close() calls that start a close

ASSUME RabbitMqAssumption ==
  /\ IsFiniteSet(Workers)
  /\ Concurrency \in Nat \ {0}
  /\ Prefetch \in Nat \ {0}
  /\ MaxAttempts \in Nat \ {0}
  /\ DeadLetters \subseteq Workers
  /\ RetryQueues \subseteq Workers
  /\ MaxFaults \in Nat
  /\ MaxRetries \in Nat
  /\ MaxCloses \in Nat
  /\ NoCopy \notin [job : Jobs, attempt : Nat, copy : Nat]

Copy  == [job : Jobs, attempt : Nat \ {0}, copy : Nat \ {0}]
Tasks == Workers \X (1..Concurrency)

VARIABLES
  ready,      \* broker: copies waiting in the worker queue
  delayed,    \* broker: copies waiting in a TTL retry queue
  unacked,    \* broker: copies delivered on the worker's channel and not settled
  link,       \* broker: the worker's channel is open
  enqueued,   \* the jobs enqueued so far
  gone,       \* history: the jobs acked after a run, dead-lettered or rejected
  stage,      \* per worker: "open"; "closing", "closed" or "failed" by bus.close();
              \* "leaving", "left" or "abandoned" by worker.close() alone
  pending,    \* per worker: the _pending queue
  unhealthy,  \* per worker: the bus has a _lastWorkerError
  pc,         \* per task: what it awaits
  hold,       \* per task: the delivery it processes
  completed,  \* per task: the context's completed flag
  faults,
  retries,
  closes

brokerVars == <<ready, delayed, unacked, link, enqueued>>
workerVars == <<stage, pending, unhealthy>>
taskVars   == <<pc, hold, completed>>
bounds     == <<faults, retries, closes>>
vars       == <<brokerVars, gone, workerVars, taskVars, bounds>>

Pc == {"free", "decode", "handler", "ack", "retry", "bury", "reject", "settle", "ctxAck"}

Stages == {"open", "closing", "closed", "failed", "leaving", "left", "abandoned"}

TasksOf(w) == {t \in Tasks : t[1] = w}

InHand(w) == {pending[w][i] : i \in DOMAIN pending[w]} \cup {hold[t] : t \in TasksOf(w)}

Live(j) == {c \in ready \cup delayed \cup UNION {unacked[w] : w \in Workers} : c.job = j}

TypeOK ==
  /\ ready \cup delayed \subseteq Copy
  /\ unacked \in [Workers -> SUBSET Copy]
  /\ \A w \in Workers : Cardinality(unacked[w]) <= Prefetch
  /\ link \in [Workers -> BOOLEAN]
  /\ gone \subseteq enqueued /\ enqueued \subseteq Jobs
  /\ stage \in [Workers -> Stages]
  /\ pending \in [Workers -> Seq(Copy)]
  /\ unhealthy \in [Workers -> BOOLEAN]
  /\ pc \in [Tasks -> Pc]
  /\ hold \in [Tasks -> Copy \cup {NoCopy}]
  /\ completed \in [Tasks -> BOOLEAN]
  /\ faults \in Nat /\ retries \in Nat /\ closes \in Nat
  /\ \A t \in Tasks : hold[t] = NoCopy <=> pc[t] = "free"
  /\ \A w \in Workers : pending[w] # <<>> => \A t \in TasksOf(w) : pc[t] # "free"
  /\ ready \cap delayed = {}
  /\ \A w \in Workers : unacked[w] \cap (ready \cup delayed) = {}

Init ==
  /\ ready = {} /\ delayed = {}
  /\ unacked = [w \in Workers |-> {}]
  /\ link = [w \in Workers |-> TRUE]
  /\ enqueued = {} /\ gone = {}
  /\ stage = [w \in Workers |-> "open"]
  /\ pending = [w \in Workers |-> <<>>]
  /\ unhealthy = [w \in Workers |-> FALSE]
  /\ pc = [t \in Tasks |-> "free"]
  /\ hold = [t \in Tasks |-> NoCopy]
  /\ completed = [t \in Tasks |-> FALSE]
  /\ faults = 0 /\ retries = 0 /\ closes = 0

Fault == faults < MaxFaults /\ faults' = faults + 1

\* A call fails: something goes wrong, or the channel it needs is gone.
CallFails(w) == IF link[w] THEN Fault ELSE UNCHANGED faults

--------------------------------------------------------------------------------
(* The broker. *)

Enqueue(j) ==
  /\ j \notin enqueued
  /\ enqueued' = enqueued \cup {j}
  /\ ready' = ready \cup {[job |-> j, attempt |-> 1, copy |-> 1]}
  /\ UNCHANGED <<delayed, unacked, link, gone, workerVars, taskVars, bounds>>

\* The TTL of a retry queue ends: its dead-letter exchange is the source exchange.
RetryDue ==
  /\ \E c \in delayed : delayed' = delayed \ {c} /\ ready' = ready \cup {c}
  /\ UNCHANGED <<unacked, link, enqueued, gone, workerVars, taskVars, bounds>>

\* The channel of w closes and the broker takes back what is unacked on it.
ChannelGone(w) ==
  /\ ready' = ready \cup unacked[w]
  /\ unacked' = [unacked EXCEPT ![w] = {}]
  /\ link' = [link EXCEPT ![w] = FALSE]

\* Settling a delivery that is no longer open is a channel error.
Settle(w, c) ==
  IF c \notin unacked[w] /\ link[w]
    THEN ChannelGone(w)
    ELSE unacked' = [unacked EXCEPT ![w] = @ \ {c}] /\ UNCHANGED <<ready, link>>

\* The copies of j that the broker or a worker still knows.
Known(j) ==
  {c \in ready \cup delayed \cup UNION {unacked[w] \cup InHand(w) : w \in Workers} :
     c # NoCopy /\ c.job = j}

\* _rawHeadersWithAttempt: the job with the next attempt, as a copy of its own.
NextCopy(c) ==
  [job |-> c.job, attempt |-> c.attempt + 1,
   copy |-> CHOOSE n \in 1..(Cardinality(Known(c.job)) + 1) :
     \A d \in Known(c.job) : d.copy # n]

\* A settlement that ends the job, if the broker still has the delivery open.
Conclude(w, c) ==
  /\ Settle(w, c)
  /\ gone' = IF c \in unacked[w] THEN gone \cup {c.job} ELSE gone

--------------------------------------------------------------------------------
(* The worker: its delivery listener and _drain. *)

\* The broker sends a copy within the prefetch limit for as long as the consumer is
\* registered, which it is until its close() has waited for the tasks.  The listener hands
\* it to a free task or queues it; once close() has cancelled the listener the
\* broadcast stream drops it.
Deliver(w) ==
  /\ link[w] /\ stage[w] \notin {"closed", "left"}
  /\ Cardinality(unacked[w]) < Prefetch
  /\ \E c \in ready :
       /\ ready' = ready \ {c}
       /\ unacked' = [unacked EXCEPT ![w] = @ \cup {c}]
       /\ \/ /\ stage[w] = "open"
             /\ \E t \in TasksOf(w) :
                  /\ pc[t] = "free"
                  /\ pc' = [pc EXCEPT ![t] = "decode"]
                  /\ hold' = [hold EXCEPT ![t] = c]
             /\ UNCHANGED pending
          \/ /\ stage[w] = "open"
             /\ \A t \in TasksOf(w) : pc[t] # "free"
             /\ pending' = [pending EXCEPT ![w] = Append(@, c)]
             /\ UNCHANGED <<pc, hold>>
          \/ /\ stage[w] # "open"
             /\ UNCHANGED <<pending, pc, hold>>
  /\ UNCHANGED <<delayed, link, enqueued, gone, stage, unhealthy, completed, bounds>>

\* Mutant: a finished task does not start the next delivery.
TaskEnds_NoDrain(t) ==
  /\ completed' = [completed EXCEPT ![t] = FALSE]
  /\ pc' = [pc EXCEPT ![t] = "free"]
  /\ hold' = [hold EXCEPT ![t] = NoCopy]
  /\ UNCHANGED pending

\* The task completes and drains the queue unless the worker is closed.
TaskEnds(t) ==
  LET w == t[1] IN
  /\ completed' = [completed EXCEPT ![t] = FALSE]
  /\ IF stage[w] = "open" /\ pending[w] # <<>>
       THEN /\ pc' = [pc EXCEPT ![t] = "decode"]
            /\ hold' = [hold EXCEPT ![t] = Head(pending[w])]
            /\ pending' = [pending EXCEPT ![w] = Tail(@)]
       ELSE /\ pc' = [pc EXCEPT ![t] = "free"]
            /\ hold' = [hold EXCEPT ![t] = NoCopy]
            /\ UNCHANGED pending

GoTo(t, step) == pc' = [pc EXCEPT ![t] = step] /\ UNCHANGED <<hold, pending>>

LastStep(w) == IF w \in DeadLetters THEN "bury" ELSE "reject"

\* Mutant: a job is retried once more than the policy allows.
FailureSteps_OffByOne(t) == {LastStep(t[1])} \cup (IF hold[t].attempt <= MaxAttempts THEN {"retry"} ELSE {})

\* Where _handleJobFailure goes: retry while the error is retriable and attempts are left.
FailureSteps(t) == {LastStep(t[1])} \cup (IF hold[t].attempt < MaxAttempts THEN {"retry"} ELSE {})

RunHandler(t) ==
  /\ pc[t] = "decode"
  /\ GoTo(t, "handler")
  /\ UNCHANGED <<brokerVars, gone, stage, unhealthy, completed, bounds>>

\* Malformed headers or a payload that does not decode: neither is retried.
Undecodable(t) ==
  /\ pc[t] = "decode"
  /\ GoTo(t, LastStep(t[1]))
  /\ UNCHANGED <<brokerVars, gone, stage, unhealthy, completed, bounds>>

--------------------------------------------------------------------------------
(* The handler and its context.  A handler settles its delivery at most once. *)

ContextAck(t) ==
  /\ pc[t] = "handler" /\ ~completed[t]
  /\ Conclude(t[1], hold[t])
  /\ completed' = [completed EXCEPT ![t] = TRUE]
  /\ UNCHANGED <<delayed, enqueued, workerVars, pc, hold, bounds>>

\* retry() publishes to the source exchange whatever the attempt, then acks.
ContextRetry(t) ==
  /\ pc[t] = "handler" /\ ~completed[t] /\ link[t[1]]
  /\ retries < MaxRetries
  /\ retries' = retries + 1
  /\ ready' = ready \cup {NextCopy(hold[t])}
  /\ GoTo(t, "ctxAck")
  /\ UNCHANGED <<delayed, unacked, link, enqueued, gone, stage, unhealthy, completed, faults, closes>>

\* deadLetter() publishes unless the policy is disabled, then acks.
ContextDeadLetter(t) ==
  /\ pc[t] = "handler" /\ ~completed[t] /\ link[t[1]]
  /\ gone' = gone \cup {hold[t].job}
  /\ GoTo(t, "ctxAck")
  /\ UNCHANGED <<brokerVars, stage, unhealthy, completed, bounds>>

ContextSettles(t) ==
  /\ pc[t] = "ctxAck"
  /\ Settle(t[1], hold[t])
  /\ GoTo(t, "handler")
  /\ completed' = [completed EXCEPT ![t] = TRUE]
  /\ UNCHANGED <<delayed, enqueued, gone, stage, unhealthy, bounds>>

HandlerReturns(t) ==
  /\ pc[t] = "handler"
  /\ \/ completed[t] /\ TaskEnds(t)
     \/ ~completed[t] /\ GoTo(t, "ack") /\ UNCHANGED completed
  /\ UNCHANGED <<brokerVars, gone, stage, unhealthy, bounds>>

HandlerThrows(t) ==
  /\ pc[t] = "handler" /\ ~completed[t]
  /\ \E step \in FailureSteps(t) : GoTo(t, step)
  /\ UNCHANGED <<brokerVars, gone, stage, unhealthy, completed, bounds>>

\* The handler throws after it settled its delivery, or a context call throws after
\* its publication: the failure is handled without a look at completed.
HandlerThrowsLate(t) ==
  /\ Fault
  /\ pc[t] = "ctxAck" \/ (pc[t] = "handler" /\ completed[t])
  /\ \E step \in FailureSteps(t) : GoTo(t, step)
  /\ UNCHANGED <<brokerVars, gone, stage, unhealthy, completed, retries, closes>>

--------------------------------------------------------------------------------
(* Settlement by the task. *)

Ack(t) ==
  /\ pc[t] = "ack"
  /\ Conclude(t[1], hold[t])
  /\ TaskEnds(t)
  /\ UNCHANGED <<delayed, enqueued, stage, unhealthy, bounds>>

\* The ack throws inside the try block: the successful run is handled as a failure.
AckThrows(t) ==
  /\ pc[t] = "ack"
  /\ CallFails(t[1])
  /\ \E step \in FailureSteps(t) : GoTo(t, step)
  /\ UNCHANGED <<brokerVars, gone, stage, unhealthy, completed, retries, closes>>

\* Mutant: the delivery is acked before its retry is published.
PublishRetry_AckFirst(t) ==
  /\ pc[t] = "retry" /\ link[t[1]]
  /\ IF hold[t] \in unacked[t[1]]
       THEN Settle(t[1], hold[t]) /\ UNCHANGED <<delayed, enqueued, pc>>
       ELSE /\ ready' = ready \cup {NextCopy(hold[t])}
            /\ pc' = [pc EXCEPT ![t] = "settle"]
            /\ UNCHANGED <<delayed, unacked, link>>
  /\ UNCHANGED <<gone, workerVars, hold, completed, bounds>>

\* The retry is stored in the retry queue, or after a sleep in the worker queue, and
\* confirmed.
PublishRetry(t) ==
  /\ pc[t] = "retry" /\ link[t[1]]
  /\ IF t[1] \in RetryQueues
       THEN delayed' = delayed \cup {NextCopy(hold[t])} /\ UNCHANGED ready
       ELSE ready' = ready \cup {NextCopy(hold[t])} /\ UNCHANGED delayed
  /\ GoTo(t, "settle")
  /\ UNCHANGED <<unacked, link, enqueued, gone, stage, unhealthy, completed, bounds>>

PublishDeadLetter(t) ==
  /\ pc[t] = "bury" /\ link[t[1]]
  /\ gone' = gone \cup {hold[t].job}
  /\ GoTo(t, "settle")
  /\ UNCHANGED <<brokerVars, stage, unhealthy, completed, bounds>>

\* Mutant: the failure of the failure handling is swallowed.
ReportError_Swallowed(w) == UNCHANGED unhealthy

\* _recordWorkerError
ReportError(w) == unhealthy' = [unhealthy EXCEPT ![w] = TRUE]

\* A publication is refused, returned as unroutable, or not confirmed in time, in
\* which case the broker may have stored it.  The task reports the error and ends: its
\* delivery stays unacked.
PublishThrows(t) ==
  /\ pc[t] \in {"retry", "bury"}
  /\ CallFails(t[1])
  /\ \/ UNCHANGED <<brokerVars, gone>>
     \/ /\ pc[t] = "retry" /\ link[t[1]]
        /\ IF t[1] \in RetryQueues
             THEN delayed' = delayed \cup {NextCopy(hold[t])} /\ UNCHANGED ready
             ELSE ready' = ready \cup {NextCopy(hold[t])} /\ UNCHANGED delayed
        /\ UNCHANGED <<unacked, link, enqueued, gone>>
     \/ /\ pc[t] = "bury" /\ link[t[1]]
        /\ gone' = gone \cup {hold[t].job}
        /\ UNCHANGED brokerVars
  /\ ReportError(t[1])
  /\ TaskEnds(t)
  /\ UNCHANGED <<stage, retries, closes>>

\* Mutant: the delivery is not acked after its publication.
SettleDelivery_NoAck(t) ==
  /\ pc[t] = "settle"
  /\ TaskEnds(t)
  /\ UNCHANGED <<brokerVars, gone, stage, unhealthy, bounds>>

\* The ack that follows the publication.
SettleDelivery(t) ==
  /\ pc[t] = "settle"
  /\ Settle(t[1], hold[t])
  /\ TaskEnds(t)
  /\ UNCHANGED <<delayed, enqueued, gone, stage, unhealthy, bounds>>

\* nack(requeue: false) hands the delivery to the queue's dead-letter exchange.
Reject(t) ==
  /\ pc[t] = "reject"
  /\ Conclude(t[1], hold[t])
  /\ TaskEnds(t)
  /\ UNCHANGED <<delayed, enqueued, stage, unhealthy, bounds>>

\* An ack or nack of the failure handling throws.
SettleThrows(t) ==
  /\ pc[t] \in {"settle", "reject"}
  /\ CallFails(t[1])
  /\ ReportError(t[1])
  /\ TaskEnds(t)
  /\ UNCHANGED <<brokerVars, gone, stage, retries, closes>>

--------------------------------------------------------------------------------
(* Shutdown, lost channels, crashes. *)

\* worker.close(), called for itself or by bus.close(), cancels the listener and gives
\* the queued deliveries back.
CloseStart(w) ==
  /\ stage[w] = "open"
  /\ closes < MaxCloses
  /\ closes' = closes + 1
  /\ \E s \in {"closing", "leaving"} : stage' = [stage EXCEPT ![w] = s]
  /\ LET back == {pending[w][i] : i \in DOMAIN pending[w]} \cap unacked[w] IN
       /\ ready' = ready \cup back
       /\ unacked' = [unacked EXCEPT ![w] = @ \ back]
  /\ pending' = [pending EXCEPT ![w] = <<>>]
  /\ UNCHANGED <<delayed, link, enqueued, gone, unhealthy, taskVars, faults, retries>>

\* The tasks are done: the consumer is cancelled at the broker.  What it was sent in
\* the meantime stays unacked on the channel.
CloseEnds(w) ==
  /\ \A t \in TasksOf(w) : pc[t] = "free"
  /\ \/ stage[w] = "closing" /\ stage' = [stage EXCEPT ![w] = "closed"]
     \/ stage[w] = "leaving" /\ stage' = [stage EXCEPT ![w] = "left"]
  /\ UNCHANGED <<brokerVars, gone, pending, unhealthy, taskVars, bounds>>

\* shutdownTimeout ends first: close() throws and the consumer stays.
CloseTimesOut(w) ==
  /\ Fault
  /\ \E t \in TasksOf(w) : pc[t] # "free"
  /\ \/ stage[w] = "closing" /\ stage' = [stage EXCEPT ![w] = "failed"]
     \/ stage[w] = "leaving" /\ stage' = [stage EXCEPT ![w] = "abandoned"]
  /\ UNCHANGED <<brokerVars, gone, pending, unhealthy, taskVars, retries, closes>>

\* bus.close() of a worker closed before: its close() returns at once, so tasks that
\* still run are not waited for, which counts as a fault.
BusClose(w) ==
  /\ \/ stage[w] = "left" /\ stage' = [stage EXCEPT ![w] = "closed"] /\ UNCHANGED faults
     \/ stage[w] = "abandoned" /\ stage' = [stage EXCEPT ![w] = "failed"] /\ UNCHANGED faults
     \/ stage[w] = "leaving" /\ stage' = [stage EXCEPT ![w] = "failed"] /\ Fault
  /\ UNCHANGED <<brokerVars, gone, pending, unhealthy, taskVars, retries, closes>>

\* bus.close() goes on to close the adapter, whatever the worker's close() did.
AdapterCloses(w) ==
  /\ link[w] /\ stage[w] \in {"closed", "failed"}
  /\ ChannelGone(w)
  /\ UNCHANGED <<delayed, enqueued, gone, workerVars, taskVars, bounds>>

\* The channel is lost under a running worker, whose stream reports an error.
ChannelLost(w) ==
  /\ Fault
  /\ link[w]
  /\ ChannelGone(w)
  /\ ReportError(w)
  /\ UNCHANGED <<delayed, enqueued, gone, stage, pending, taskVars, retries, closes>>

Crash(w) ==
  /\ Fault
  /\ link[w]
  /\ ChannelGone(w)
  /\ pending' = [pending EXCEPT ![w] = <<>>]
  /\ pc' = [t \in Tasks |-> IF t[1] = w THEN "free" ELSE pc[t]]
  /\ hold' = [t \in Tasks |-> IF t[1] = w THEN NoCopy ELSE hold[t]]
  /\ completed' = [t \in Tasks |-> IF t[1] = w THEN FALSE ELSE completed[t]]
  /\ UNCHANGED <<delayed, enqueued, gone, stage, unhealthy, retries, closes>>

\* Mutant: an unhealthy replica is left alone while its channel is open.
NeedsReplacing_DeadOnly(w) == ~link[w]

\* What healthCheck() reports.
NeedsReplacing(w) == ~link[w] \/ unhealthy[w]

\* A replica that lost its channel or reports itself unhealthy is replaced; connect()
\* and worker() start afresh.
Replace(w) ==
  /\ NeedsReplacing(w)
  /\ ready' = ready \cup unacked[w]
  /\ unacked' = [unacked EXCEPT ![w] = {}]
  /\ link' = [link EXCEPT ![w] = TRUE]
  /\ stage' = [stage EXCEPT ![w] = "open"]
  /\ unhealthy' = [unhealthy EXCEPT ![w] = FALSE]
  /\ pending' = [pending EXCEPT ![w] = <<>>]
  /\ pc' = [t \in Tasks |-> IF t[1] = w THEN "free" ELSE pc[t]]
  /\ hold' = [t \in Tasks |-> IF t[1] = w THEN NoCopy ELSE hold[t]]
  /\ completed' = [t \in Tasks |-> IF t[1] = w THEN FALSE ELSE completed[t]]
  /\ UNCHANGED <<delayed, enqueued, gone, bounds>>

--------------------------------------------------------------------------------
Process(t) ==
  \/ RunHandler(t)
  \/ Undecodable(t)
  \/ ContextAck(t)
  \/ ContextRetry(t)
  \/ ContextDeadLetter(t)
  \/ ContextSettles(t)
  \/ HandlerReturns(t)
  \/ HandlerThrows(t)
  \/ HandlerThrowsLate(t)
  \/ Ack(t)
  \/ AckThrows(t)
  \/ PublishRetry(t)
  \/ PublishDeadLetter(t)
  \/ PublishThrows(t)
  \/ SettleDelivery(t)
  \/ Reject(t)
  \/ SettleThrows(t)

Shutdown(w) ==
  \/ CloseEnds(w)
  \/ AdapterCloses(w)
  \/ Replace(w)

Next ==
  \/ \E j \in Jobs : Enqueue(j)
  \/ RetryDue
  \/ \E w \in Workers : Deliver(w)
  \/ \E t \in Tasks : Process(t)
  \/ \E w \in Workers : Shutdown(w)
  \/ \E w \in Workers : CloseStart(w)
  \/ \E w \in Workers : CloseTimesOut(w)
  \/ \E w \in Workers : BusClose(w)
  \/ \E w \in Workers : ChannelLost(w)
  \/ \E w \in Workers : Crash(w)

Fairness ==
  /\ WF_vars(RetryDue)
  /\ \A w \in Workers : WF_vars(Deliver(w)) /\ WF_vars(Shutdown(w))
  /\ \A t \in Tasks : WF_vars(Process(t))

Spec == Init /\ [][Next]_vars

FairSpec == Spec /\ Fairness

--------------------------------------------------------------------------------
(* Properties. *)

\* No job is lost: it is somewhere in the broker until it is acked after a run,
\* dead-lettered or rejected.  _handleJobFailure publishes before it acks, so this
\* holds across crashes, lost channels and unconfirmed publications.
NothingVanishes ==
  \A j \in Jobs : j \in enqueued => Live(j) # {} \/ j \in gone

\* Without faults a job is one copy or one fate, apart from the moment between a
\* publication and the ack of the delivery it replaces.
OneCopyOrFate ==
  faults = 0 => \A j \in Jobs : j \in enqueued =>
    Cardinality(Live(j)) + Cardinality({j} \cap gone) =
      1 + Cardinality({t \in Tasks : pc[t] \in {"settle", "ctxAck"} /\ hold[t].job = j})

\* Copies climb no higher than the policy's attempts, except as often as a handler
\* asked for it: retry() does not look at maxAttempts.
AttemptsWithinPolicy ==
  \A j \in Jobs : \A c \in Live(j) : c.attempt <= MaxAttempts + retries

\* No job is lost, is doubled without a fault or outlives the policy, whatever
\* becomes of workers, channels and confirms.
JobsAccounted == NothingVanishes /\ OneCopyOrFate /\ AttemptsWithinPolicy

\* A delivery that an open worker holds at the broker and no longer works on is seen
\* by the health check ("the original delivery is left unacked and the health check
\* records the failure", docs/rabbitmq.md:42-43).
StuckIsReported ==
  \A w \in Workers :
    stage[w] = "open" /\ unacked[w] \ InHand(w) # {} => unhealthy[w]

\* The copies left of j lie on the channels of workers whose bus stays open.
Stranded(j) ==
  /\ Live(j) # {}
  /\ \A c \in Live(j) : \E w \in Workers : stage[w] \in {"left", "abandoned"} /\ c \in unacked[w]

\* Every enqueued job leaves the queue by one of its ways, or is kept by a worker that
\* was closed on a bus that nobody closes.
EventuallySettled ==
  \A j \in Jobs : j \in enqueued ~> j \in gone \/ Stranded(j)

================================================================================
