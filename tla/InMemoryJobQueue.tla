---------------------------- MODULE InMemoryJobQueue ----------------------------
(***************************************************************************)
(* InMemoryDurableJobQueue (podbus_core): one topic, its workers, its      *)
(* timers and the close/connect life cycle.                                *)
(*                                                                         *)
(* Dart runs one callback at a time, so everything between two awaits is   *)
(* one step.  What interleaves is what the code awaits: the idempotency    *)
(* claim inside enqueue, the handlers, the timers and the drain of close.  *)
(***************************************************************************)
EXTENDS Naturals, Sequences, FiniteSets, Bags

BagOps == INSTANCE BagsExt

CONSTANTS
  Jobs,
  Workers,       \* worker handles; a closed one never comes back
  Slots,         \* [worker, index]: one per invocation a worker may run at once
  Idle,          \* a slot without a job
  MaxAttempts,   \* RetryPolicy.maxAttempts
  DeadLetters,   \* DeadLetterPolicy.enabled
  MaxFaults,     \* bound on handlers that throw after they settled the job
  MaxRetries,    \* bound on explicit context.retry() calls
  MaxCloses,     \* bound on calls of close()
  MaxExtras      \* bound on the three together

\* attempt: executions so far; later: runAt lies in the future.
Entry == [job : Jobs, attempt : Nat, later : BOOLEAN]
Run   == [job : Jobs, attempt : Nat, completed : BOOLEAN]

ASSUME QueueAssumption ==
  /\ Idle \notin Run
  /\ IsFiniteSet(Slots)
  /\ \A s \in Slots : s.worker \in Workers
  /\ MaxAttempts \in Nat \ {0}
  /\ DeadLetters \in BOOLEAN
  /\ MaxFaults \in Nat
  /\ MaxRetries \in Nat
  /\ MaxCloses \in Nat
  /\ MaxExtras \in Nat

VARIABLES
  connected, closing,   \* the two flags of the queue
  closer,        \* per call of close(): "none", "draining", "failing" (draining, and an
                 \* awaited task threw), "closed", "failed" or "timeout"
  awaited,       \* per call of close(): the slots whose tasks it still waits for
  jobs,          \* _jobsByTopic[topic]
  retries,       \* armed retry timers, a bag of queue entries
  wakeup,        \* a timer for a job in the future is armed
  worker,        \* "new", "open", "closed"; "orphaned": open, but not in _workers
  task,          \* [Slots -> running invocation or Idle]
  producer,      \* enqueue(j): "new", "claimed" (past its await), "done"
  fate,          \* history: the first thing that became of the job
  reopened,      \* history: the calls of close() made before the latest connect()
  faults, explicit, closes

Calls == 1..MaxCloses

lifeVars == <<connected, closing, closer, awaited, reopened>>
vars == <<lifeVars, jobs, retries, wakeup, worker, task, producer, fate, faults, explicit, closes>>

TypeOK ==
  /\ connected \in BOOLEAN /\ closing \in BOOLEAN
  /\ closer \in [Calls -> {"none", "draining", "failing", "closed", "failed", "timeout"}]
  /\ awaited \in [Calls -> SUBSET Slots]
  /\ jobs \in Seq(Entry)
  /\ BagToSet(retries) \subseteq Entry
  /\ wakeup \in BOOLEAN
  /\ worker \in [Workers -> {"new", "open", "closed", "orphaned"}]
  /\ task \in [Slots -> Run \cup {Idle}]
  /\ producer \in [Jobs -> {"new", "claimed", "done"}]
  /\ fate \in [Jobs -> {"none", "acked", "buried", "dropped", "discarded"}]
  /\ faults \in Nat /\ explicit \in Nat
  /\ closes \in 0..MaxCloses /\ reopened \in 0..closes
  /\ \A c \in Calls : awaited[c] # {} => closer[c] \in {"draining", "failing"}
  /\ \A s \in Slots : task[s] # Idle => worker[s.worker] # "new"

Init ==
  /\ connected = FALSE /\ closing = FALSE
  /\ closer = [c \in Calls |-> "none"]
  /\ awaited = [c \in Calls |-> {}]
  /\ jobs = <<>>
  /\ retries = EmptyBag
  /\ wakeup = FALSE
  /\ worker = [w \in Workers |-> "new"]
  /\ task = [s \in Slots |-> Idle]
  /\ producer = [j \in Jobs |-> "new"]
  /\ fate = [j \in Jobs |-> "none"]
  /\ faults = 0 /\ explicit = 0 /\ closes = 0 /\ reopened = 0

\* _ensureConnected
Usable == connected /\ ~closing

Extra == faults + explicit + closes < MaxExtras

--------------------------------------------------------------------------------
(* _drainTopic: start the jobs at the head of the queue on free workers. *)

\* How many jobs at the head of q are not in the future.
Due(q) == Cardinality({n \in 1..Len(q) : \A i \in 1..n : ~q[i].later})

Lesser(m, n) == IF m <= n THEN m ELSE n

\* The queue is q, run are the invocations that go on and armed says whether a
\* wake-up timer is left; workers and flags are those after the step.  Round
\* robin is some choice among the workers with an invocation to spare.
Drain(q, run, armed) ==
  LET free == {s \in Slots : worker'[s.worker] = "open" /\ run[s] = Idle}
      n    == IF Usable' THEN Lesser(Due(q), Cardinality(free)) ELSE 0
  IN  \E slot \in [1..n -> free] :
        /\ \A i, k \in 1..n : slot[i] = slot[k] => i = k
        /\ jobs' = SubSeq(q, n + 1, Len(q))
        /\ task' = [s \in Slots |->
                      IF \E i \in 1..n : slot[i] = s
                        THEN LET e == q[CHOOSE i \in 1..n : slot[i] = s]
                             IN  [job |-> e.job, attempt |-> e.attempt + 1, completed |-> FALSE]
                        ELSE run[s]]
        /\ wakeup' = (armed \/ (Usable' /\ n < Len(q) /\ n < Cardinality(free)))

\* The job meets fate f unless it met one before.
Meets(j, f) == fate' = [fate EXCEPT ![j] = IF @ = "none" THEN f ELSE @]

Discard(gone) ==
  fate' = [j \in Jobs |-> IF j \in gone /\ fate[j] = "none" THEN "discarded" ELSE fate[j]]

--------------------------------------------------------------------------------
(* Producers and timers. *)

\* enqueue checks the connection, then awaits the idempotency claim.
EnqueueStart(j) ==
  /\ producer[j] = "new"
  /\ Usable
  /\ producer' = [producer EXCEPT ![j] = "claimed"]
  /\ UNCHANGED <<lifeVars, jobs, retries, wakeup, worker, task, fate, faults, explicit, closes>>

\* The claim was granted; the connection is not checked again.
EnqueueFinish(j) ==
  /\ producer[j] = "claimed"
  /\ producer' = [producer EXCEPT ![j] = "done"]
  /\ UNCHANGED <<lifeVars, retries, worker, fate, faults, explicit, closes>>
  /\ \E later \in BOOLEAN :
       Drain(Append(jobs, [job |-> j, attempt |-> 0, later |-> later]), task, wakeup)

\* The clock reaches the runAt of the i-th queued job.
BecomeDue(i) ==
  /\ i \in DOMAIN jobs
  /\ jobs[i].later
  /\ jobs' = [jobs EXCEPT ![i].later = FALSE]
  /\ UNCHANGED <<lifeVars, retries, wakeup, worker, task, producer, fate, faults, explicit, closes>>

\* The timer armed for the runAt of the first job fires.
WakeUp ==
  /\ wakeup
  /\ jobs # <<>> => ~jobs[1].later
  /\ UNCHANGED <<lifeVars, retries, worker, producer, fate, faults, explicit, closes>>
  /\ Drain(jobs, task, FALSE)

\* A retry timer fires: its job is queued again, or lost when the queue is closed.
RetryFires(e) ==
  /\ BagIn(e, retries)
  /\ retries' = BagOps!BagRemove(retries, e)
  /\ UNCHANGED <<lifeVars, worker, producer, faults, explicit, closes>>
  /\ IF Usable
       THEN Drain(Append(jobs, e), task, wakeup) /\ UNCHANGED fate
       ELSE Discard({e.job}) /\ UNCHANGED <<jobs, task, wakeup>>

--------------------------------------------------------------------------------
(* _process, from the return of the handler on. *)

\* copyForAttempt: the copy counts this execution and is due at once.
RetryOf(s) == [job |-> task[s].job, attempt |-> task[s].attempt, later |-> FALSE]

\* Mutant: no timer is armed on a queue that is closing.
Schedule_OpenOnly(s) ==
  retries' = IF Usable THEN BagOps!BagAdd(retries, RetryOf(s)) ELSE retries

\* _schedule arms the timer whatever the state of the queue.
Schedule(s) ==
  retries' = BagOps!BagAdd(retries, RetryOf(s))

\* The task of the slot is over: no close() waits for it any more, and those that
\* did will throw what it threw.
LeaveTask(s, throws) ==
  /\ awaited' = [c \in Calls |-> awaited[c] \ {s}]
  /\ closer' = [c \in Calls |-> IF throws /\ s \in awaited[c] THEN "failing" ELSE closer[c]]
  /\ UNCHANGED <<connected, closing, reopened, closes>>

\* Mutant: the queue is not drained again when an invocation ends.
EndTask_NoDrain(s, throws) ==
  /\ LeaveTask(s, throws)
  /\ task' = [task EXCEPT ![s] = Idle]
  /\ UNCHANGED <<jobs, wakeup, worker, producer>>

\* The invocation is over, with an exception of its own or not, and the queue is
\* drained again.
EndTask(s, throws) ==
  /\ LeaveTask(s, throws)
  /\ UNCHANGED <<worker, producer>>
  /\ Drain(jobs, [task EXCEPT ![s] = Idle], wakeup)

\* Mutant: the job is acknowledged although the handler asked for a retry.
HandlerReturns_Acks(s) ==
  /\ task[s] # Idle
  /\ Meets(task[s].job, "acked")
  /\ UNCHANGED <<retries, faults, explicit>>
  /\ EndTask(s, FALSE)

HandlerReturns(s) ==
  /\ task[s] # Idle
  /\ IF task[s].completed THEN UNCHANGED fate ELSE Meets(task[s].job, "acked")
  /\ UNCHANGED <<retries, faults, explicit>>
  /\ EndTask(s, FALSE)

\* Mutant: a failed job is retried once more than the policy allows.
RetryLeft_OffByOne(attempt) == attempt <= MaxAttempts

RetryLeft(attempt) == attempt < MaxAttempts

\* Dead-lettering is an enqueue, which throws on a queue that is not connected.
GiveUp(s) ==
  /\ Meets(task[s].job, IF ~DeadLetters THEN "dropped"
                        ELSE IF Usable THEN "buried" ELSE "discarded")
  /\ UNCHANGED retries

\* _handleFailure, which does not look at completed.  The error may not be one
\* to retry.
HandlerThrows(s) ==
  /\ task[s] # Idle
  /\ \/ ~task[s].completed /\ UNCHANGED faults
     \/ task[s].completed /\ faults < MaxFaults /\ Extra /\ faults' = faults + 1
  /\ UNCHANGED explicit
  /\ \/ RetryLeft(task[s].attempt) /\ Schedule(s) /\ UNCHANGED fate /\ EndTask(s, FALSE)
     \/ GiveUp(s) /\ EndTask(s, DeadLetters /\ ~Usable)

Complete(s) ==
  /\ task[s] # Idle
  /\ ~task[s].completed
  /\ task' = [task EXCEPT ![s].completed = TRUE]
  /\ UNCHANGED <<lifeVars, jobs, wakeup, worker, producer, faults, closes>>

ContextAck(s) ==
  /\ Complete(s)
  /\ Meets(task[s].job, "acked")
  /\ UNCHANGED <<retries, explicit>>

\* retry() arms the timer whatever the attempt.
ContextRetry(s) ==
  /\ Complete(s)
  /\ explicit < MaxRetries /\ Extra
  /\ explicit' = explicit + 1
  /\ Schedule(s)
  /\ UNCHANGED fate

\* deadLetter() marks the job as completed before it enqueues the dead letter: on a
\* queue that is not connected it throws, and a handler that swallows the exception
\* discards the job.  One that lets it through is HandlerThrows.
ContextDeadLetter(s) ==
  /\ Complete(s)
  /\ GiveUp(s)
  /\ UNCHANGED explicit

--------------------------------------------------------------------------------
(* Workers and the life cycle of the queue. *)

OpenWorker(w) ==
  /\ worker[w] = "new"
  /\ Usable
  /\ worker' = [worker EXCEPT ![w] = "open"]
  /\ UNCHANGED <<lifeVars, retries, producer, fate, faults, explicit, closes>>
  /\ Drain(jobs, task, wakeup)

\* Its running handlers go on.
CloseWorker(w) ==
  /\ worker[w] \in {"open", "orphaned"}
  /\ worker' = [worker EXCEPT ![w] = "closed"]
  /\ UNCHANGED <<lifeVars, jobs, retries, wakeup, task, producer, fate, faults, explicit, closes>>

\* connect() does not wait for a close() that is still draining.
Connect ==
  /\ ~Usable
  /\ connected' = TRUE
  /\ closing' = FALSE
  /\ reopened' = closes
  /\ UNCHANGED <<closer, awaited, retries, worker, producer, fate, faults, explicit, closes>>
  /\ Drain(jobs, task, wakeup)

Draining(c) == closer[c] \in {"draining", "failing"}

Shut ==
  /\ connected \/ closing
  /\ closing' = TRUE
  /\ connected' = FALSE
  /\ retries' = EmptyBag
  /\ Discard({e.job : e \in BagToSet(retries)})
  /\ wakeup' = FALSE
  /\ worker' = [w \in Workers |-> IF worker[w] = "open" THEN "closed" ELSE worker[w]]

\* Mutant: close does not wait for the active tasks.
CloseStart_NoWait ==
  /\ closes < MaxCloses /\ Extra
  /\ closes' = closes + 1
  /\ Shut
  /\ closer' = [closer EXCEPT ![closes + 1] = "draining"]
  /\ UNCHANGED <<awaited, jobs, task, producer, reopened, faults, explicit>>

\* The synchronous part of close(): flags, timers and workers, and the tasks it will
\* wait for.  Another close() may be draining still: one that finds closing set
\* drains as well.
CloseStart ==
  /\ closes < MaxCloses /\ Extra
  /\ closes' = closes + 1
  /\ Shut
  /\ closer' = [closer EXCEPT ![closes + 1] = "draining"]
  /\ awaited' = [awaited EXCEPT ![closes + 1] = {s \in Slots : task[s] # Idle}]
  /\ UNCHANGED <<jobs, task, producer, reopened, faults, explicit>>

\* All awaited tasks are over: close() clears whatever it finds, or throws what
\* one of the tasks threw.
CloseEnds(c) ==
  /\ awaited[c] = {}
  /\ \/ /\ closer[c] = "draining"
        /\ closer' = [closer EXCEPT ![c] = "closed"]
        /\ closing' = FALSE
        /\ jobs' = <<>>
        /\ Discard({jobs[i].job : i \in DOMAIN jobs})
        /\ worker' = [w \in Workers |-> IF worker[w] = "open" THEN "orphaned" ELSE worker[w]]
     \/ /\ closer[c] = "failing"
        /\ closer' = [closer EXCEPT ![c] = "failed"]
        /\ UNCHANGED <<closing, jobs, fate, worker>>
  /\ UNCHANGED <<connected, awaited, reopened, retries, wakeup, task, producer, faults,
                 explicit, closes>>

GiveUpWaiting(c) ==
  /\ Draining(c)
  /\ awaited[c] # {}
  /\ closer' = [closer EXCEPT ![c] = "timeout"]
  /\ UNCHANGED <<connected, closing, reopened, jobs, retries, wakeup, worker, task, producer,
                 fate, faults, explicit, closes>>

\* Mutant: the tasks of a close that gave up are still awaited.
CloseTimesOut_KeepsAwaited(c) == GiveUpWaiting(c) /\ UNCHANGED awaited

CloseTimesOut(c) == GiveUpWaiting(c) /\ awaited' = [awaited EXCEPT ![c] = {}]

--------------------------------------------------------------------------------
Handler(s) ==
  \/ HandlerReturns(s)
  \/ HandlerThrows(s)

Context(s) ==
  \/ ContextAck(s)
  \/ ContextRetry(s)
  \/ ContextDeadLetter(s)

Next ==
  \/ \E j \in Jobs : EnqueueStart(j)
  \/ \E j \in Jobs : EnqueueFinish(j)
  \/ \E i \in DOMAIN jobs : BecomeDue(i)
  \/ WakeUp
  \/ \E e \in BagToSet(retries) : RetryFires(e)
  \/ \E s \in Slots : Context(s)
  \/ \E s \in Slots : Handler(s)
  \/ \E w \in Workers : OpenWorker(w)
  \/ \E w \in Workers : CloseWorker(w)
  \/ Connect
  \/ CloseStart
  \/ \E c \in Calls : CloseEnds(c)
  \/ \E c \in Calls : CloseTimesOut(c)

\* What the event loop, the clock and the application sooner or later do: end the
\* handlers, fire the timers, connect the queue and register its workers.
Progress ==
  \/ \E s \in Slots : Handler(s)
  \/ \E e \in BagToSet(retries) : RetryFires(e)
  \/ BecomeDue(1)
  \/ WakeUp
  \/ \E w \in Workers : OpenWorker(w)
  \/ Connect
  \/ \E c \in Calls : CloseEnds(c)

\* The event loop is not idle for ever while one of these is ready.  It need not
\* be fair to each: the weaker assumption is enough.
Fairness == WF_vars(Progress)

Spec == Init /\ [][Next]_vars

FairSpec == Spec /\ Fairness

--------------------------------------------------------------------------------
(* Properties. *)

Queued(q, j) == {i \in DOMAIN q : q[i].job = j}

\* The armed timers of j, those that equal each other told apart by a number.
Timers(j) == UNION {{e} \X (1..retries[e]) : e \in {x \in BagToSet(retries) : x.job = j}}

Running(run, j) == {s \in Slots : run[s] # Idle /\ run[s].job = j /\ ~run[s].completed}

\* The copies of j that can still run or are running undecided.
Copies(j) ==
  Cardinality(Queued(jobs, j)) + Cardinality(Timers(j)) + Cardinality(Running(task, j))

\* The job waits in the queue or for a timer, or a handler runs it undecided.
Underway(j) ==
  \/ \E i \in DOMAIN jobs : jobs[i].job = j
  \/ \E e \in BagToSet(retries) : e.job = j
  \/ \E s \in Slots : task[s] # Idle /\ task[s].job = j /\ ~task[s].completed

\* No job vanishes: an accepted job waits, runs, or was acknowledged, dead-lettered,
\* dropped for want of a dead-letter topic, or discarded by close().
NothingVanishes ==
  \A j \in Jobs : producer[j] = "done" /\ fate[j] = "none" => Underway(j)

\* A job has one copy or one fate; only a handler that throws after it settled the
\* job brings a second one into being (_handleFailure ignores completed).
OneCopyOrFate ==
  \A j \in Jobs : Copies(j) + (IF fate[j] = "none" THEN 0 ELSE 1) <= 1 + faults

\* No delivery exceeds the retry policy but for explicit context.retry() calls.
AttemptsWithinPolicy ==
  \A s \in Slots : task[s] # Idle => task[s].attempt <= MaxAttempts + explicit

\* No job vanishes, is doubled or outlives its retry policy, whatever handlers,
\* contexts, timers, workers and close() do in between.
JobsAccounted == NothingVanishes /\ OneCopyOrFate /\ AttemptsWithinPolicy

\* When close() has returned, no handler runs until the next connect ("Drains
\* active handlers and closes the queue", website/content/reference.ts:44), also
\* when two calls overlap or follow one that gave up.
ClosedIsQuiet ==
  \A c \in Calls : c > reopened /\ closer[c] = "closed" => \A s \in Slots : task[s] = Idle

\* Every accepted job meets its fate as long as the application has a worker: no
\* wake-up is ever lost between enqueue, timers, workers and the end of a task.
EventuallyMeetsFate ==
  \A j \in Jobs :
    producer[j] = "done" ~>
      fate[j] # "none" \/ \A w \in Workers : worker[w] \in {"closed", "orphaned"}

================================================================================
