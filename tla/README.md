# TLA+ specifications of PodBus

PodBus is a Dart toolkit for messaging: one pair of interfaces (`MessageBus`,
`DurableJobQueue`) over several transports, a PostgreSQL outbox, inbox and idempotency
store, and a documentation website. This directory holds TLA+ models of its stateful
parts, the TLC configurations that check them, and TLAPS proofs. Paths below are relative
to `packages/` in the repository unless they start with `website/` or `docs/`.

    tlc -config Outbox.cfg Outbox        # model-check
    tlapm KafkaProofs.tla                # check the proofs

## 1. The system

| Component | State | Operations | Hard behaviour | Modules |
| --- | --- | --- | --- | --- |
| PostgreSQL outbox (`podbus_postgres/.../postgres_outbox.dart`) | rows with status, attempts, lock, next attempt | enqueue, claimBatch, markPublished, markFailed, releaseExpiredLeases; the relay's runOnce | competing relays, crashes between claim, publication and update, expired leases | `Outbox`, `OutboxProofs` |
| PostgreSQL inbox (`postgres_inbox.dart`) | rows with state, lease, attempts | acquire, extend, complete, fail | redelivery, stale handlers, the gap between effect and completion | `Inbox`, `Pipeline`, `PipelineProofs` |
| Idempotency stores (`podbus_core/.../idempotency_store.dart`, `postgres_idempotency_store.dart`) | keys with an expiry | claim, release, pruneExpired, clear | claim, publication and release as three awaits; expiry under a call | `IdempotentEnqueue`, `JobQueueProofs` |
| JetStream job queue (`podbus_nats/.../nats_jetstream_job_queue.dart`, `nats_jetstream_adapter.dart`) | fetched batch, delivery in hand, context flag; connection, workers | enqueue, worker loop, ack/nak/term, dead letter; connect, worker, close | redelivery after the ack wait, lost settlements, failing failure handling; close against worker() | `JetStreamJobs`, `JetStreamProofs`, `IdempotentEnqueue`, `NatsTransports` |
| NATS bus (`nats_message_bus.dart`) | connection, subscriptions, active handlers, paused streams | connect, subscribe, handler, close | pause and resume at the limit, close that gives up waiting | `NatsTransports`, `LifecycleProofs` |
| Serverpod integration (`podbus_serverpod/.../serverpod_messaging.dart`) | started flag, handles | start, stop, subscribe, worker | partial failure and overlap of start and stop | `ServerpodMessaging`, `LifecycleProofs` |
| In-memory job queue (`in_memory_durable_job_queue.dart`) | queue, timers, workers, tasks | enqueue, drain, retry, dead letter, close, connect | wake-ups, timers against close, an `await` inside enqueue | `InMemoryJobQueue`, `JobQueueProofs` |
| In-memory bus (`in_memory_message_bus.dart`) | subscriptions and their concurrency gates, active deliveries | publish, subscribe, unsubscribe, close | callbacks between the release of a slot and the waiter's resumption | `InMemoryBus`, `InMemoryBusProofs` |
| RabbitMQ workers (`podbus_rabbitmq/.../rabbitmq_message_bus.dart`, `rabbitmq_adapter.dart`) | pending deliveries, tasks, error flag | deliver, retry, dead letter, ack/nack, close | publish-then-ack, confirm timeouts, prefetch, channel errors | `RabbitMqJobs`, `RabbitMqProofs` |
| Kafka workers (`podbus_kafka/.../kafka_event_bus.dart`, `native_kafka_client.dart`) | the pending message, the loop's last error | poll, commit, dead letter, close | rebalances during a handler, refused commits, a loop that ends at its first error | `KafkaJobs`, `KafkaProofs` |
| Documentation website (`website/`) | the path, the mobile menu, two search dialogs, the lock on the body | navigate, open, type, select, close, toggle | two dialogs that share one lock; three hand-kept lists of pages | `DocsContent`, `DocsSite`, `LifecycleProofs` |
| Policies, codec, headers, configuration, health types, observability, tools | none to speak of | conversions and validation | none that takes more than one step | policies inside the worker modules, the rest not modelled |

How they interact: an application writes the outbox in its own transaction; a relay
publishes outbox rows to a `MessageBus`; a handler uses the inbox to drop the duplicates
this makes; a job queue's `enqueue` claims an idempotency key first; workers take
deliveries from the broker, decode them, run a handler with a context, and settle them;
the health check of a queue shows stuck workers to whatever supervises the process; the
Serverpod integration opens and closes a bus and a queue together.

What makes each part correct, in one line each: the outbox and the durable queues keep
*at-least-once* (`AtLeastOnce`), and so do outbox, broker and inbox together; attempts
stay within the policy except for named faults; only the holder of a live lease settles
it; a dead letter is published before its source is given up; nothing is committed or
acked that is not done with; a key yields a second job only through an expiry or a fault;
closing leaves nothing running; and every message eventually meets its fate.

## 2. The modules

Variables are the fields, columns or broker state named in the comment beside them,
actions are the code between two awaits or one SQL statement. Every operator under a
`Mutant:` comment is not part of the model: it is a plausible mistake in the operator
below it, kept to show that a property notices it. A property that is a conjunction has
such mistakes for its parts too.

**`AtLeastOnce`** is the abstract promise of a durable component: an accepted message is
owed until it was delivered and settled, or given up. `Outbox`, `JetStreamJobs` and
`Pipeline` implement it under a refinement mapping (`KeepsPromise`, `EndToEndPromise`).

**`Outbox`**: columns of the outbox table, and per relay the batch, the record in hand
and a program counter. `ClaimBatch` is the `claimBatch` transaction (oldest claimable
rows first, SKIP LOCKED is implied by atomicity); `Publish`/`PublishThrows`,
`MarkPublished` and `MarkFailed` are the steps of `runOnce`, each with a variant whose
reply is lost. `LeaseRunsOut` moves the clock; a lease may be overrun while its relay
still works (`LeaseOverrun`). `Reaper` says whether the application calls
`releaseExpiredLeases`, which no code of the repository does.

**`Inbox`** (`MCInbox`): `acquire`, `extend`, `complete`, `fail` as statements with their
`WHERE` guards, driven by the handler of the guide in `website/content/reliability.ts`.
`AckWhenNull` chooses between that handler (which returns when `acquire` gives null) and
one that throws.

**`Pipeline`** (`MCPipeline`) composes them. The producer side is any system that keeps
`AtLeastOnce`, which `Outbox` is shown to do, so it may publish a message several times,
also after it has settled or buried the row; a broker keeps the copies; the consumer side
is `Inbox`, unchanged. `runOnce` passes on the event's headers and no id of the row:
copies are told apart by an id the event carries.

**`IdempotentEnqueue`** (`MCIdempotentEnqueue`): `enqueue` as claim, publication and
release, with calls for one key interleaved, over both stores (`store`) and over a broker
that drops repeated message ids for a while or one that does not (`broker`). A caller
whose call threw calls again; a caller whose call returned is done, although `enqueue`
also returns when the key is taken. `owner`, `orphaned` and `lapses` are history.

**`JetStreamJobs`**: `_run` and `_process` loops over a durable consumer. The broker part
(`AckWaitEnds`, `AckJob`, `TermJob`, `NakJob`) is external. A handler may settle through
its context and throw afterwards; failing failure handling abandons the fetched batch.

**`NatsTransports`** holds connect and close of `NatsMessageBus` and
`NatsJetStreamJobQueue`, subscriptions that pause their stream at the limit, and workers
that are created over an await. **`ServerpodMessaging`** EXTENDS it with `start` and
`stop`, which any number of callers may call at any time; it has the next-state relation of
both.

**`InMemoryJobQueue`** (`MCInMemoryJobQueue`): Dart runs one callback at a time, so an
action is what runs between two awaits. `Drain` is the round-robin `_drainTopic`. Calls of
`close()` may overlap, each with a list of its own of the tasks it awaits (`awaited`); one
that comes after the first has cleared the closing flag returns at once and is no action.
A handler that swallows what `deadLetter()` throws on a closing queue has its job
discarded. **`InMemoryBus`**: the same, for publications through `_ConcurrencyGate`. A
woken waiter resumes in an action of its own (`Resume`). `close()` awaits the deliveries
that are active when it looks, and is called by one caller at a time.

**`RabbitMqJobs`**: jobs exist in numbered copies, since a retry is a new message. The
channel is external: what is unacked returns to the queue when the channel goes, and
settling twice is a channel error. A worker is closed by `worker.close()`, which leaves
its channel open ("leaving", "left", "abandoned"), or by `bus.close()` ("closing",
"closed", "failed"), which closes the adapter afterwards; `BusClose` is the second after
the first. `Replace` is the deployment replacing an unhealthy replica.

**`KafkaJobs`** (`MCKafkaJobs`): one partition log with a committed offset, a group whose
every change deals the partitions anew from the committed offsets, and per worker the
native consumer's pending and buffered messages. A worker outside `DeadLetters` is also
what an event subscription does, whose loop is the same. A record in `Undecodable` goes
the way of malformed messages; one in `BadKeys` has a key that is not UTF-8, at which
`poll` itself throws and the loop ends. What `commit()` commits is the
pending message and not the context's record, which `LateAck` exercises.

**`DocsContent`** is the catalogue of `website/content`: every page with its slug, category
and place. **`DocsSite`** (`MCDocsSite`) is what the website builds from it (`docs`,
`docCategories`, `getAdjacentDocs` and the links each page shows) and a reader who uses
it: an action is one event with every render and effect it causes. How the search scores a
page for a query is a constant (`Queries`, `Score`); how it orders and cuts the results is
`Ranked`.

**`OutboxProofs`, `PipelineProofs`, `JetStreamProofs`, `KafkaProofs`, `InMemoryBusProofs`
and `RabbitMqProofs`** hold the theorems about the module of their name (section 4).
**`JobQueueProofs`** is about two, the in-memory job queue and the idempotent enqueue in
front of it, and **`LifecycleProofs`** about start and stop and about the website: the
prefixes of names in `IdempotentEnqueue` (`Enqueue...`) and `ServerpodMessaging`
(`Messaging...`) keep the two apart there.

## 3. The runs

| Run | Instance | Shows |
| --- | --- | --- |
| `Outbox.cfg` | 2 rows, 2 relays, batch 2, 2 attempts, reaper, 2 faults | attempts bound publications (`DeliveredWithinAttempts`, `ExtraAttemptsNeedFaults`), stale relays change nothing (`OnlyHolderSettles`), the promise is kept, every row ends |
| `OutboxNoReaper.cfg` | same without reaper, 1 fault | **violated**: an expired lease is not recovered by the relay loop |
| `Pipeline.cfg` | 2 messages, 2 publications, 2 handlers of 2 workers, 2 faults | the promise holds end to end (`EndToEndPromise`), an effect repeats only after a fault, stale handlers change nothing, what was published is completed |
| `InboxAckOnNull.cfg` | 2 messages, the documented handler, 1 fault | **violated**: acking on null loses a message whose lease holder dies |
| `IdempotentEnqueue.cfg` | 2 callers of one key and 1 of another, 1 repeat, 2 faults, both stores and brokers | a second copy needs a lapse or a fault (`JobsNeedLapses`), who was told "enqueued" is owed the job (`AcceptedIsOwed`), a release hits another's claim only after two faults, every key gets its job |
| `JetStreamJobs.cfg` | 2 jobs, 2 loops, fetch 2, 2 attempts, 1 fault, 1 explicit retry | dead letter before term, dead-lettered once, runs within budget (`JobsAccounted`), the promise, every job ends |
| `InMemoryJobQueue.cfg` | 2 jobs, 2 workers, 2 attempts, 2 closes that may overlap, 1 late throw, 1 explicit retry, 2 of these together | no job vanishes or doubles (`JobsAccounted`), nothing runs after close, no wake-up is lost |
| `InMemoryBus.cfg` | 3 publications, a group of 2 subscriptions, limit 1, 1 throw, 1 close | gates lose no slot and no waiter (`GatesAccounted`), closed handles are quiet (`ClosedIsQuiet`), publish returns |
| `RabbitMqJobs.cfg` | 1 job, 2 workers (only one with dead letters and retry queues), prefetch 2, 2 attempts, 1 fault, 1 explicit retry, 1 close | nothing is lost, one copy or fate without faults, stuck deliveries are reported, every job ends but those a closed worker keeps on an open bus |
| `KafkaJobs.cfg` | 1 partition of 4 records (the third undecodable, the fourth with a bad key), 2 workers (one with dead letters), 1 fault (a late ack is one), 1 close | nothing is committed past what is done with, records are taken in order (`CommittedInOrder`), those before one that stops a worker for good are all handled |
| `ServerpodMessaging.cfg` | 1 subscription, 1 worker, 2 callers with 3 calls of start and stop, 1 fault | what start and stop report is what became of connections and handles (`LifecycleHolds`), stop returns unless a worker's handler hangs |
| `DocsSite.cfg` | all 34 pages, queries that find nothing, one page, and more pages than the list of 12 shows | no dead link, pagination follows the sidebar (`NavigationIsSound`), the highlighted result exists, no dialog leaves the page locked |

The two violations are described, with the line and the sentence they disagree with, in
`PROJECT.json` under `findings`.

*Bounds.* Two of each competing actor is the least that shows a stale or lost race, and two
messages the least in which one is stuck behind another. Two attempts give a first run, a
retry and exhaustion. `MaxFaults` counts everything that goes wrong (crashes, throwing
calls, lost replies, overrun leases, hanging handlers); invariants that allow one extra
attempt, effect or copy per fault are written with `faults` and not with the bound. One
fault is enough to reach each error path, two to hit the recovery of the first.
`MaxRetries`, `MaxCloses`, `MaxCalls`, `MaxRepeats` and `MaxLateAcks` bound what
applications may do at will. Three calls of start and stop are the least in which two
overlap and a third finds the outcome. `MaxExtras` bounds closes, explicit retries and late
throws of the in-memory queue together: two of them are enough for closes that overlap, or
for any two in the way of each other. A late ack of a Kafka context counts as a fault too:
once one happened, the properties promise nothing. RabbitMQ runs with one job, since two
jobs with two workers exceed a million states; its jobs interact only through prefetch and
the pending queue, which the copies of one job fill as well. Kafka runs with one partition;
its theorems are for any number. The website has no bound but the queries: `MCDocsSite`
gives three the scores they have in the content files, and the width of the window, which
decides what the reader sees, is left free; its theorems are for any queries and scores.

Most runs switch deadlock checking off: once every message is settled and the bounds are
used up, the system rightly has nothing to do. The website never stops.

*Fairness.* Weak fairness of the steps of a relay, a loop, a caller or a task stands for
the Dart event loop and for handlers that end; of `LeaseRunsOut`, `BecomeDue`, `RetryDue`,
`AckWaitEnds` and the timeouts for the clock. Strong fairness is used in two places, for
brokers that hand out one message after another without starving any (`Inbox`,
`JetStreamJobs`). `Restart` and `Replace` are fair for a deployment with a supervisor, an
assumption about the environment that the repository asks for in places:
`docs/production.md:41` runs the relay "from a supervised loop", `docs/kafka.md:48` marks
the health checks of a stopped loop unhealthy, and `liveness()` in
`podbus_observability/lib/src/health_probe.dart` answers 503 for an unhealthy component, on
which an orchestrator replaces the process. A RabbitMQ worker whose failure handling
failed, and a Kafka worker whose loop ended, recover in no other way.
`ReleaseExpiredLeases` is fair only where there is a reaper. Crashes, throws, closes (a
`bus.close()` after `worker.close()` too), expiries before time and explicit retries are
never fair, and neither is a second call of somebody whose call returned.

## 4. The proofs

Every theorem is for all values of the constants under the named assumption of its
module (finite sets of actors where they are counted, limits of at least one, null values
outside the sets they mark).

**Outbox.** `TypeCorrect`; `TypeOK` also says that the lock columns are set exactly on the
processing rows, and is inductive as it stands. `PublicationsWithinAttempts` is not: a
record that waits in a batch is about to be published once more. `ClaimsCoverPublications`
adds those: publications of a row, plus relays with the row in their batch, are at most its
attempts. `HolderSettles` goes step by step from the guards. `OutboxImplementsPromise`
needs that a relay about to mark a record has published it, and that batches hold only
inserted rows. `ExtraAttemptsArePaid` is `ExtraAttemptsNeedFaults` for any number of relays
and faults. Its invariant `FaultsPay` says that an open row has an attempt to spare under
the bound, or is held by a relay all of whose leases are live. It is about the whole batch
because a relay that lost the lease of one record drops the others too, without a fault of
their own: the one that spoiled the first happened after all of them were claimed, and so
pays for each.

**Pipeline and inbox.** `PipelineTypeCorrect`; `PipelineImplementsPromise`, where every
step of source, broker or handler maps to a step of the promise or a stutter;
`HolderSettles` and `DuplicatesArePaid`. The last two assume `OwnWorkerIds`: the guard of
the inbox statements is the worker id, so the theorem is about handlers that do not share
one (section 5). `DuplicatesNeedFaults` is not inductive; `EffectsAccounted` is: the
effects of a message, plus the handlers let in to apply one, plus one when the row would
let another in, are at most one plus the faults.

**Idempotent enqueue.** `EnqueueTypeCorrect`. `CopiesNeedLapses` from `CopiesAccounted`:
the jobs stored under a key, plus the calls under way with a claim of it, plus one when the
key is free, are at most one plus expired claims and faults. `AcceptedJobsAreOwed` from
`ClaimIsWorkedOn`: a key that is claimed and has no job belongs to a call that will
publish, or was left behind. `ForeignReleases`: a call on its way to `release`, and a live
claim of another call, take two separate faults.

**JetStream.** `TypeCorrect`. `JobsAreAccounted` from `JobsInv`, whose accounts say of each
job that its deliveries, plus the loops that may still have it delivered again, plus one
when the broker will do so by itself, stay within the policy, the faults and the explicit
retries; that its dead letters, plus the loops that may still bury it, are at most one plus
the faults; and that a delivery waiting in a batch has not run. `QueueImplementsPromise`
maps every step to the promise or a stutter.

**Kafka.** `TypeCorrect`. `SettledInOrder` is `CommittedInOrder` for any partitions,
consumers, bad keys, rebalances, expulsions, crashes and refused or unanswered commits, as
long as no context outlives its record. The invariant is `OrderInv`: nothing is skipped
behind a committed offset; everything before a record in hand or in the buffer is done
with; and everything before a partition's *position* is done with, unless its owner has the
last fetched record in hand, in its buffer, or fetches no more. The last part is what makes
it inductive: a rebalance returns to the committed offsets, where it holds because nothing
was skipped, and a commit by a former owner, which moves the committed offset back, leaves
it alone.

**In-memory bus.** `GatesKeepAccount` from `GateInv`: a queue holds no delivery twice and
just those that wait, the counter of a gate is the number of handlers that run, and when
somebody waits, slots taken and slots promised reach the limit. A release by a handler
moves one from the former to the latter, a delivery that finds its subscription closed
passes its promise on. `CloseIsQuiet`: what is closed gets no new delivery, since
publications look for open subscriptions and a woken waiter looks again.

**In-memory job queue.** `TypeCorrect`, `CloseIsQuiet`, and `QueueJobsAreAccounted`, which
is `JobsAccounted` in three parts. All rest on `DrainStarts`: whatever the round-robin of
`_drainTopic` finds, it takes some number of entries off the head of a usable queue, starts
each on a free slot of its own of an open worker, and leaves running invocations alone.
`CloseIsQuiet` from `Covered`: what runs is awaited by every `close()` that was called
since the queue was last connected and still drains, and nothing runs once one of them
returned. `NothingIsLost` is `NothingVanishes`, and inductive. `RetriesWithinPolicy` is
`AttemptsWithinPolicy`, from `AttemptsLeft`: what waits, in the queue or for a timer, has
an attempt to spare. `OneCopyOrOneFate` is `OneCopyOrFate`, from `CopiesPaid`: the queued
entries, armed timers and undecided invocations of a job, plus one for its fate, are at
most the faults, plus one once `enqueue` has accepted it. A drain moves copies from the
queue to slots and makes none.

**RabbitMQ.** `TypeCorrect`; `JobsAreAccounted` and `StuckDeliveriesAreReported` from one
invariant, `JobsInv`, since neither is inductive. `KeptInv` says of a task that has
published the next copy, or the dead letter, that its delivery has a follower: only then
may it be acked, and a job has a live copy or its fate in every state (`NothingVanishes`).
`AttemptsInv` bounds the attempt number of every copy in the broker or in hand, and leaves
an attempt to a task that is about to retry. `HandsInv` is about a worker whose channel is
up: what it has in hand and the broker still knows is unacked by it, no two tasks share a
delivery, and what its handler settled is unacked no longer, so that settling it again is
the channel error the model takes it for. `FlagInv` keeps the flags of free tasks clear,
and the tasks of a worker whose close ended free. `StuckIsReported` follows a failing
failure handler, which sets the error before it drops the delivery. `CleanInv` is what
holds before the first fault: channels are up but those of closed buses, deliveries in hand
are unacked or settled by their handler, and the live copies of a job plus one for its fate
are one plus the tasks between the publication of a follower and the ack of its source. It
gives `OneCopyOrFate`; after a fault a task may lose its delivery in that very gap, and
nothing of the sort holds.

**Start and stop.** `MessagingTypeCorrect`, of which the hard part is that a paused
subscription has a handler that resumes it (`ActiveInv`). `LifecycleIsReported` is
`LifecycleHolds`. `WaitInv`: a handle that closes is awaited by the call that closed it,
unless that call gave up. `AloneInv` says, while calls did not overlap, what the one call
under way knows of both transports from where it stands (`Phase`), that between calls both
are up exactly when messaging is started (`Resting`), and that what is open is on a list
that a later stop will go through, or is a worker created too late (`OpenInv`): without
the last part a stop could leave behind what no list names. `CleanInv`: a stop that
returned, and was alone, left nobody in a call.

**Website.** `ScrollLockIsReleased`: `ScrollLockNeedsDialog` is inductive once the dialogs'
records have their shape (`LockInv`); the step that matters is a navigation, which unmounts
the menu's dialog and takes the lock with it, or leaves it to the header's.
`SiteTypeCorrect` and `NavigationStaysSound` from `SiteInv`, the reader is on an exported
page and every selection is one of the results, for any queries and scores. They rest on
what the catalogue is, which the prover has to be led through: the seven content files in
order, each of one category, numbered from one (`IsFile`, `Catalogue`, `PageSlugs`,
`PagePlaces`), no slug twice (`SlugsDiffer`), and `sort()` as a bijection that respects the
weights (`SortedLists`). From these, the categories side by side are the catalogue
(`Sidebar`), neighbours there are neighbours in the sidebar (`ArrowsFollowSidebar`), and no
link or result leaves the export (`LinksAreServed`, `ResultsAreCatalogued`). The content of
the pages is that of `DocsContent`: a page added to the repository is a case more in these
lemmas.

Each invariant named in a configuration that expects no violation is thus a theorem, as
are the refinements (`KeepsPromise`, `EndToEndPromise`) and the action property
`OnlyHolderSettles` of `Outbox` and of `Pipeline`.

*Only model-checked*: the liveness properties, since the prover handles neither fairness
nor ENABLED; and that a definition by recursion or by a library fold (`FoldLeft` and the
like) computes what is meant, which the models avoid where a proof needs to look inside
(`Sorted` of `DocsSite` and `Copies` of `InMemoryJobQueue` count sets instead).

## 5. Observations without a run of their own

Found while modelling; the models behave this way, and the properties are stated so that
they hold with it: none of them would catch it.

- *Shared worker ids.* `postgres_inbox.dart` guards its updates by `locked_by`, so two
  handlers of one worker id pass for each other, and `website/content/reliability.ts:407`
  passes the same `workerId` for every delivery. With `WorkerOf` constant,
  `DuplicatesNeedFaults` of `Pipeline.cfg` fails: a handler whose lease was overrun ends
  the lease of its sibling, and effects repeat without further faults.
- *The in-memory gate lets in too many.* `_acquire` counts a woken waiter after its await
  (`in_memory_message_bus.dart:412`): a delivery that arrives between a release and the
  resumption of the waiter finds a free slot, and both run, against the "bounded
  concurrency" of `website/content/core-concepts.ts:8`. `GatesAccounted` counts slots and
  does not claim that the handlers stay within the limit. The NATS subscription does the
  like with one message: the stream is paused by the message that arrives *at* the limit
  (`nats_message_bus.dart:269`), so `concurrency + 1` handlers run.
- *Late acks.* A Kafka context commits the consumer's pending message
  (`kafka_event_bus.dart:763`), so a context used after its handler commits a later record
  that was not handled, against `website/content/transports.ts:436`. `CommittedInOrder`
  holds while no context is used late.
- *Lost dead letters.* `flush` returns without delivery reports (`kafka_adapter.dart:124`),
  so a dead letter that the broker did not take passes for sent and its record is
  committed, against `website/content/reliability.ts:102`. `CommittedInOrder` counts such a
  record (`lost`) as done with.
- *A closed RabbitMQ worker* requeues what is pending before it cancels the consumer
  (`rabbitmq_message_bus.dart:935`), so it may be given deliveries that it never settles,
  although `website/content/reference.ts:90` says closing stops new deliveries. They return
  when its channel goes, which takes a `bus.close()`, a lost connection or the end of the
  process: `EventuallySettled` excepts them until then (`Stranded`).
- *Bad keys.* A Kafka record whose key is not UTF-8 ends the loop of every consumer that
  gets to it (`native_kafka_client.dart:304`), past the dead letter for malformed records.
  `EventuallyHandled` is about the records before the first of them.
- *Deadlines of stop.* `ServerpodMessaging.stop(timeout:)` awaits `worker.close()` without
  the timeout (`serverpod_messaging.dart`, the loop over `_workers`), and the JetStream
  worker's close waits for its tasks without one (`nats_jetstream_job_queue.dart:653`),
  against `website/content/operations.ts:272` and `website/content/reliability.ts:103`:
  `StopReturns` excepts hung worker handlers.
- *A worker created during close.* `worker()` of the JetStream queue looks at the
  connection, awaits the consumer and starts the worker without looking again
  (`nats_jetstream_job_queue.dart:187`). `StoppedIsQuiet` excepts such workers (`strays`).
  A second `close()` of a handle returns at once while the first still waits.
- *Overlapping closes of the in-memory job queue.* The first call to end clears the closing
  flag and the queue, so a third returns at once while the second still waits.
- *Overlapping start and stop* leave transports and flag apart, and `connect` clears the
  closing flag of a transport that still closes. `LifecycleHolds` is about calls that did
  not overlap.
- *Swallowed jobs.* When the claim commits and the process dies, or the reply is lost,
  before the publication, the key stays claimed and repeated calls return without a job
  until the TTL is over (`orphaned` in `IdempotentEnqueue`).
- *The website's dialogs* share one class of the body: closing one unlocks the page while
  the other is open, the header's dialog outlives a navigation from the menu's, and focus
  is not kept inside. `ScrollLockNeedsDialog` states the direction that holds.

## 6. Not modelled

- Payloads, headers, codecs, metrics, logs and the amount of a backoff delay. Decoding is
  a choice between success and failure; in Kafka it is a property of the record.
- Clocks, other than "before or after the deadline" for leases, delays, TTLs and ack waits.
- RabbitMQ topology, event subscriptions and request/reply; several queues bound to one
  topic, for which a retry through the topic exchange multiplies
  (`rabbitmq_message_bus.dart:427`). NATS request/reply.
- Kafka's transactional settings, failures of `publish`, and dead letters that the broker
  refuses each time for their size. Any other dead letter it did not take is a fault.
- Calls of `close()` of the in-memory bus that overlap.
- Handlers that publish, subscribe or close things themselves. Reading the code shows
  that a handler awaiting the close of its own subscription waits for itself, and that
  `close(timeout)` of the in-memory bus bounds only the last of its waits.
- What a property could only restate: that `context.retry()` does not look at
  `maxAttempts` (it is counted in `retries`), that failing failure handling abandons the
  rest of a fetched batch (the ack wait returns it), that a Kafka `ack()` that throws is
  followed by a dead letter of a record that ran.
- PostgreSQL DDL and migrations, configuration and capability values, exceptions, health
  types, observability, foreign-function bindings, tools and examples: no state that
  takes more than one step.
- Of the website: styling, the theme switch, the highlighting of code listings, the
  outline of a page and the copy button, whose timer of an earlier copy clears the
  confirmation of a later one.

## 7. Plan

What is left, in the order of what it would add:

1. `RabbitMqJobs` with two queues on a topic, to show what a retry multiplies.
2. NATS request/reply and the RabbitMQ event subscriptions.
3. Handlers that call the bus they run on.
4. Proofs: `RabbitMqJobs` as an implementation of `AtLeastOnce`; the safety half of the
   liveness arguments, such as that a claimed row always has a relay or an expiry ahead.
