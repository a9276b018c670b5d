-------------------------------- MODULE KafkaJobs --------------------------------
(***************************************************************************)
(* The workers of KafkaEventBus (podbus_kafka): one consumer per worker,   *)
(* one record at a time, and one way to settle it, the commit of its       *)
(* offset.  Any error the dead-letter policy does not absorb ends the poll *)
(* loop for good.  A worker outside DeadLetters runs the same loop as an   *)
(* event subscription.                                                     *)
(*                                                                         *)
(* The consumer group is external: whenever a member comes or goes the     *)
(* partitions are dealt anew and read again from the committed offsets,    *)
(* while a record that was polled before stays where it is processed.      *)
(***************************************************************************)
EXTENDS Naturals, FiniteSets

CONSTANTS
  Partitions,
  Workers,       \* the consumers of one group, on a bus each
  DeadLetters,   \* the workers whose DeadLetterPolicy is enabled
  Undecodable,   \* the records <<partition, offset>> that no worker can decode
  BadKeys,       \* the records whose key is not UTF-8, which poll() cannot return
  MaxOffset,     \* bound on the records of a partition
  NoWorker,
  NoRecord,
  MaxFaults,     \* bound on crashes, failed calls, lost records, expelled consumers, late acks
  MaxLateAcks,   \* bound on contexts used after the next record was polled
  MaxCloses      \* bound on worker.close() calls

ASSUME KafkaAssumption ==
  /\ DeadLetters \subseteq Workers
  /\ Undecodable \cup BadKeys \subseteq Partitions \X Nat
  /\ {MaxOffset, MaxFaults, MaxLateAcks, MaxCloses} \subseteq Nat
  /\ NoWorker \notin Workers
  /\ NoRecord \notin Partitions \X Nat

Record == Partitions \X Nat

VARIABLES
  end,        \* per partition: the offset of the next record
  committed,  \* per partition: the committed offset of the group
  position,   \* per partition: the offset its owner fetches next
  owner,      \* per partition: the worker it is assigned to
  members,    \* the workers the group coordinator counts as members
  concluded,  \* history: the records that were run, dead-lettered or dropped by deadLetter()
  lost,       \* history: the records whose dead letter was reported sent and is not
  pc,         \* per worker: what it awaits
  hold,       \* per worker: the record it processes
  pending,    \* per worker: _pendingMessage, what commit() commits, is the record in hand
  buffered,   \* per worker: _bufferedMessage
  completed,  \* per worker: the context's completed flag
  kept,       \* per worker: the record of a context that outlived its handler
  closing,    \* per worker: _closed
  faults,
  lateAcks,
  closes

groupVars   == <<end, committed, position, owner, members>>
historyVars == <<concluded, lost>>
workerVars  == <<pc, hold, pending, buffered, completed, kept, closing>>
bounds      == <<faults, lateAcks, closes>>
vars        == <<groupVars, historyVars, workerVars, bounds>>

Busy == {"decode", "handler", "ack", "ctxSettle", "bury", "settle"}
Pc   == Busy \cup {"off", "joining", "poll", "stopped", "gone"}

TypeOK ==
  /\ end \in [Partitions -> 0..MaxOffset]
  /\ {committed, position} \subseteq [Partitions -> Nat]
  /\ \A p \in Partitions : committed[p] <= end[p] /\ position[p] <= end[p]
  /\ members \subseteq Workers
  /\ owner \in [Partitions -> Workers \cup {NoWorker}]
  /\ \A p \in Partitions : owner[p] \in members \/ (members = {} /\ owner[p] = NoWorker)
  /\ concluded \cup lost \subseteq Record
  /\ pc \in [Workers -> Pc]
  /\ {hold, buffered, kept} \subseteq [Workers -> Record \cup {NoRecord}]
  /\ {pending, completed, closing} \subseteq [Workers -> BOOLEAN]
  /\ \A w \in Workers :
       /\ pc[w] \in Busy => hold[w] # NoRecord
       /\ pc[w] \notin Busy \cup {"stopped"} => hold[w] = NoRecord
       /\ pending[w] => hold[w] # NoRecord /\ ~completed[w]
       /\ buffered[w] # NoRecord => pc[w] = "poll"
       /\ pc[w] \in {"off", "joining", "poll", "decode", "gone"} => ~completed[w]
       /\ \A r \in {hold[w], buffered[w]} \ {NoRecord} : r[2] < end[r[1]]
  /\ faults \in 0..MaxFaults /\ lateAcks \in 0..MaxLateAcks /\ closes \in 0..MaxCloses

Init ==
  /\ end = [p \in Partitions |-> 0]
  /\ committed = [p \in Partitions |-> 0]
  /\ position = [p \in Partitions |-> 0]
  /\ owner = [p \in Partitions |-> NoWorker]
  /\ members = {}
  /\ concluded = {} /\ lost = {}
  /\ pc = [w \in Workers |-> "off"]
  /\ hold = [w \in Workers |-> NoRecord]
  /\ pending = [w \in Workers |-> FALSE]
  /\ buffered = [w \in Workers |-> NoRecord]
  /\ completed = [w \in Workers |-> FALSE]
  /\ kept = [w \in Workers |-> NoRecord]
  /\ closing = [w \in Workers |-> FALSE]
  /\ faults = 0 /\ lateAcks = 0 /\ closes = 0

Fault == faults < MaxFaults /\ faults' = faults + 1

--------------------------------------------------------------------------------
(* The topic and the consumer group. *)

Enqueue(p) ==
  /\ end[p] < MaxOffset
  /\ end' = [end EXCEPT ![p] = @ + 1]
  /\ UNCHANGED <<committed, position, owner, members, historyVars, workerVars, bounds>>

\* The partitions are dealt to the members ms and read from the committed offsets.
Rebalance(ms) ==
  /\ members' = ms
  /\ owner' \in [Partitions -> IF ms = {} THEN {NoWorker} ELSE ms]
  /\ position' = committed
  /\ UNCHANGED <<end, committed>>

Fetchable(w) == {p \in Partitions : owner[p] = w /\ position[p] < end[p]}

\* A member that does not poll or heartbeat any more is removed from the group.
Evict(w) ==
  /\ w \in members /\ pc[w] \in {"stopped", "gone"}
  /\ Rebalance(members \ {w})
  /\ UNCHANGED <<historyVars, workerVars, bounds>>

\* A handler runs for longer than max.poll.interval.ms.
Expel(w) ==
  /\ Fault
  /\ w \in members /\ pc[w] \in Busy
  /\ Rebalance(members \ {w})
  /\ UNCHANGED <<historyVars, workerVars, lateAcks, closes>>

--------------------------------------------------------------------------------
(* worker() and consumerFor: subscribe, then wait for an assignment. *)

Join(w) ==
  /\ pc[w] = "off"
  /\ Rebalance(members \cup {w})
  /\ pc' = [pc EXCEPT ![w] = "joining"]
  /\ UNCHANGED <<historyVars, hold, pending, buffered, completed, kept, closing, bounds>>

\* Mutant: the record that waitForAssignment polled is dropped.
Assigned_DropsRecord(w) ==
  /\ pc[w] = "joining"
  /\ \E p \in Fetchable(w) : position' = [position EXCEPT ![p] = @ + 1]
  /\ pc' = [pc EXCEPT ![w] = "poll"]
  /\ UNCHANGED <<end, committed, owner, members, historyVars, hold, pending, buffered, completed, kept,
                 closing, bounds>>

\* waitForAssignment polls to take part in the rebalance: it may return because a
\* record came, which is kept for the first poll, or because there is an assignment.
Assigned(w) ==
  /\ pc[w] = "joining"
  /\ \/ \E p \in Fetchable(w) :
          /\ buffered' = [buffered EXCEPT ![w] = <<p, position[p]>>]
          /\ position' = [position EXCEPT ![p] = @ + 1]
     \/ /\ \E p \in Partitions : owner[p] = w
        /\ UNCHANGED <<buffered, position>>
  /\ pc' = [pc EXCEPT ![w] = "poll"]
  /\ UNCHANGED <<end, committed, owner, members, historyVars, hold, pending, completed, kept, closing, bounds>>

\* No assignment within requestTimeout: worker() throws and nobody closes the consumer.
JoinTimesOut(w) ==
  /\ Fault
  /\ pc[w] = "joining"
  /\ pc' = [pc EXCEPT ![w] = "gone"]
  /\ UNCHANGED <<groupVars, historyVars, hold, pending, buffered, completed, kept, closing, lateAcks, closes>>

--------------------------------------------------------------------------------
(* The poll loop and the processing of one record. *)

\* poll() takes the record as the pending message before it decodes its key: a key that
\* does not decode ends the loop past any dead-letter policy.
Poll(w) ==
  /\ pc[w] = "poll" /\ ~closing[w]
  /\ \/ /\ buffered[w] # NoRecord
        /\ hold' = [hold EXCEPT ![w] = buffered[w]]
        /\ UNCHANGED position
     \/ /\ buffered[w] = NoRecord
        /\ \E p \in Fetchable(w) :
             /\ hold' = [hold EXCEPT ![w] = <<p, position[p]>>]
             /\ position' = [position EXCEPT ![p] = @ + 1]
  /\ buffered' = [buffered EXCEPT ![w] = NoRecord]
  /\ pending' = [pending EXCEPT ![w] = TRUE]
  /\ pc' = [pc EXCEPT ![w] = IF hold'[w] \in BadKeys THEN "stopped" ELSE "decode"]
  /\ UNCHANGED <<end, committed, owner, members, historyVars, completed, kept, closing, bounds>>

\* Mutant: the loop goes on to the next record after an error.
LoopFails_Continues(w) ==
  /\ pc' = [pc EXCEPT ![w] = "poll"]
  /\ hold' = [hold EXCEPT ![w] = NoRecord]
  /\ pending' = [pending EXCEPT ![w] = FALSE]
  /\ completed' = [completed EXCEPT ![w] = FALSE]

\* _run keeps the error for the health check and leaves the loop.
LoopFails(w) ==
  /\ pc' = [pc EXCEPT ![w] = "stopped"]
  /\ UNCHANGED <<hold, pending, completed>>

\* The consumer reports an error, as it does once it was expelled.
PollThrows(w) ==
  /\ IF w \in members THEN Fault ELSE UNCHANGED faults
  /\ pc[w] = "poll" /\ ~closing[w] /\ buffered[w] = NoRecord
  /\ LoopFails(w)
  /\ UNCHANGED <<groupVars, historyVars, buffered, kept, closing, lateAcks, closes>>

\* The policy decides between the dead-letter topic and the end of the loop.
FailTo(w) ==
  IF w \in DeadLetters
    THEN pc' = [pc EXCEPT ![w] = "bury"] /\ UNCHANGED <<hold, pending, completed>>
    ELSE LoopFails(w)

RunHandler(w) ==
  /\ pc[w] = "decode" /\ hold[w] \notin Undecodable
  /\ pc' = [pc EXCEPT ![w] = "handler"]
  /\ UNCHANGED <<groupVars, historyVars, hold, pending, buffered, completed, kept, closing, bounds>>

CannotDecode(w) ==
  /\ pc[w] = "decode" /\ hold[w] \in Undecodable
  /\ FailTo(w)
  /\ UNCHANGED <<groupVars, historyVars, buffered, kept, closing, bounds>>

Conclude(w) == concluded' = concluded \cup {hold[w]} /\ UNCHANGED lost

\* The offset past the pending record becomes the committed one, whatever it was before.
CommitPending(w) == committed' = [committed EXCEPT ![hold[w][1]] = hold[w][2] + 1]

\* commit() commits the pending message, not the message of a context; without one it
\* returns.  The coordinator accepts it from any member, owner of the partition or not.
Commit(w) ==
  /\ pending[w] => w \in members
  /\ IF pending[w] THEN CommitPending(w) ELSE UNCHANGED committed
  /\ pending' = [pending EXCEPT ![w] = FALSE]

\* The commit is refused or its answer is lost.
CommitThrows(w) ==
  /\ pending[w]
  /\ \/ w \notin members /\ UNCHANGED <<committed, faults>>
     \/ w \in members /\ Fault /\ (CommitPending(w) \/ UNCHANGED committed)

\* Mutant: the completed flag outlives its context.
Continue_KeepsCompleted(w) ==
  /\ pc' = [pc EXCEPT ![w] = "poll"]
  /\ hold' = [hold EXCEPT ![w] = NoRecord]
  /\ UNCHANGED completed

\* The next record gets a context of its own.
Continue(w) ==
  /\ pc' = [pc EXCEPT ![w] = "poll"]
  /\ hold' = [hold EXCEPT ![w] = NoRecord]
  /\ completed' = [completed EXCEPT ![w] = FALSE]

\* The context can still be used when its handler is over.
Escapes(w) ==
  kept' = [kept EXCEPT ![w] =
             IF faults < MaxFaults /\ lateAcks < MaxLateAcks THEN hold[w] ELSE NoRecord]

--------------------------------------------------------------------------------
(* The handler and its context.  A handler settles its record at most once; retry(),
   nak() and extendVisibility() only throw. *)

ContextAck(w) ==
  /\ pc[w] = "handler" /\ ~completed[w]
  /\ Commit(w)
  /\ Conclude(w)
  /\ completed' = [completed EXCEPT ![w] = TRUE]
  /\ UNCHANGED <<end, position, owner, members, pc, hold, buffered, kept, closing, bounds>>

\* The handler may catch what ack() throws.
ContextAckThrows(w) ==
  /\ pc[w] = "handler" /\ ~completed[w]
  /\ CommitThrows(w)
  /\ Conclude(w)
  /\ UNCHANGED <<end, position, owner, members, workerVars, lateAcks, closes>>

\* deadLetter() publishes if the policy is enabled; the commit follows either way.
ContextDeadLetter(w) ==
  /\ pc[w] = "handler" /\ ~completed[w]
  /\ Conclude(w)
  /\ pc' = [pc EXCEPT ![w] = "ctxSettle"]
  /\ UNCHANGED <<groupVars, hold, pending, buffered, completed, kept, closing, bounds>>

ContextSettles(w) ==
  /\ pc[w] = "ctxSettle"
  /\ Commit(w)
  /\ pc' = [pc EXCEPT ![w] = "handler"]
  /\ completed' = [completed EXCEPT ![w] = TRUE]
  /\ UNCHANGED <<end, position, owner, members, historyVars, hold, buffered, kept, closing, bounds>>

\* What deadLetter() throws passes through the handler.
ContextSettleThrows(w) ==
  /\ pc[w] = "ctxSettle"
  /\ CommitThrows(w)
  /\ FailTo(w)
  /\ UNCHANGED <<end, position, owner, members, historyVars, buffered, kept, closing, lateAcks, closes>>

HandlerReturns(w) ==
  /\ pc[w] = "handler"
  /\ Conclude(w)
  /\ Escapes(w)
  /\ IF completed[w]
       THEN Continue(w)
       ELSE pc' = [pc EXCEPT ![w] = "ack"] /\ UNCHANGED <<hold, completed>>
  /\ UNCHANGED <<groupVars, pending, buffered, closing, bounds>>

\* A failure ends the loop or in the dead-letter topic, also when the record is settled.
HandlerThrows(w) ==
  /\ IF w \in DeadLetters THEN UNCHANGED faults ELSE Fault
  /\ pc[w] = "handler"
  /\ FailTo(w)
  /\ Escapes(w)
  /\ UNCHANGED <<groupVars, historyVars, buffered, closing, lateAcks, closes>>

\* An operation that an earlier handler left behind calls ack() on its own context.
LateAck(w) ==
  /\ Fault
  /\ lateAcks < MaxLateAcks
  /\ lateAcks' = lateAcks + 1
  /\ kept[w] # NoRecord /\ pending[w] /\ kept[w] # hold[w]
  /\ Commit(w)
  /\ kept' = [kept EXCEPT ![w] = NoRecord]
  /\ UNCHANGED <<end, position, owner, members, historyVars, pc, hold, buffered, completed, closing, closes>>

--------------------------------------------------------------------------------
(* Settlement by the loop. *)

Ack(w) ==
  /\ pc[w] = "ack"
  /\ Commit(w)
  /\ Continue(w)
  /\ UNCHANGED <<end, position, owner, members, historyVars, buffered, kept, closing, bounds>>

\* The commit throws inside the try block: the successful run is handled as a failure.
AckThrows(w) ==
  /\ pc[w] = "ack"
  /\ CommitThrows(w)
  /\ FailTo(w)
  /\ UNCHANGED <<end, position, owner, members, historyVars, buffered, kept, closing, lateAcks, closes>>

\* Mutant: the offset is committed before the dead letter is produced.
Bury_CommitFirst(w) ==
  /\ pc[w] = "bury"
  /\ \/ /\ pending[w] /\ Commit(w)
        /\ UNCHANGED <<pc, historyVars>>
     \/ /\ ~pending[w] /\ Conclude(w)
        /\ pc' = [pc EXCEPT ![w] = "settle"]
        /\ UNCHANGED <<pending, committed>>
  /\ UNCHANGED <<end, position, owner, members, hold, buffered, completed, kept, closing, bounds>>

\* _publishDeadLetter: produce and flush.  No delivery report is read, so a record the
\* broker did not take passes for sent.
Bury(w) ==
  /\ pc[w] = "bury"
  /\ \/ Conclude(w) /\ UNCHANGED faults
     \/ Fault /\ lost' = lost \cup {hold[w]} /\ UNCHANGED concluded
  /\ pc' = [pc EXCEPT ![w] = "settle"]
  /\ UNCHANGED <<groupVars, hold, pending, buffered, completed, kept, closing, lateAcks, closes>>

\* The flush times out, with the record sent or not.
BuryThrows(w) ==
  /\ Fault
  /\ pc[w] = "bury"
  /\ Conclude(w) \/ UNCHANGED historyVars
  /\ LoopFails(w)
  /\ UNCHANGED <<groupVars, buffered, kept, closing, lateAcks, closes>>

Settle(w) ==
  /\ pc[w] = "settle"
  /\ Commit(w)
  /\ Continue(w)
  /\ UNCHANGED <<end, position, owner, members, historyVars, buffered, kept, closing, bounds>>

SettleThrows(w) ==
  /\ pc[w] = "settle"
  /\ CommitThrows(w)
  /\ LoopFails(w)
  /\ UNCHANGED <<end, position, owner, members, historyVars, buffered, kept, closing, lateAcks, closes>>

--------------------------------------------------------------------------------
(* Shutdown, replacement, crashes. *)

\* The worker's state is gone and pc goes on at `next`.
Forget(w, next) ==
  /\ pc' = [pc EXCEPT ![w] = next]
  /\ hold' = [hold EXCEPT ![w] = NoRecord]
  /\ pending' = [pending EXCEPT ![w] = FALSE]
  /\ buffered' = [buffered EXCEPT ![w] = NoRecord]
  /\ completed' = [completed EXCEPT ![w] = FALSE]
  /\ kept' = [kept EXCEPT ![w] = NoRecord]
  /\ closing' = [closing EXCEPT ![w] = FALSE]

LeaveGroup(w) ==
  IF w \in members THEN Rebalance(members \ {w}) ELSE UNCHANGED groupVars

CloseStart(w) ==
  /\ pc[w] \in Busy \cup {"poll", "stopped"} /\ ~closing[w]
  /\ closes < MaxCloses
  /\ closes' = closes + 1
  /\ closing' = [closing EXCEPT ![w] = TRUE]
  /\ UNCHANGED <<groupVars, historyVars, pc, hold, pending, buffered, completed, kept, faults, lateAcks>>

\* The loop is over and the consumer leaves the group; a new replica takes the place.
CloseEnds(w) ==
  /\ closing[w] /\ pc[w] \in {"poll", "stopped"}
  /\ Forget(w, "off")
  /\ LeaveGroup(w)
  /\ UNCHANGED <<historyVars, bounds>>

\* The health check reports the stopped loop, or worker() threw: the replica is replaced.
Replace(w) ==
  /\ pc[w] = "stopped" \/ (pc[w] = "gone" /\ w \notin members)
  /\ Forget(w, "off")
  /\ LeaveGroup(w)
  /\ UNCHANGED <<historyVars, bounds>>

Crash(w) ==
  /\ Fault
  /\ pc[w] \notin {"off", "gone"}
  /\ Forget(w, "gone")
  /\ UNCHANGED <<groupVars, historyVars, lateAcks, closes>>

--------------------------------------------------------------------------------
Process(w) ==
  \/ Poll(w)
  \/ PollThrows(w)
  \/ RunHandler(w)
  \/ CannotDecode(w)
  \/ ContextAck(w)
  \/ ContextAckThrows(w)
  \/ ContextDeadLetter(w)
  \/ ContextSettles(w)
  \/ ContextSettleThrows(w)
  \/ HandlerReturns(w)
  \/ HandlerThrows(w)
  \/ Ack(w)
  \/ AckThrows(w)
  \/ Bury(w)
  \/ BuryThrows(w)
  \/ Settle(w)
  \/ SettleThrows(w)
  \/ CloseEnds(w)

Membership(w) ==
  \/ Join(w)
  \/ Assigned(w)
  \/ Evict(w)
  \/ Replace(w)

Next ==
  \/ \E p \in Partitions : Enqueue(p)
  \/ \E w \in Workers : Process(w)
  \/ \E w \in Workers : Membership(w)
  \/ \E w \in Workers : JoinTimesOut(w)
  \/ \E w \in Workers : Expel(w)
  \/ \E w \in Workers : LateAck(w)
  \/ \E w \in Workers : CloseStart(w)
  \/ \E w \in Workers : Crash(w)

Fairness ==
  \A w \in Workers : WF_vars(Process(w)) /\ WF_vars(Membership(w))

Spec == Init /\ [][Next]_vars

FairSpec == Spec /\ Fairness

--------------------------------------------------------------------------------
(* Properties. *)

\* Nothing behind the committed offset was skipped: it was run, dead-lettered or
\* dropped by the handler's own word.  ("The source offset must not be committed before
\* the handler outcome and any retry or dead-letter publication are confirmed",
\* website/content/transports.ts:436.)
NothingSkipped ==
  \A p \in Partitions : \A o \in 0..(committed[p] - 1) : <<p, o>> \in concluded \cup lost

\* The same while no context is used late: across rebalances, refused and unanswered
\* commits, crashes and shutdowns, up to dead letters that a producer without delivery
\* reports takes for sent.
CommittedMeansHandled == lateAcks = 0 => NothingSkipped

\* A record is not taken up before all earlier records of its partition are done with:
\* an unhandled failure stops the loop instead of letting later records pass
\* (docs/kafka.md:55-58), and a rebalance goes back to the committed offset.
HandledInOrder ==
  lateAcks = 0 =>
    \A w \in Workers : pc[w] \in Busy =>
      \A o \in 0..(hold[w][2] - 1) : <<hold[w][1], o>> \in concluded \cup lost

\* Records are settled in the order of their partition, and the committed offset never
\* stands past one that is not: however members come, go, stall and crash.
CommittedInOrder == CommittedMeansHandled /\ HandledInOrder

\* No worker stops for good at a record that may come before this one or at this one: none
\* has a key that is not UTF-8, and none is undecodable unless every worker has a
\* dead-letter topic for it.
Servable(p, o) ==
  \A u \in BadKeys \cup (IF DeadLetters = Workers THEN {} ELSE Undecodable) :
    u[1] = p /\ u[2] > o

\* A record is eventually run or dead-lettered, as long as stopped workers are replaced.
EventuallyHandled ==
  \A p \in Partitions : \A o \in 0..(MaxOffset - 1) :
    (end[p] > o /\ Servable(p, o)) ~> (<<p, o>> \in concluded \cup lost \/ lateAcks > 0)

================================================================================
