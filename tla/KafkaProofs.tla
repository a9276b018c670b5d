------------------------------- MODULE KafkaProofs -------------------------------
(***************************************************************************)
(* Theorems about the Kafka workers for every set of partitions and        *)
(* consumers, every choice of dead-letter policies, undecodable records    *)
(* and bad keys, and any number of records and faults.                     *)
(***************************************************************************)
EXTENDS KafkaJobs, TLAPS

\* The partition and offset of a record in hand or in the buffer.
LEMMA RecordParts ==
  ASSUME NEW r \in Record
  PROVE  r # NoRecord /\ r = <<r[1], r[2]>> /\ r[1] \in Partitions /\ r[2] \in Nat
BY KafkaAssumption DEF Record

\* A busy worker has a record in hand.
LEMMA InHand ==
  ASSUME TypeOK, NEW w \in Workers, pc[w] \in Busy
  PROVE  /\ hold[w] \in Record /\ hold[w] # NoRecord
         /\ hold[w] = <<hold[w][1], hold[w][2]>> /\ hold[w][1] \in Partitions /\ hold[w][2] \in Nat
         /\ hold[w][2] < end[hold[w][1]]
<1>1. hold[w] \in Record /\ hold[w] # NoRecord /\ hold[w][2] < end[hold[w][1]]
  BY DEF TypeOK
<1>2. QED
  BY <1>1, RecordParts

LEMMA InitTypes == Init => TypeOK
BY KafkaAssumption DEF Init, TypeOK, Busy, Pc

(* What a step does to the group, to the history and to one worker keeps the     *)
(* types separately.                                                             *)
GroupOK ==
  /\ end \in [Partitions -> 0..MaxOffset]
  /\ {committed, position} \subseteq [Partitions -> Nat]
  /\ \A p \in Partitions : committed[p] <= end[p] /\ position[p] <= end[p]
  /\ members \subseteq Workers
  /\ owner \in [Partitions -> Workers \cup {NoWorker}]
  /\ \A p \in Partitions : owner[p] \in members \/ (members = {} /\ owner[p] = NoWorker)

FunctionsOK ==
  /\ pc \in [Workers -> Pc]
  /\ {hold, buffered, kept} \subseteq [Workers -> Record \cup {NoRecord}]
  /\ {pending, completed, closing} \subseteq [Workers -> BOOLEAN]

WorkerOK(w) ==
  /\ pc[w] \in Busy => hold[w] # NoRecord
  /\ pc[w] \notin Busy \cup {"stopped"} => hold[w] = NoRecord
  /\ pending[w] => hold[w] # NoRecord /\ ~completed[w]
  /\ buffered[w] # NoRecord => pc[w] = "poll"
  /\ pc[w] \in {"off", "joining", "poll", "decode", "gone"} => ~completed[w]
  /\ \A r \in {hold[w], buffered[w]} \ {NoRecord} : r[2] < end[r[1]]

LEMMA TypeParts ==
  TypeOK <=> /\ GroupOK /\ FunctionsOK
             /\ \A w \in Workers : WorkerOK(w)
             /\ concluded \cup lost \subseteq Record
             /\ faults \in 0..MaxFaults /\ lateAcks \in 0..MaxLateAcks /\ closes \in 0..MaxCloses
BY DEF TypeOK, GroupOK, FunctionsOK, WorkerOK

LEMMA NextTypeParts ==
  ASSUME GroupOK', FunctionsOK', \A w \in Workers : WorkerOK(w)',
         concluded' \cup lost' \subseteq Record,
         faults' \in 0..MaxFaults, lateAcks' \in 0..MaxLateAcks, closes' \in 0..MaxCloses
  PROVE  TypeOK'
BY DEF TypeOK, GroupOK, FunctionsOK, WorkerOK

\* A rebalance deals the partitions to the members from the committed offsets.
LEMMA RebalanceOK ==
  ASSUME GroupOK, NEW ms \in SUBSET Workers, Rebalance(ms)
  PROVE  GroupOK'
BY DEF GroupOK, Rebalance

LEMMA LeaveGroupOK ==
  ASSUME GroupOK, NEW w \in Workers, LeaveGroup(w)
  PROVE  GroupOK' /\ end' = end
<1>1. CASE w \in members
  BY <1>1, RebalanceOK DEF LeaveGroup, GroupOK, Rebalance
<1>2. CASE w \notin members
  BY <1>2 DEF LeaveGroup, GroupOK, groupVars
<1>3. QED
  BY <1>1, <1>2

\* A commit moves the offset of the record in hand, which exists.
LEMMA CommitOK ==
  ASSUME TypeOK, NEW w \in Workers, hold[w] # NoRecord, UNCHANGED <<end, position, owner, members>>,
         CommitPending(w) \/ UNCHANGED committed
  PROVE  GroupOK'
<1>1. hold[w] \in Record /\ hold[w][2] < end[hold[w][1]]
  BY DEF TypeOK
<1>2. hold[w][1] \in Partitions /\ hold[w][2] \in Nat
  BY <1>1, RecordParts
<1>3. CASE CommitPending(w)
  <2>1. committed' \in [Partitions -> Nat]
    BY <1>2, <1>3, TypeParts DEF CommitPending, GroupOK
  <2>2. \A p \in Partitions : committed'[p] <= end[p]
    BY <1>1, <1>2, <1>3, TypeParts DEF CommitPending, GroupOK
  <2>3. QED
    BY <2>1, <2>2, TypeParts DEF GroupOK
<1>4. CASE UNCHANGED committed
  BY <1>4, TypeParts DEF GroupOK
<1>5. QED
  BY <1>3, <1>4

\* The other workers stay as they are.
LEMMA OtherWorkers ==
  ASSUME TypeOK, GroupOK', NEW k \in Workers,
         \A p \in Partitions : end'[p] >= end[p],
         pc'[k] = pc[k], hold'[k] = hold[k], pending'[k] = pending[k], buffered'[k] = buffered[k],
         completed'[k] = completed[k]
  PROVE  WorkerOK(k)'
<1>1. WorkerOK(k) /\ {hold[k], buffered[k]} \subseteq Record \cup {NoRecord}
  BY TypeParts DEF FunctionsOK
<1>2. \A r \in {hold[k], buffered[k]} \ {NoRecord} : r[2] < end'[r[1]]
  <2>1. ASSUME NEW r \in {hold[k], buffered[k]} \ {NoRecord} PROVE r[2] < end'[r[1]]
    <3>1. r[1] \in Partitions /\ r[2] \in Nat /\ r[2] < end[r[1]]
      BY <1>1, <2>1, RecordParts DEF WorkerOK
    <3>2. end[r[1]] \in Nat /\ end'[r[1]] \in Nat
      BY <3>1, TypeParts, KafkaAssumption DEF GroupOK
    <3>3. QED
      BY <3>1, <3>2
  <2>2. QED
    BY <2>1
<1>3. QED
  BY <1>1, <1>2 DEF WorkerOK

\* A fetch advances the position of one partition within its end.
LEMMA AdvanceOK ==
  ASSUME TypeOK, NEW w \in Workers, NEW p \in Fetchable(w),
         position' = [position EXCEPT ![p] = @ + 1], UNCHANGED <<end, committed, owner, members>>
  PROVE  /\ GroupOK'
         /\ <<p, position[p]>> \in Record /\ <<p, position[p]>> # NoRecord
         /\ <<p, position[p]>>[2] < end[<<p, position[p]>>[1]]
<1>1. p \in Partitions /\ position[p] < end[p] /\ position[p] \in Nat /\ end[p] \in 0..MaxOffset
  BY TypeParts DEF Fetchable, GroupOK
<1>2. <<p, position[p]>> \in Record
  BY <1>1 DEF Record
<1>3. position' \in [Partitions -> Nat]
  BY <1>1, TypeParts DEF GroupOK
<1>4. \A q \in Partitions : position'[q] <= end[q]
  BY <1>1, TypeParts, KafkaAssumption DEF GroupOK
<1>5. GroupOK'
  BY <1>3, <1>4, TypeParts DEF GroupOK
<1>6. QED
  BY <1>1, <1>2, <1>5, RecordParts

LEMMA StepTypes ==
  ASSUME TypeOK, [Next]_vars
  PROVE  TypeOK'
<1> USE DEF groupVars, historyVars, workerVars, bounds
<1>0. ASSUME NEW w \in Workers, GroupOK', FunctionsOK', WorkerOK(w)',
             \A p \in Partitions : end'[p] >= end[p],
             concluded' \cup lost' \subseteq Record,
             faults' \in 0..MaxFaults, lateAcks' \in 0..MaxLateAcks, closes' \in 0..MaxCloses,
             \A k \in Workers \ {w} :
               /\ pc'[k] = pc[k] /\ hold'[k] = hold[k] /\ pending'[k] = pending[k]
               /\ buffered'[k] = buffered[k] /\ completed'[k] = completed[k]
      PROVE  TypeOK'
  <2>1. ASSUME NEW k \in Workers PROVE WorkerOK(k)'
    <3>1. CASE k = w
      BY <1>0, <3>1
    <3>2. CASE k # w
      BY <1>0, <3>2, OtherWorkers
    <3>3. QED
      BY <3>1, <3>2
  <2>2. QED
    BY <1>0, <2>1, NextTypeParts
<1>1. ASSUME NEW w \in Workers, Poll(w) PROVE TypeOK'
  <2>0. /\ \A k \in Workers : buffered[k] \in Record \cup {NoRecord} /\ hold[k] \in Record \cup {NoRecord}
        /\ WorkerOK(w)
    BY TypeParts DEF FunctionsOK
  <2>1. PICK r \in Record : /\ hold' = [hold EXCEPT ![w] = r]
                            /\ GroupOK' /\ r # NoRecord /\ r[2] < end[r[1]]
    <3>1. CASE buffered[w] # NoRecord /\ hold' = [hold EXCEPT ![w] = buffered[w]] /\ UNCHANGED position
      <4>1. GroupOK'
        BY <1>1, <3>1, TypeParts DEF Poll, GroupOK
      <4>2. QED
        BY <2>0, <3>1, <4>1 DEF WorkerOK
    <3>2. CASE \E p \in Fetchable(w) : /\ hold' = [hold EXCEPT ![w] = <<p, position[p]>>]
                                       /\ position' = [position EXCEPT ![p] = @ + 1]
      BY <1>1, <3>2, AdvanceOK DEF Poll
    <3>3. QED
      BY <1>1, <3>1, <3>2 DEF Poll
  <2>2. FunctionsOK' /\ WorkerOK(w)'
    <3>1. /\ hold' \in [Workers -> Record \cup {NoRecord}] /\ hold'[w] = r
          /\ buffered' \in [Workers -> Record \cup {NoRecord}] /\ buffered'[w] = NoRecord
      BY <1>1, <2>1, TypeParts DEF Poll, FunctionsOK
    <3>2. /\ pc' \in [Workers -> Pc] /\ pc'[w] \in {"decode", "stopped"}
          /\ pending' \in [Workers -> BOOLEAN] /\ completed' = completed
          /\ kept' = kept /\ closing' = closing /\ end' = end /\ pc[w] = "poll"
      BY <1>1, TypeParts DEF Poll, FunctionsOK, Pc, Busy
    <3>3. QED
      BY <2>0, <2>1, <3>1, <3>2, TypeParts DEF FunctionsOK, WorkerOK, Busy
  <2>3. /\ \A p \in Partitions : end'[p] >= end[p]
        /\ UNCHANGED <<concluded, lost, faults, lateAcks, closes>>
    BY <1>1, TypeParts, KafkaAssumption DEF Poll, GroupOK
  <2>4. /\ \A k \in Workers \ {w} :
             /\ pc'[k] = pc[k] /\ hold'[k] = hold[k] /\ pending'[k] = pending[k]
             /\ buffered'[k] = buffered[k] /\ completed'[k] = completed[k]
    BY <1>1, <2>1, TypeParts DEF Poll, FunctionsOK
  <2>5. QED
    BY <2>1, <2>2, <2>3, <2>4, <1>0, TypeParts
<1>2. ASSUME NEW w \in Workers, PollThrows(w) PROVE TypeOK'
  <2>1. GroupOK'
    BY <1>2, TypeParts DEF PollThrows, LoopFails, Fault, GroupOK
  <2>2. FunctionsOK'
    BY <1>2, TypeParts, RecordParts, KafkaAssumption DEF PollThrows, LoopFails, Fault, FunctionsOK, Pc, Busy, GroupOK, Record
  <2>3. WorkerOK(w)'
    BY <1>2, InHand, TypeParts, RecordParts, KafkaAssumption DEF PollThrows, LoopFails, Fault, FunctionsOK, WorkerOK, Pc, Busy, GroupOK
  <2>4. \A p \in Partitions : end'[p] >= end[p]
    BY <1>2, TypeParts, KafkaAssumption DEF PollThrows, LoopFails, Fault, GroupOK
  <2>5. /\ concluded' \cup lost' \subseteq Record
        /\ faults' \in 0..MaxFaults /\ lateAcks' \in 0..MaxLateAcks /\ closes' \in 0..MaxCloses
    BY <1>2, InHand, TypeParts, KafkaAssumption DEF PollThrows, LoopFails, Fault, Busy
  <2>6. QED
    BY <1>2, <2>1, <2>2, <2>3, <2>4, <2>5, <1>0, TypeParts DEF PollThrows, LoopFails, Fault, FunctionsOK
<1>3. ASSUME NEW w \in Workers, RunHandler(w) PROVE TypeOK'
  <2>1. GroupOK'
    BY <1>3, TypeParts DEF RunHandler, GroupOK
  <2>2. FunctionsOK'
    BY <1>3, TypeParts, RecordParts, KafkaAssumption DEF RunHandler, FunctionsOK, Pc, Busy, GroupOK, Record
  <2>3. WorkerOK(w)'
    BY <1>3, InHand, TypeParts, RecordParts, KafkaAssumption DEF RunHandler, FunctionsOK, WorkerOK, Pc, Busy, GroupOK
  <2>4. \A p \in Partitions : end'[p] >= end[p]
    BY <1>3, TypeParts, KafkaAssumption DEF RunHandler, GroupOK
  <2>5. /\ concluded' \cup lost' \subseteq Record
        /\ faults' \in 0..MaxFaults /\ lateAcks' \in 0..MaxLateAcks /\ closes' \in 0..MaxCloses
    BY <1>3, InHand, TypeParts, KafkaAssumption DEF RunHandler, Busy
  <2>6. QED
    BY <1>3, <2>1, <2>2, <2>3, <2>4, <2>5, <1>0, TypeParts DEF RunHandler, FunctionsOK
<1>4. ASSUME NEW w \in Workers, CannotDecode(w) PROVE TypeOK'
  <2>1. GroupOK'
    BY <1>4, TypeParts DEF CannotDecode, FailTo, LoopFails, GroupOK
  <2>2. FunctionsOK'
    BY <1>4, TypeParts, RecordParts, KafkaAssumption DEF CannotDecode, FailTo, LoopFails, FunctionsOK, Pc, Busy, GroupOK, Record
  <2>3. WorkerOK(w)'
    BY <1>4, InHand, TypeParts, RecordParts, KafkaAssumption DEF CannotDecode, FailTo, LoopFails, FunctionsOK, WorkerOK, Pc, Busy, GroupOK
  <2>4. \A p \in Partitions : end'[p] >= end[p]
    BY <1>4, TypeParts, KafkaAssumption DEF CannotDecode, FailTo, LoopFails, GroupOK
  <2>5. /\ concluded' \cup lost' \subseteq Record
        /\ faults' \in 0..MaxFaults /\ lateAcks' \in 0..MaxLateAcks /\ closes' \in 0..MaxCloses
    BY <1>4, InHand, TypeParts, KafkaAssumption DEF CannotDecode, FailTo, LoopFails, Busy
  <2>6. QED
    BY <1>4, <2>1, <2>2, <2>3, <2>4, <2>5, <1>0, TypeParts DEF CannotDecode, FailTo, LoopFails, FunctionsOK
<1>5. ASSUME NEW w \in Workers, ContextAck(w) PROVE TypeOK'
  <2>1. GroupOK'
    BY <1>5, CommitOK, TypeParts DEF ContextAck, Commit, Conclude, GroupOK, TypeOK, Busy
  <2>2. FunctionsOK'
    BY <1>5, TypeParts, RecordParts, KafkaAssumption DEF ContextAck, Commit, Conclude, FunctionsOK, Pc, Busy, GroupOK, Record
  <2>3. WorkerOK(w)'
    BY <1>5, InHand, TypeParts, RecordParts, KafkaAssumption DEF ContextAck, Commit, Conclude, FunctionsOK, WorkerOK, Pc, Busy, GroupOK
  <2>4. \A p \in Partitions : end'[p] >= end[p]
    BY <1>5, TypeParts, KafkaAssumption DEF ContextAck, Commit, Conclude, GroupOK
  <2>5. /\ concluded' \cup lost' \subseteq Record
        /\ faults' \in 0..MaxFaults /\ lateAcks' \in 0..MaxLateAcks /\ closes' \in 0..MaxCloses
    BY <1>5, InHand, TypeParts, KafkaAssumption DEF ContextAck, Commit, Conclude, Busy
  <2>6. QED
    BY <1>5, <2>1, <2>2, <2>3, <2>4, <2>5, <1>0, TypeParts DEF ContextAck, Commit, Conclude, FunctionsOK
<1>6. ASSUME NEW w \in Workers, ContextAckThrows(w) PROVE TypeOK'
  <2>1. GroupOK'
    BY <1>6, CommitOK, TypeParts DEF ContextAckThrows, CommitThrows, Conclude, Fault, GroupOK, TypeOK, Busy
  <2>2. FunctionsOK'
    BY <1>6, TypeParts, RecordParts, KafkaAssumption DEF ContextAckThrows, CommitThrows, Conclude, Fault, FunctionsOK, Pc, Busy, GroupOK, Record
  <2>3. WorkerOK(w)'
    BY <1>6, InHand, TypeParts, RecordParts, KafkaAssumption DEF ContextAckThrows, CommitThrows, Conclude, Fault, FunctionsOK, WorkerOK, Pc, Busy, GroupOK
  <2>4. \A p \in Partitions : end'[p] >= end[p]
    BY <1>6, TypeParts, KafkaAssumption DEF ContextAckThrows, CommitThrows, Conclude, Fault, GroupOK
  <2>5. /\ concluded' \cup lost' \subseteq Record
        /\ faults' \in 0..MaxFaults /\ lateAcks' \in 0..MaxLateAcks /\ closes' \in 0..MaxCloses
    BY <1>6, InHand, TypeParts, KafkaAssumption DEF ContextAckThrows, CommitThrows, Conclude, Fault, Busy
  <2>6. QED
    BY <1>6, <2>1, <2>2, <2>3, <2>4, <2>5, <1>0, TypeParts DEF ContextAckThrows, CommitThrows, Conclude, Fault, FunctionsOK
<1>7. ASSUME NEW w \in Workers, ContextDeadLetter(w) PROVE TypeOK'
  <2>1. GroupOK'
    BY <1>7, TypeParts DEF ContextDeadLetter, Conclude, GroupOK
  <2>2. FunctionsOK'
    BY <1>7, TypeParts, RecordParts, KafkaAssumption DEF ContextDeadLetter, Conclude, FunctionsOK, Pc, Busy, GroupOK, Record
  <2>3. WorkerOK(w)'
    BY <1>7, InHand, TypeParts, RecordParts, KafkaAssumption DEF ContextDeadLetter, Conclude, FunctionsOK, WorkerOK, Pc, Busy, GroupOK
  <2>4. \A p \in Partitions : end'[p] >= end[p]
    BY <1>7, TypeParts, KafkaAssumption DEF ContextDeadLetter, Conclude, GroupOK
  <2>5. /\ concluded' \cup lost' \subseteq Record
        /\ faults' \in 0..MaxFaults /\ lateAcks' \in 0..MaxLateAcks /\ closes' \in 0..MaxCloses
    BY <1>7, InHand, TypeParts, KafkaAssumption DEF ContextDeadLetter, Conclude, Busy
  <2>6. QED
    BY <1>7, <2>1, <2>2, <2>3, <2>4, <2>5, <1>0, TypeParts DEF ContextDeadLetter, Conclude, FunctionsOK
<1>8. ASSUME NEW w \in Workers, ContextSettles(w) PROVE TypeOK'
  <2>1. GroupOK'
    BY <1>8, CommitOK, TypeParts DEF ContextSettles, Commit, GroupOK, TypeOK, Busy
  <2>2. FunctionsOK'
    BY <1>8, TypeParts, RecordParts, KafkaAssumption DEF ContextSettles, Commit, FunctionsOK, Pc, Busy, GroupOK, Record
  <2>3. WorkerOK(w)'
    BY <1>8, InHand, TypeParts, RecordParts, KafkaAssumption DEF ContextSettles, Commit, FunctionsOK, WorkerOK, Pc, Busy, GroupOK
  <2>4. \A p \in Partitions : end'[p] >= end[p]
    BY <1>8, TypeParts, KafkaAssumption DEF ContextSettles, Commit, GroupOK
  <2>5. /\ concluded' \cup lost' \subseteq Record
        /\ faults' \in 0..MaxFaults /\ lateAcks' \in 0..MaxLateAcks /\ closes' \in 0..MaxCloses
    BY <1>8, InHand, TypeParts, KafkaAssumption DEF ContextSettles, Commit, Busy
  <2>6. QED
    BY <1>8, <2>1, <2>2, <2>3, <2>4, <2>5, <1>0, TypeParts DEF ContextSettles, Commit, FunctionsOK
<1>9. ASSUME NEW w \in Workers, ContextSettleThrows(w) PROVE TypeOK'
  <2>1. GroupOK'
    BY <1>9, CommitOK, TypeParts DEF ContextSettleThrows, CommitThrows, FailTo, LoopFails, Fault, GroupOK, TypeOK, Busy
  <2>2. FunctionsOK'
    BY <1>9, TypeParts, RecordParts, KafkaAssumption DEF ContextSettleThrows, CommitThrows, FailTo, LoopFails, Fault, FunctionsOK, Pc, Busy, GroupOK, Record
  <2>3. WorkerOK(w)'
    BY <1>9, InHand, TypeParts, RecordParts, KafkaAssumption DEF ContextSettleThrows, CommitThrows, FailTo, LoopFails, Fault, FunctionsOK, WorkerOK, Pc, Busy, GroupOK
  <2>4. \A p \in Partitions : end'[p] >= end[p]
    BY <1>9, TypeParts, KafkaAssumption DEF ContextSettleThrows, CommitThrows, FailTo, LoopFails, Fault, GroupOK
  <2>5. /\ concluded' \cup lost' \subseteq Record
        /\ faults' \in 0..MaxFaults /\ lateAcks' \in 0..MaxLateAcks /\ closes' \in 0..MaxCloses
    BY <1>9, InHand, TypeParts, KafkaAssumption DEF ContextSettleThrows, CommitThrows, FailTo, LoopFails, Fault, Busy
  <2>6. QED
    BY <1>9, <2>1, <2>2, <2>3, <2>4, <2>5, <1>0, TypeParts DEF ContextSettleThrows, CommitThrows, FailTo, LoopFails, Fault, FunctionsOK
<1>10. ASSUME NEW w \in Workers, HandlerReturns(w) PROVE TypeOK'
  <2>0. pc[w] = "handler" /\ hold[w] \in Record /\ hold[w] # NoRecord /\ WorkerOK(w)
    BY <1>10, InHand, TypeParts DEF HandlerReturns, Busy
  <2>1. GroupOK'
    BY <1>10, TypeParts DEF HandlerReturns, GroupOK
  <2>2. kept' \in [Workers -> Record \cup {NoRecord}]
    <3>1. PICK r \in Record \cup {NoRecord} : kept' = [kept EXCEPT ![w] = r]
      BY <1>10, <2>0 DEF HandlerReturns, Escapes
    <3>2. QED
      BY <3>1, TypeParts DEF FunctionsOK
  <2>3. FunctionsOK' /\ WorkerOK(w)'
    <3>1. CASE completed[w] /\ Continue(w)
      <4>1. /\ pc' \in [Workers -> Pc] /\ pc'[w] = "poll"
            /\ hold' \in [Workers -> Record \cup {NoRecord}] /\ hold'[w] = NoRecord
            /\ completed' \in [Workers -> BOOLEAN] /\ ~completed'[w]
            /\ UNCHANGED <<pending, buffered, closing, end>>
        BY <1>10, <3>1, TypeParts DEF HandlerReturns, Continue, FunctionsOK, Pc, Busy
      <4>2. QED
        BY <2>0, <2>2, <3>1, <4>1, TypeParts DEF FunctionsOK, WorkerOK, Busy
    <3>2. CASE pc' = [pc EXCEPT ![w] = "ack"] /\ UNCHANGED <<hold, completed>>
      BY <1>10, <2>0, <2>2, <3>2, TypeParts DEF HandlerReturns, FunctionsOK, WorkerOK, Pc, Busy
    <3>3. QED
      BY <1>10, <3>1, <3>2 DEF HandlerReturns
  <2>4. /\ concluded' \cup lost' \subseteq Record
        /\ UNCHANGED <<end, faults, lateAcks, closes>>
    BY <1>10, <2>0, TypeParts DEF HandlerReturns, Conclude
  <2>5. QED
    BY <1>10, <2>1, <2>3, <2>4, <1>0, TypeParts, KafkaAssumption
    DEF HandlerReturns, Continue, FunctionsOK, GroupOK
<1>11. ASSUME NEW w \in Workers, HandlerThrows(w) PROVE TypeOK'
  <2>1. GroupOK'
    BY <1>11, TypeParts DEF HandlerThrows, FailTo, LoopFails, Escapes, Fault, GroupOK
  <2>2. FunctionsOK'
    BY <1>11, TypeParts, RecordParts, KafkaAssumption DEF HandlerThrows, FailTo, LoopFails, Escapes, Fault, FunctionsOK, Pc, Busy, GroupOK, Record
  <2>3. WorkerOK(w)'
    BY <1>11, InHand, TypeParts, RecordParts, KafkaAssumption DEF HandlerThrows, FailTo, LoopFails, Escapes, Fault, FunctionsOK, WorkerOK, Pc, Busy, GroupOK
  <2>4. \A p \in Partitions : end'[p] >= end[p]
    BY <1>11, TypeParts, KafkaAssumption DEF HandlerThrows, FailTo, LoopFails, Escapes, Fault, GroupOK
  <2>5. /\ concluded' \cup lost' \subseteq Record
        /\ faults' \in 0..MaxFaults /\ lateAcks' \in 0..MaxLateAcks /\ closes' \in 0..MaxCloses
    BY <1>11, InHand, TypeParts, KafkaAssumption DEF HandlerThrows, FailTo, LoopFails, Escapes, Fault, Busy
  <2>6. QED
    BY <1>11, <2>1, <2>2, <2>3, <2>4, <2>5, <1>0, TypeParts DEF HandlerThrows, FailTo, LoopFails, Escapes, Fault, FunctionsOK
<1>12. ASSUME NEW w \in Workers, Ack(w) PROVE TypeOK'
  <2>1. GroupOK'
    BY <1>12, CommitOK, TypeParts DEF Ack, Commit, Continue, GroupOK, TypeOK, Busy
  <2>2. FunctionsOK'
    BY <1>12, TypeParts, RecordParts, KafkaAssumption DEF Ack, Commit, Continue, FunctionsOK, Pc, Busy, GroupOK, Record
  <2>3. WorkerOK(w)'
    BY <1>12, InHand, TypeParts, RecordParts, KafkaAssumption DEF Ack, Commit, Continue, FunctionsOK, WorkerOK, Pc, Busy, GroupOK
  <2>4. \A p \in Partitions : end'[p] >= end[p]
    BY <1>12, TypeParts, KafkaAssumption DEF Ack, Commit, Continue, GroupOK
  <2>5. /\ concluded' \cup lost' \subseteq Record
        /\ faults' \in 0..MaxFaults /\ lateAcks' \in 0..MaxLateAcks /\ closes' \in 0..MaxCloses
    BY <1>12, InHand, TypeParts, KafkaAssumption DEF Ack, Commit, Continue, Busy
  <2>6. QED
    BY <1>12, <2>1, <2>2, <2>3, <2>4, <2>5, <1>0, TypeParts DEF Ack, Commit, Continue, FunctionsOK
<1>13. ASSUME NEW w \in Workers, AckThrows(w) PROVE TypeOK'
  <2>1. GroupOK'
    BY <1>13, CommitOK, TypeParts DEF AckThrows, CommitThrows, FailTo, LoopFails, Fault, GroupOK, TypeOK, Busy
  <2>2. FunctionsOK'
    BY <1>13, TypeParts, RecordParts, KafkaAssumption DEF AckThrows, CommitThrows, FailTo, LoopFails, Fault, FunctionsOK, Pc, Busy, GroupOK, Record
  <2>3. WorkerOK(w)'
    BY <1>13, InHand, TypeParts, RecordParts, KafkaAssumption DEF AckThrows, CommitThrows, FailTo, LoopFails, Fault, FunctionsOK, WorkerOK, Pc, Busy, GroupOK
  <2>4. \A p \in Partitions : end'[p] >= end[p]
    BY <1>13, TypeParts, KafkaAssumption DEF AckThrows, CommitThrows, FailTo, LoopFails, Fault, GroupOK
  <2>5. /\ concluded' \cup lost' \subseteq Record
        /\ faults' \in 0..MaxFaults /\ lateAcks' \in 0..MaxLateAcks /\ closes' \in 0..MaxCloses
    BY <1>13, InHand, TypeParts, KafkaAssumption DEF AckThrows, CommitThrows, FailTo, LoopFails, Fault, Busy
  <2>6. QED
    BY <1>13, <2>1, <2>2, <2>3, <2>4, <2>5, <1>0, TypeParts DEF AckThrows, CommitThrows, FailTo, LoopFails, Fault, FunctionsOK
<1>14. ASSUME NEW w \in Workers, Bury(w) PROVE TypeOK'
  <2>1. GroupOK'
    BY <1>14, TypeParts DEF Bury, Conclude, Fault, GroupOK
  <2>2. FunctionsOK'
    BY <1>14, TypeParts, RecordParts, KafkaAssumption DEF Bury, Conclude, Fault, FunctionsOK, Pc, Busy, GroupOK, Record
  <2>3. WorkerOK(w)'
    BY <1>14, InHand, TypeParts, RecordParts, KafkaAssumption DEF Bury, Conclude, Fault, FunctionsOK, WorkerOK, Pc, Busy, GroupOK
  <2>4. \A p \in Partitions : end'[p] >= end[p]
    BY <1>14, TypeParts, KafkaAssumption DEF Bury, Conclude, Fault, GroupOK
  <2>5. /\ concluded' \cup lost' \subseteq Record
        /\ faults' \in 0..MaxFaults /\ lateAcks' \in 0..MaxLateAcks /\ closes' \in 0..MaxCloses
    BY <1>14, InHand, TypeParts, KafkaAssumption DEF Bury, Conclude, Fault, Busy
  <2>6. QED
    BY <1>14, <2>1, <2>2, <2>3, <2>4, <2>5, <1>0, TypeParts DEF Bury, Conclude, Fault, FunctionsOK
<1>15. ASSUME NEW w \in Workers, BuryThrows(w) PROVE TypeOK'
  <2>1. GroupOK'
    BY <1>15, TypeParts DEF BuryThrows, Conclude, LoopFails, Fault, GroupOK
  <2>2. FunctionsOK'
    BY <1>15, TypeParts, RecordParts, KafkaAssumption DEF BuryThrows, Conclude, LoopFails, Fault, FunctionsOK, Pc, Busy, GroupOK, Record
  <2>3. WorkerOK(w)'
    BY <1>15, InHand, TypeParts, RecordParts, KafkaAssumption DEF BuryThrows, Conclude, LoopFails, Fault, FunctionsOK, WorkerOK, Pc, Busy, GroupOK
  <2>4. \A p \in Partitions : end'[p] >= end[p]
    BY <1>15, TypeParts, KafkaAssumption DEF BuryThrows, Conclude, LoopFails, Fault, GroupOK
  <2>5. /\ concluded' \cup lost' \subseteq Record
        /\ faults' \in 0..MaxFaults /\ lateAcks' \in 0..MaxLateAcks /\ closes' \in 0..MaxCloses
    BY <1>15, InHand, TypeParts, KafkaAssumption DEF BuryThrows, Conclude, LoopFails, Fault, Busy
  <2>6. QED
    BY <1>15, <2>1, <2>2, <2>3, <2>4, <2>5, <1>0, TypeParts DEF BuryThrows, Conclude, LoopFails, Fault, FunctionsOK
<1>16. ASSUME NEW w \in Workers, Settle(w) PROVE TypeOK'
  <2>1. GroupOK'
    BY <1>16, CommitOK, TypeParts DEF Settle, Commit, Continue, GroupOK, TypeOK, Busy
  <2>2. FunctionsOK'
    BY <1>16, TypeParts, RecordParts, KafkaAssumption DEF Settle, Commit, Continue, FunctionsOK, Pc, Busy, GroupOK, Record
  <2>3. WorkerOK(w)'
    BY <1>16, InHand, TypeParts, RecordParts, KafkaAssumption DEF Settle, Commit, Continue, FunctionsOK, WorkerOK, Pc, Busy, GroupOK
  <2>4. \A p \in Partitions : end'[p] >= end[p]
    BY <1>16, TypeParts, KafkaAssumption DEF Settle, Commit, Continue, GroupOK
  <2>5. /\ concluded' \cup lost' \subseteq Record
        /\ faults' \in 0..MaxFaults /\ lateAcks' \in 0..MaxLateAcks /\ closes' \in 0..MaxCloses
    BY <1>16, InHand, TypeParts, KafkaAssumption DEF Settle, Commit, Continue, Busy
  <2>6. QED
    BY <1>16, <2>1, <2>2, <2>3, <2>4, <2>5, <1>0, TypeParts DEF Settle, Commit, Continue, FunctionsOK
<1>17. ASSUME NEW w \in Workers, SettleThrows(w) PROVE TypeOK'
  <2>1. GroupOK'
    BY <1>17, CommitOK, TypeParts DEF SettleThrows, CommitThrows, LoopFails, Fault, GroupOK, TypeOK, Busy
  <2>2. FunctionsOK'
    BY <1>17, TypeParts, RecordParts, KafkaAssumption DEF SettleThrows, CommitThrows, LoopFails, Fault, FunctionsOK, Pc, Busy, GroupOK, Record
  <2>3. WorkerOK(w)'
    BY <1>17, InHand, TypeParts, RecordParts, KafkaAssumption DEF SettleThrows, CommitThrows, LoopFails, Fault, FunctionsOK, WorkerOK, Pc, Busy, GroupOK
  <2>4. \A p \in Partitions : end'[p] >= end[p]
    BY <1>17, TypeParts, KafkaAssumption DEF SettleThrows, CommitThrows, LoopFails, Fault, GroupOK
  <2>5. /\ concluded' \cup lost' \subseteq Record
        /\ faults' \in 0..MaxFaults /\ lateAcks' \in 0..MaxLateAcks /\ closes' \in 0..MaxCloses
    BY <1>17, InHand, TypeParts, KafkaAssumption DEF SettleThrows, CommitThrows, LoopFails, Fault, Busy
  <2>6. QED
    BY <1>17, <2>1, <2>2, <2>3, <2>4, <2>5, <1>0, TypeParts DEF SettleThrows, CommitThrows, LoopFails, Fault, FunctionsOK
<1>18. ASSUME NEW w \in Workers, CloseEnds(w) PROVE TypeOK'
  <2>1. GroupOK'
    BY <1>18, LeaveGroupOK, TypeParts DEF CloseEnds, Forget
  <2>2. FunctionsOK'
    BY <1>18, TypeParts, RecordParts, KafkaAssumption DEF CloseEnds, Forget, FunctionsOK, Pc, Busy, GroupOK, Record
  <2>3. WorkerOK(w)'
    BY <1>18, InHand, TypeParts, RecordParts, KafkaAssumption DEF CloseEnds, Forget, FunctionsOK, WorkerOK, Pc, Busy, GroupOK
  <2>4. \A p \in Partitions : end'[p] >= end[p]
    BY <1>18, LeaveGroupOK, TypeParts DEF CloseEnds, Forget, GroupOK
  <2>5. /\ concluded' \cup lost' \subseteq Record
        /\ faults' \in 0..MaxFaults /\ lateAcks' \in 0..MaxLateAcks /\ closes' \in 0..MaxCloses
    BY <1>18, InHand, TypeParts, KafkaAssumption DEF CloseEnds, Forget, Busy
  <2>6. QED
    BY <1>18, <2>1, <2>2, <2>3, <2>4, <2>5, <1>0, TypeParts DEF CloseEnds, Forget, FunctionsOK
<1>19. ASSUME NEW w \in Workers, Join(w) PROVE TypeOK'
  <2>1. GroupOK'
    BY <1>19, RebalanceOK, TypeParts DEF Join, GroupOK
  <2>2. FunctionsOK'
    BY <1>19, TypeParts, RecordParts, KafkaAssumption DEF Join, FunctionsOK, Pc, Busy, GroupOK, Record
  <2>3. WorkerOK(w)'
    BY <1>19, InHand, TypeParts, RecordParts, KafkaAssumption DEF Join, FunctionsOK, WorkerOK, Pc, Busy, GroupOK, Rebalance
  <2>4. \A p \in Partitions : end'[p] >= end[p]
    BY <1>19, TypeParts, KafkaAssumption DEF Join, GroupOK, Rebalance
  <2>5. /\ concluded' \cup lost' \subseteq Record
        /\ faults' \in 0..MaxFaults /\ lateAcks' \in 0..MaxLateAcks /\ closes' \in 0..MaxCloses
    BY <1>19, InHand, TypeParts, KafkaAssumption DEF Join, Busy
  <2>6. QED
    BY <1>19, <2>1, <2>2, <2>3, <2>4, <2>5, <1>0, TypeParts DEF Join, FunctionsOK
<1>20. ASSUME NEW w \in Workers, Assigned(w) PROVE TypeOK'
  <2>0. WorkerOK(w) /\ buffered[w] = NoRecord
    BY <1>20, TypeParts DEF Assigned, WorkerOK, Busy
  <2>1. /\ GroupOK'
        /\ buffered' \in [Workers -> Record \cup {NoRecord}]
        /\ buffered'[w] # NoRecord => buffered'[w][2] < end[buffered'[w][1]]
        /\ \A k \in Workers \ {w} : buffered'[k] = buffered[k]
    <3>1. CASE \E p \in Fetchable(w) : /\ buffered' = [buffered EXCEPT ![w] = <<p, position[p]>>]
                                       /\ position' = [position EXCEPT ![p] = @ + 1]
      <4>1. PICK p \in Fetchable(w) : /\ buffered' = [buffered EXCEPT ![w] = <<p, position[p]>>]
                                      /\ position' = [position EXCEPT ![p] = @ + 1]
        BY <3>1
      <4>2. /\ GroupOK' /\ <<p, position[p]>> \in Record
            /\ <<p, position[p]>>[2] < end[<<p, position[p]>>[1]]
        BY <1>20, <4>1, AdvanceOK DEF Assigned
      <4>3. QED
        BY <4>1, <4>2, TypeParts DEF FunctionsOK
    <3>2. CASE UNCHANGED <<buffered, position>>
      BY <1>20, <2>0, <3>2, TypeParts DEF Assigned, GroupOK, FunctionsOK
    <3>3. QED
      BY <1>20, <3>1, <3>2 DEF Assigned
  <2>2. FunctionsOK'
    BY <1>20, <2>1, TypeParts DEF Assigned, FunctionsOK, Pc
  <2>3. WorkerOK(w)'
    BY <1>20, <2>0, <2>1, TypeParts DEF Assigned, FunctionsOK, WorkerOK, Busy
  <2>4. QED
    BY <1>20, <2>1, <2>2, <2>3, <1>0, TypeParts, KafkaAssumption DEF Assigned, FunctionsOK, GroupOK
<1>21. ASSUME NEW w \in Workers, Evict(w) PROVE TypeOK'
  <2>1. GroupOK'
    BY <1>21, RebalanceOK, TypeParts DEF Evict, GroupOK
  <2>2. FunctionsOK'
    BY <1>21, TypeParts, RecordParts, KafkaAssumption DEF Evict, FunctionsOK, Pc, Busy, GroupOK, Record
  <2>3. WorkerOK(w)'
    BY <1>21, InHand, TypeParts, RecordParts, KafkaAssumption DEF Evict, FunctionsOK, WorkerOK, Pc, Busy, GroupOK, Rebalance
  <2>4. \A p \in Partitions : end'[p] >= end[p]
    BY <1>21, TypeParts, KafkaAssumption DEF Evict, GroupOK, Rebalance
  <2>5. /\ concluded' \cup lost' \subseteq Record
        /\ faults' \in 0..MaxFaults /\ lateAcks' \in 0..MaxLateAcks /\ closes' \in 0..MaxCloses
    BY <1>21, InHand, TypeParts, KafkaAssumption DEF Evict, Busy
  <2>6. QED
    BY <1>21, <2>1, <2>2, <2>3, <2>4, <2>5, <1>0, TypeParts DEF Evict, FunctionsOK
<1>22. ASSUME NEW w \in Workers, Replace(w) PROVE TypeOK'
  <2>1. GroupOK'
    BY <1>22, LeaveGroupOK, TypeParts DEF Replace, Forget
  <2>2. FunctionsOK'
    BY <1>22, TypeParts, RecordParts, KafkaAssumption DEF Replace, Forget, FunctionsOK, Pc, Busy, GroupOK, Record
  <2>3. WorkerOK(w)'
    BY <1>22, InHand, TypeParts, RecordParts, KafkaAssumption DEF Replace, Forget, FunctionsOK, WorkerOK, Pc, Busy, GroupOK
  <2>4. \A p \in Partitions : end'[p] >= end[p]
    BY <1>22, LeaveGroupOK, TypeParts DEF Replace, Forget, GroupOK
  <2>5. /\ concluded' \cup lost' \subseteq Record
        /\ faults' \in 0..MaxFaults /\ lateAcks' \in 0..MaxLateAcks /\ closes' \in 0..MaxCloses
    BY <1>22, InHand, TypeParts, KafkaAssumption DEF Replace, Forget, Busy
  <2>6. QED
    BY <1>22, <2>1, <2>2, <2>3, <2>4, <2>5, <1>0, TypeParts DEF Replace, Forget, FunctionsOK
<1>23. ASSUME NEW w \in Workers, JoinTimesOut(w) PROVE TypeOK'
  <2>1. GroupOK'
    BY <1>23, TypeParts DEF JoinTimesOut, Fault, GroupOK
  <2>2. FunctionsOK'
    BY <1>23, TypeParts, RecordParts, KafkaAssumption DEF JoinTimesOut, Fault, FunctionsOK, Pc, Busy, GroupOK, Record
  <2>3. WorkerOK(w)'
    BY <1>23, InHand, TypeParts, RecordParts, KafkaAssumption DEF JoinTimesOut, Fault, FunctionsOK, WorkerOK, Pc, Busy, GroupOK
  <2>4. \A p \in Partitions : end'[p] >= end[p]
    BY <1>23, TypeParts, KafkaAssumption DEF JoinTimesOut, Fault, GroupOK
  <2>5. /\ concluded' \cup lost' \subseteq Record
        /\ faults' \in 0..MaxFaults /\ lateAcks' \in 0..MaxLateAcks /\ closes' \in 0..MaxCloses
    BY <1>23, InHand, TypeParts, KafkaAssumption DEF JoinTimesOut, Fault, Busy
  <2>6. QED
    BY <1>23, <2>1, <2>2, <2>3, <2>4, <2>5, <1>0, TypeParts DEF JoinTimesOut, Fault, FunctionsOK
<1>24. ASSUME NEW w \in Workers, Expel(w) PROVE TypeOK'
  <2>1. GroupOK'
    BY <1>24, RebalanceOK, TypeParts DEF Expel, Fault, GroupOK
  <2>2. FunctionsOK'
    BY <1>24, TypeParts, RecordParts, KafkaAssumption DEF Expel, Fault, FunctionsOK, Pc, Busy, GroupOK, Record
  <2>3. WorkerOK(w)'
    BY <1>24, InHand, TypeParts, RecordParts, KafkaAssumption DEF Expel, Fault, FunctionsOK, WorkerOK, Pc, Busy, GroupOK, Rebalance
  <2>4. \A p \in Partitions : end'[p] >= end[p]
    BY <1>24, TypeParts, KafkaAssumption DEF Expel, Fault, GroupOK, Rebalance
  <2>5. /\ concluded' \cup lost' \subseteq Record
        /\ faults' \in 0..MaxFaults /\ lateAcks' \in 0..MaxLateAcks /\ closes' \in 0..MaxCloses
    BY <1>24, InHand, TypeParts, KafkaAssumption DEF Expel, Fault, Busy
  <2>6. QED
    BY <1>24, <2>1, <2>2, <2>3, <2>4, <2>5, <1>0, TypeParts DEF Expel, Fault, FunctionsOK
<1>25. ASSUME NEW w \in Workers, LateAck(w) PROVE TypeOK'
  <2>1. GroupOK'
    BY <1>25, CommitOK, TypeParts DEF LateAck, Commit, GroupOK, TypeOK, Busy
  <2>2. FunctionsOK'
    BY <1>25, TypeParts, RecordParts, KafkaAssumption DEF LateAck, Commit, FunctionsOK, Pc, Busy, GroupOK, Record
  <2>3. WorkerOK(w)'
    BY <1>25, InHand, TypeParts, RecordParts, KafkaAssumption DEF LateAck, Commit, FunctionsOK, WorkerOK, Pc, Busy, GroupOK
  <2>4. \A p \in Partitions : end'[p] >= end[p]
    BY <1>25, TypeParts, KafkaAssumption DEF LateAck, Commit, GroupOK
  <2>5. /\ concluded' \cup lost' \subseteq Record
        /\ faults' \in 0..MaxFaults /\ lateAcks' \in 0..MaxLateAcks /\ closes' \in 0..MaxCloses
    BY <1>25, InHand, TypeParts, KafkaAssumption DEF LateAck, Commit, Fault, Busy
  <2>6. QED
    BY <1>25, <2>1, <2>2, <2>3, <2>4, <2>5, <1>0, TypeParts DEF LateAck, Commit, FunctionsOK
<1>26. ASSUME NEW w \in Workers, CloseStart(w) PROVE TypeOK'
  <2>1. GroupOK'
    BY <1>26, TypeParts DEF CloseStart, GroupOK
  <2>2. FunctionsOK'
    BY <1>26, TypeParts, RecordParts, KafkaAssumption DEF CloseStart, FunctionsOK, Pc, Busy, GroupOK, Record
  <2>3. WorkerOK(w)'
    BY <1>26, InHand, TypeParts, RecordParts, KafkaAssumption DEF CloseStart, FunctionsOK, WorkerOK, Pc, Busy, GroupOK
  <2>4. \A p \in Partitions : end'[p] >= end[p]
    BY <1>26, TypeParts, KafkaAssumption DEF CloseStart, GroupOK
  <2>5. /\ concluded' \cup lost' \subseteq Record
        /\ faults' \in 0..MaxFaults /\ lateAcks' \in 0..MaxLateAcks /\ closes' \in 0..MaxCloses
    BY <1>26, InHand, TypeParts, KafkaAssumption DEF CloseStart, Busy
  <2>6. QED
    BY <1>26, <2>1, <2>2, <2>3, <2>4, <2>5, <1>0, TypeParts DEF CloseStart, FunctionsOK
<1>27. ASSUME NEW w \in Workers, Crash(w) PROVE TypeOK'
  <2>1. GroupOK'
    BY <1>27, TypeParts DEF Crash, Forget, Fault, GroupOK
  <2>2. FunctionsOK'
    BY <1>27, TypeParts, RecordParts, KafkaAssumption DEF Crash, Forget, Fault, FunctionsOK, Pc, Busy, GroupOK, Record
  <2>3. WorkerOK(w)'
    BY <1>27, InHand, TypeParts, RecordParts, KafkaAssumption DEF Crash, Forget, Fault, FunctionsOK, WorkerOK, Pc, Busy, GroupOK
  <2>4. \A p \in Partitions : end'[p] >= end[p]
    BY <1>27, TypeParts, KafkaAssumption DEF Crash, Forget, Fault, GroupOK
  <2>5. /\ concluded' \cup lost' \subseteq Record
        /\ faults' \in 0..MaxFaults /\ lateAcks' \in 0..MaxLateAcks /\ closes' \in 0..MaxCloses
    BY <1>27, InHand, TypeParts, KafkaAssumption DEF Crash, Forget, Fault, Busy
  <2>6. QED
    BY <1>27, <2>1, <2>2, <2>3, <2>4, <2>5, <1>0, TypeParts DEF Crash, Forget, Fault, FunctionsOK
<1>28. ASSUME NEW p \in Partitions, Enqueue(p) PROVE TypeOK'
  <2>1. GroupOK' /\ \A q \in Partitions : end'[q] >= end[q]
    BY <1>28, TypeParts, KafkaAssumption DEF Enqueue, GroupOK
  <2>2. \A k \in Workers : WorkerOK(k)'
    BY <1>28, <2>1, OtherWorkers DEF Enqueue
  <2>3. QED
    BY <1>28, <2>1, <2>2, TypeParts, NextTypeParts DEF Enqueue, FunctionsOK
<1>29. CASE UNCHANGED vars
  BY <1>29 DEF vars, TypeOK
<1>30. QED
  BY <1>1, <1>2, <1>3, <1>4, <1>5, <1>6, <1>7, <1>8, <1>9, <1>10, <1>11, <1>12, <1>13, <1>14, <1>15, <1>16, <1>17, <1>18, <1>19, <1>20, <1>21, <1>22, <1>23, <1>24, <1>25, <1>26, <1>27, <1>28, <1>29
  DEF Next, Process, Membership

\* Offsets stay within their partition, partitions belong to members, and a worker
\* has a record, a pending commit, a buffer and a completed flag only where its loop
\* allows them (KafkaEventBus, _run and _KafkaJobWorker).
THEOREM TypeCorrect == Spec => []TypeOK
BY InitTypes, StepTypes, PTL DEF Spec

--------------------------------------------------------------------------------
(* The order of settlement, as long as no context is used late. *)

Handled(r) == r \in concluded \cup lost

(* All records of the partition before offset n are done with. *)
Passed(p, n) == \A o \in 0..(n - 1) : Handled(<<p, o>>)

(* The worker that reads the partition has the last record it fetched in hand or  *)
(* in its buffer, or it will fetch no more.                                       *)
InFlight(r, p) == r # NoRecord /\ r[1] = p /\ r[2] + 1 = position[p]

Reading(w, p) ==
  \/ pc[w] \in {"stopped", "gone"}
  \/ pc[w] \in Busy /\ InFlight(hold[w], p)
  \/ InFlight(buffered[w], p)

(* Where the owner of a partition fetches next, everything before is done with,   *)
(* or it is not ready to fetch.                                                   *)
PositionOrder(p) ==
  Passed(p, position[p]) \/ \E w \in Workers : owner[p] = w /\ Reading(w, p)

WorkerOrder(w) ==
  /\ pc[w] \in Busy => Passed(hold[w][1], hold[w][2])
  /\ buffered[w] # NoRecord => Passed(buffered[w][1], buffered[w][2])
  /\ pc[w] \in {"ack", "settle", "ctxSettle"} => Handled(hold[w])
  /\ pc[w] = "off" => w \notin members

OrderInv ==
  /\ NothingSkipped
  /\ \A w \in Workers : WorkerOrder(w)
  /\ \A p \in Partitions : PositionOrder(p)

(* What is done with stays so. *)
Grows == concluded \subseteq concluded' /\ lost \subseteq lost'

OnlyWorker(w) ==
  \A k \in Workers \ {w} : pc'[k] = pc[k] /\ hold'[k] = hold[k] /\ buffered'[k] = buffered[k]

LEMMA PassedGrows ==
  ASSUME Grows, NEW p, NEW n, Passed(p, n)
  PROVE  Passed(p, n)'
BY DEF Grows, Passed, Handled

LEMMA PassedNext ==
  ASSUME NEW p, NEW n \in Nat, Passed(p, n), Handled(<<p, n>>)
  PROVE  Passed(p, n + 1)
BY DEF Passed

\* The other workers are where they were.
LEMMA OthersInOrder ==
  ASSUME OrderInv, NEW w \in Workers, OnlyWorker(w), Grows, members' \subseteq members \cup {w},
         NEW k \in Workers, k # w
  PROVE  WorkerOrder(k)'
<1>1. /\ WorkerOrder(k) /\ pc'[k] = pc[k] /\ hold'[k] = hold[k] /\ buffered'[k] = buffered[k]
  BY DEF OrderInv, OnlyWorker
<1>2. /\ pc[k] \in Busy => Passed(hold[k][1], hold[k][2])'
      /\ buffered[k] # NoRecord => Passed(buffered[k][1], buffered[k][2])'
  <2>1. \A p, n : Passed(p, n) => Passed(p, n)'
    BY PassedGrows
  <2>2. QED
    BY <1>1, <2>1 DEF WorkerOrder, Passed
<1>3. pc[k] \in {"ack", "settle", "ctxSettle"} => Handled(hold[k])'
  BY <1>1 DEF WorkerOrder, Handled, Grows
<1>4. QED
  BY <1>1, <1>2, <1>3 DEF WorkerOrder, Passed, Handled

\* The record in hand and all before it are done with when it was settled.
LEMMA HandPassed ==
  ASSUME TypeOK, OrderInv, Grows, NEW w \in Workers, pc[w] \in Busy,
         hold[w] \in concluded' \cup lost'
  PROVE  \A o \in 0..hold[w][2] : <<hold[w][1], o>> \in concluded' \cup lost'
<1>1. /\ Passed(hold[w][1], hold[w][2])
      /\ hold[w] = <<hold[w][1], hold[w][2]>> /\ hold[w][2] \in Nat
  BY InHand DEF OrderInv, WorkerOrder
<1>2. QED
  BY <1>1 DEF Passed, Handled, Grows

\* A commit past a record that is done with, as all before it are, skips nothing.
LEMMA CommitInOrder ==
  ASSUME TypeOK, OrderInv, Grows, NEW w \in Workers, pc[w] \in Busy,
         \/ committed' = committed
         \/ CommitPending(w) /\ hold[w] \in concluded' \cup lost'
  PROVE  NothingSkipped'
<1>1. CASE committed' = committed
  BY <1>1 DEF OrderInv, NothingSkipped, Grows
<1>2. CASE CommitPending(w) /\ hold[w] \in concluded' \cup lost'
  <2>1. /\ hold[w][1] \in Partitions /\ hold[w][2] \in Nat
        /\ committed \in [Partitions -> Nat]
    BY InHand DEF TypeOK
  <2>2. ASSUME NEW p \in Partitions, NEW o \in 0..(committed'[p] - 1)
        PROVE  <<p, o>> \in concluded' \cup lost'
    <3>1. CASE p = hold[w][1]
      <4>1. o \in 0..hold[w][2]
        BY <1>2, <2>1, <2>2, <3>1 DEF CommitPending
      <4>2. QED
        BY <1>2, <3>1, <4>1, HandPassed
    <3>2. CASE p # hold[w][1]
      BY <1>2, <2>1, <2>2, <3>2 DEF CommitPending, OrderInv, NothingSkipped, Grows
    <3>3. QED
      BY <3>1, <3>2
  <2>3. QED
    BY <2>2 DEF NothingSkipped
<1>3. QED
  BY <1>1, <1>2

\* The steps from one await of the loop to the next keep the order.
LEMMA LoopOrder ==
  ASSUME TypeOK, OrderInv, Grows, NEW w \in Workers, OnlyWorker(w), pc[w] \in Busy,
         UNCHANGED <<position, owner, members, buffered>>,
         \/ committed' = committed
         \/ CommitPending(w) /\ hold[w] \in concluded' \cup lost',
         \/ pc'[w] = "stopped"
         \/ /\ pc'[w] \in Busy /\ hold'[w] = hold[w]
            /\ pc'[w] \in {"ack", "settle", "ctxSettle"} => hold[w] \in concluded' \cup lost'
         \/ pc'[w] = "poll" /\ hold[w] \in concluded' \cup lost'
  PROVE  OrderInv'
<1>1. NothingSkipped'
  BY CommitInOrder
<1>2. WorkerOrder(w)'
  <2>1. buffered[w] = NoRecord /\ WorkerOrder(w)
    BY DEF TypeOK, Busy, OrderInv
  <2>2. pc'[w] \in Busy => Passed(hold[w][1], hold[w][2])' /\ hold'[w] = hold[w]
    <3>1. Passed(hold[w][1], hold[w][2])
      BY <2>1 DEF WorkerOrder
    <3>2. QED
      BY <3>1 DEF Passed, Handled, Grows, Busy
  <2>3. QED
    BY <2>1, <2>2 DEF WorkerOrder, Passed, Handled, Busy
<1>3. ASSUME NEW p \in Partitions PROVE PositionOrder(p)'
  <2>1. CASE Passed(p, position[p])
    BY <2>1 DEF PositionOrder, Passed, Handled, Grows
  <2>2. CASE owner[p] = w /\ Reading(w, p)
    <3>1. hold[w] # NoRecord /\ hold[w][1] = p /\ hold[w][2] + 1 = position[p]
      BY <2>2 DEF Reading, InFlight, TypeOK, Busy
    <3>2. CASE pc'[w] = "stopped" \/ (pc'[w] \in Busy /\ hold'[w] = hold[w])
      BY <2>2, <3>1, <3>2 DEF PositionOrder, Reading, InFlight
    <3>3. CASE pc'[w] = "poll" /\ hold[w] \in concluded' \cup lost'
      <4>1. \A o \in 0..hold[w][2] : <<p, o>> \in concluded' \cup lost'
        BY <3>1, <3>3, HandPassed
      <4>2. hold[w][2] \in Nat /\ position[p] - 1 = hold[w][2]
        BY <3>1, InHand DEF TypeOK
      <4>3. QED
        BY <4>1, <4>2 DEF PositionOrder, Passed, Handled
    <3>4. QED
      BY <3>2, <3>3
  <2>3. CASE \E k \in Workers \ {w} : owner[p] = k /\ Reading(k, p)
    BY <2>3 DEF OnlyWorker, PositionOrder, Reading, InFlight
  <2>4. QED
    BY <2>1, <2>2, <2>3 DEF OrderInv, PositionOrder
<1>4. QED
  BY <1>1, <1>2, <1>3, OthersInOrder DEF OrderInv

\* A rebalance goes back to the committed offsets.
LEMMA RegroupOrder ==
  ASSUME OrderInv, NEW w \in Workers, OnlyWorker(w), UNCHANGED <<concluded, lost>>,
         NEW ms, Rebalance(ms), ms \subseteq members \cup {w}, WorkerOrder(w)'
  PROVE  OrderInv'
<1>1. Grows /\ NothingSkipped' /\ members' = ms
  BY DEF OrderInv, NothingSkipped, Rebalance, Grows
<1>2. \A p \in Partitions : PositionOrder(p)'
  BY <1>1 DEF NothingSkipped, PositionOrder, Passed, Handled, Rebalance
<1>3. QED
  BY <1>1, <1>2, OthersInOrder DEF OrderInv

\* A worker that stops where it stands, or starts over without a partition, leaves
\* the group in order.
LEMMA IdleOrder ==
  ASSUME TypeOK, OrderInv, NEW w \in Workers, OnlyWorker(w), UNCHANGED <<concluded, lost>>,
         UNCHANGED <<committed, position, owner, members>>,
         pc'[w] \in {"stopped", "gone"} \/ (pc'[w] = "off" /\ w \notin members),
         buffered'[w] = NoRecord
  PROVE  OrderInv'
<1>1. Grows /\ NothingSkipped'
  BY DEF OrderInv, NothingSkipped, Grows
<1>2. WorkerOrder(w)'
  BY DEF WorkerOrder, Busy
<1>3. ASSUME NEW p \in Partitions PROVE PositionOrder(p)'
  <2>1. CASE Passed(p, position[p])
    BY <2>1 DEF PositionOrder, Passed, Handled
  <2>2. CASE owner[p] = w /\ Reading(w, p)
    <3>1. w \in members
      BY <2>2, KafkaAssumption DEF TypeOK
    <3>2. QED
      BY <2>2, <3>1 DEF PositionOrder, Reading
  <2>3. CASE \E k \in Workers \ {w} : owner[p] = k /\ Reading(k, p)
    BY <2>3 DEF OnlyWorker, PositionOrder, Reading, InFlight
  <2>4. QED
    BY <2>1, <2>2, <2>3 DEF OrderInv, PositionOrder
<1>4. QED
  BY <1>1, <1>2, <1>3, OthersInOrder DEF OrderInv

\* A worker whose loop is ready to fetch has nothing in flight: where it fetches,
\* everything before is done with.
LEMMA FetchOrder ==
  ASSUME TypeOK, OrderInv, NEW w \in Workers, OnlyWorker(w), UNCHANGED <<concluded, lost>>,
         UNCHANGED <<committed, owner, members>>, pc[w] \in {"joining", "poll"}, buffered[w] = NoRecord,
         NEW p \in Partitions, owner[p] = w, position' = [position EXCEPT ![p] = @ + 1],
         NEW r, r = <<p, position[p]>>,
         \/ pc'[w] \in {"decode", "stopped"} /\ hold'[w] = r /\ buffered'[w] = NoRecord
         \/ pc'[w] = "poll" /\ buffered'[w] = r
  PROVE  OrderInv'
<1>1. Grows /\ NothingSkipped'
  BY DEF OrderInv, NothingSkipped, Grows
<1>2. /\ position \in [Partitions -> Nat] /\ r[1] = p /\ r[2] = position[p] /\ r \in Record
      /\ r # NoRecord
  BY KafkaAssumption DEF TypeOK, Record
<1>3. Passed(p, position[p])
  BY <1>2 DEF OrderInv, PositionOrder, Reading, InFlight, Busy
<1>4. WorkerOrder(w)'
  BY <1>2, <1>3 DEF WorkerOrder, Passed, Handled, Busy
<1>5. ASSUME NEW q \in Partitions PROVE PositionOrder(q)'
  <2>1. CASE q = p
    BY <1>2, <2>1 DEF PositionOrder, Reading, InFlight, Busy
  <2>2. CASE q # p
    <3>1. position'[q] = position[q]
      BY <1>2, <2>2
    <3>2. Passed(q, position[q]) \/ \E k \in Workers \ {w} : owner[q] = k /\ Reading(k, q)
      BY DEF OrderInv, PositionOrder, Reading, InFlight, Busy
    <3>3. QED
      BY <3>1, <3>2 DEF OnlyWorker, PositionOrder, Reading, InFlight, Passed, Handled
  <2>3. QED
    BY <2>1, <2>2
<1>6. QED
  BY <1>1, <1>4, <1>5, OthersInOrder DEF OrderInv

\* The buffered record becomes the record in hand, or there is none.
LEMMA TakeOrder ==
  ASSUME TypeOK, OrderInv, NEW w \in Workers, OnlyWorker(w), UNCHANGED <<concluded, lost>>,
         UNCHANGED <<committed, position, owner, members>>, pc[w] \in {"joining", "poll"},
         \/ /\ buffered[w] # NoRecord /\ hold'[w] = buffered[w]
            /\ pc'[w] \in {"decode", "stopped"} /\ buffered'[w] = NoRecord
         \/ buffered[w] = NoRecord /\ pc'[w] = "poll" /\ buffered'[w] = NoRecord
  PROVE  OrderInv'
<1>1. Grows /\ NothingSkipped'
  BY DEF OrderInv, NothingSkipped, Grows
<1>2. WorkerOrder(w)'
  BY DEF OrderInv, WorkerOrder, Passed, Handled, Busy
<1>3. ASSUME NEW p \in Partitions PROVE PositionOrder(p)'
  <2>1. CASE Passed(p, position[p])
    BY <2>1 DEF PositionOrder, Passed, Handled
  <2>2. CASE owner[p] = w /\ Reading(w, p)
    BY <2>2 DEF PositionOrder, Reading, InFlight, Busy
  <2>3. CASE \E k \in Workers \ {w} : owner[p] = k /\ Reading(k, p)
    BY <2>3 DEF OnlyWorker, PositionOrder, Reading, InFlight
  <2>4. QED
    BY <2>1, <2>2, <2>3 DEF OrderInv, PositionOrder
<1>4. QED
  BY <1>1, <1>2, <1>3, OthersInOrder DEF OrderInv

\* The order is about the records in hand and the offsets, and nothing else.
LEMMA StillInOrder ==
  ASSUME OrderInv, UNCHANGED <<concluded, lost, pc, hold, buffered>>,
         UNCHANGED <<committed, position, owner, members>>
  PROVE  OrderInv'
BY DEF OrderInv, NothingSkipped, WorkerOrder, PositionOrder, Reading, InFlight, Passed, Handled

LEMMA InitOrder == Init => OrderInv
<1> SUFFICES ASSUME Init PROVE OrderInv
  OBVIOUS
<1>1. NothingSkipped /\ \A p \in Partitions : PositionOrder(p)
  BY DEF Init, NothingSkipped, PositionOrder, Passed
<1>2. \A w \in Workers : WorkerOrder(w)
  BY DEF Init, WorkerOrder, Busy
<1>3. QED
  BY <1>1, <1>2 DEF OrderInv

\* Every step without a late ack keeps the order.
LEMMA OrderStep ==
  ASSUME TypeOK, OrderInv, [Next]_vars, lateAcks = 0, lateAcks' = 0
  PROVE  OrderInv'
<1> USE DEF groupVars, historyVars, workerVars, bounds
<1>0. \A w \in Workers : WorkerOrder(w)
  BY DEF OrderInv
<1>1. ASSUME NEW w \in Workers, RunHandler(w) PROVE OrderInv'
  <2>1. /\ Grows /\ OnlyWorker(w) /\ pc[w] \in Busy
        /\ UNCHANGED <<position, owner, members, buffered>>
    BY <1>1 DEF RunHandler, TypeOK, Grows, OnlyWorker, Busy
  <2>2. \/ committed' = committed
        \/ CommitPending(w) /\ hold[w] \in concluded' \cup lost'
    BY <1>1, <1>0 DEF RunHandler, WorkerOrder, Handled
  <2>3. \/ pc'[w] = "stopped"
        \/ /\ pc'[w] \in Busy /\ hold'[w] = hold[w]
           /\ pc'[w] \in {"ack", "settle", "ctxSettle"} => hold[w] \in concluded' \cup lost'
        \/ pc'[w] = "poll" /\ hold[w] \in concluded' \cup lost'
    BY <1>1, <1>0 DEF RunHandler, TypeOK, WorkerOrder, Handled, Busy
  <2>4. QED
    BY <2>1, <2>2, <2>3, LoopOrder
<1>2. ASSUME NEW w \in Workers, CannotDecode(w) PROVE OrderInv'
  <2>1. /\ Grows /\ OnlyWorker(w) /\ pc[w] \in Busy
        /\ UNCHANGED <<position, owner, members, buffered>>
    BY <1>2 DEF CannotDecode, FailTo, LoopFails, TypeOK, Grows, OnlyWorker, Busy
  <2>2. \/ committed' = committed
        \/ CommitPending(w) /\ hold[w] \in concluded' \cup lost'
    BY <1>2, <1>0 DEF CannotDecode, FailTo, LoopFails, WorkerOrder, Handled
  <2>3. \/ pc'[w] = "stopped"
        \/ /\ pc'[w] \in Busy /\ hold'[w] = hold[w]
           /\ pc'[w] \in {"ack", "settle", "ctxSettle"} => hold[w] \in concluded' \cup lost'
        \/ pc'[w] = "poll" /\ hold[w] \in concluded' \cup lost'
    BY <1>2, <1>0 DEF CannotDecode, FailTo, LoopFails, TypeOK, WorkerOrder, Handled, Busy
  <2>4. QED
    BY <2>1, <2>2, <2>3, LoopOrder
<1>3. ASSUME NEW w \in Workers, ContextAck(w) PROVE OrderInv'
  <2>1. /\ Grows /\ OnlyWorker(w) /\ pc[w] \in Busy
        /\ UNCHANGED <<position, owner, members, buffered>>
    BY <1>3 DEF ContextAck, Commit, Conclude, TypeOK, Grows, OnlyWorker, Busy
  <2>2. \/ committed' = committed
        \/ CommitPending(w) /\ hold[w] \in concluded' \cup lost'
    BY <1>3, <1>0 DEF ContextAck, Commit, Conclude, WorkerOrder, Handled
  <2>3. \/ pc'[w] = "stopped"
        \/ /\ pc'[w] \in Busy /\ hold'[w] = hold[w]
           /\ pc'[w] \in {"ack", "settle", "ctxSettle"} => hold[w] \in concluded' \cup lost'
        \/ pc'[w] = "poll" /\ hold[w] \in concluded' \cup lost'
    BY <1>3, <1>0 DEF ContextAck, Commit, Conclude, TypeOK, WorkerOrder, Handled, Busy
  <2>4. QED
    BY <2>1, <2>2, <2>3, LoopOrder
<1>4. ASSUME NEW w \in Workers, ContextAckThrows(w) PROVE OrderInv'
  <2>1. /\ Grows /\ OnlyWorker(w) /\ pc[w] \in Busy
        /\ UNCHANGED <<position, owner, members, buffered>>
    BY <1>4 DEF ContextAckThrows, CommitThrows, Conclude, TypeOK, Grows, OnlyWorker, Busy
  <2>2. \/ committed' = committed
        \/ CommitPending(w) /\ hold[w] \in concluded' \cup lost'
    BY <1>4, <1>0 DEF ContextAckThrows, CommitThrows, Conclude, WorkerOrder, Handled
  <2>3. \/ pc'[w] = "stopped"
        \/ /\ pc'[w] \in Busy /\ hold'[w] = hold[w]
           /\ pc'[w] \in {"ack", "settle", "ctxSettle"} => hold[w] \in concluded' \cup lost'
        \/ pc'[w] = "poll" /\ hold[w] \in concluded' \cup lost'
    BY <1>4, <1>0 DEF ContextAckThrows, CommitThrows, Conclude, TypeOK, WorkerOrder, Handled, Busy
  <2>4. QED
    BY <2>1, <2>2, <2>3, LoopOrder
<1>5. ASSUME NEW w \in Workers, ContextDeadLetter(w) PROVE OrderInv'
  <2>1. /\ Grows /\ OnlyWorker(w) /\ pc[w] \in Busy
        /\ UNCHANGED <<position, owner, members, buffered>>
    BY <1>5 DEF ContextDeadLetter, Conclude, TypeOK, Grows, OnlyWorker, Busy
  <2>2. \/ committed' = committed
        \/ CommitPending(w) /\ hold[w] \in concluded' \cup lost'
    BY <1>5, <1>0 DEF ContextDeadLetter, Conclude, WorkerOrder, Handled
  <2>3. \/ pc'[w] = "stopped"
        \/ /\ pc'[w] \in Busy /\ hold'[w] = hold[w]
           /\ pc'[w] \in {"ack", "settle", "ctxSettle"} => hold[w] \in concluded' \cup lost'
        \/ pc'[w] = "poll" /\ hold[w] \in concluded' \cup lost'
    BY <1>5, <1>0 DEF ContextDeadLetter, Conclude, TypeOK, WorkerOrder, Handled, Busy
  <2>4. QED
    BY <2>1, <2>2, <2>3, LoopOrder
<1>6. ASSUME NEW w \in Workers, ContextSettles(w) PROVE OrderInv'
  <2>1. /\ Grows /\ OnlyWorker(w) /\ pc[w] \in Busy
        /\ UNCHANGED <<position, owner, members, buffered>>
    BY <1>6 DEF ContextSettles, Commit, TypeOK, Grows, OnlyWorker, Busy
  <2>2. \/ committed' = committed
        \/ CommitPending(w) /\ hold[w] \in concluded' \cup lost'
    BY <1>6, <1>0 DEF ContextSettles, Commit, WorkerOrder, Handled
  <2>3. \/ pc'[w] = "stopped"
        \/ /\ pc'[w] \in Busy /\ hold'[w] = hold[w]
           /\ pc'[w] \in {"ack", "settle", "ctxSettle"} => hold[w] \in concluded' \cup lost'
        \/ pc'[w] = "poll" /\ hold[w] \in concluded' \cup lost'
    BY <1>6, <1>0 DEF ContextSettles, Commit, TypeOK, WorkerOrder, Handled, Busy
  <2>4. QED
    BY <2>1, <2>2, <2>3, LoopOrder
<1>7. ASSUME NEW w \in Workers, ContextSettleThrows(w) PROVE OrderInv'
  <2>1. /\ Grows /\ OnlyWorker(w) /\ pc[w] \in Busy
        /\ UNCHANGED <<position, owner, members, buffered>>
    BY <1>7 DEF ContextSettleThrows, CommitThrows, FailTo, LoopFails, TypeOK, Grows, OnlyWorker, Busy
  <2>2. \/ committed' = committed
        \/ CommitPending(w) /\ hold[w] \in concluded' \cup lost'
    BY <1>7, <1>0 DEF ContextSettleThrows, CommitThrows, FailTo, LoopFails, WorkerOrder, Handled
  <2>3. \/ pc'[w] = "stopped"
        \/ /\ pc'[w] \in Busy /\ hold'[w] = hold[w]
           /\ pc'[w] \in {"ack", "settle", "ctxSettle"} => hold[w] \in concluded' \cup lost'
        \/ pc'[w] = "poll" /\ hold[w] \in concluded' \cup lost'
    BY <1>7, <1>0 DEF ContextSettleThrows, CommitThrows, FailTo, LoopFails, TypeOK, WorkerOrder, Handled, Busy
  <2>4. QED
    BY <2>1, <2>2, <2>3, LoopOrder
<1>8. ASSUME NEW w \in Workers, HandlerReturns(w) PROVE OrderInv'
  <2>1. /\ Grows /\ OnlyWorker(w) /\ pc[w] \in Busy
        /\ UNCHANGED <<position, owner, members, buffered>>
    BY <1>8 DEF HandlerReturns, Continue, Conclude, TypeOK, Grows, OnlyWorker, Busy
  <2>2. \/ committed' = committed
        \/ CommitPending(w) /\ hold[w] \in concluded' \cup lost'
    BY <1>8, <1>0 DEF HandlerReturns, Continue, Conclude, WorkerOrder, Handled
  <2>3. \/ pc'[w] = "stopped"
        \/ /\ pc'[w] \in Busy /\ hold'[w] = hold[w]
           /\ pc'[w] \in {"ack", "settle", "ctxSettle"} => hold[w] \in concluded' \cup lost'
        \/ pc'[w] = "poll" /\ hold[w] \in concluded' \cup lost'
    BY <1>8, <1>0 DEF HandlerReturns, Continue, Conclude, TypeOK, WorkerOrder, Handled, Busy
  <2>4. QED
    BY <2>1, <2>2, <2>3, LoopOrder
<1>9. ASSUME NEW w \in Workers, HandlerThrows(w) PROVE OrderInv'
  <2>1. /\ Grows /\ OnlyWorker(w) /\ pc[w] \in Busy
        /\ UNCHANGED <<position, owner, members, buffered>>
    BY <1>9 DEF HandlerThrows, FailTo, LoopFails, TypeOK, Grows, OnlyWorker, Busy
  <2>2. \/ committed' = committed
        \/ CommitPending(w) /\ hold[w] \in concluded' \cup lost'
    BY <1>9, <1>0 DEF HandlerThrows, FailTo, LoopFails, WorkerOrder, Handled
  <2>3. \/ pc'[w] = "stopped"
        \/ /\ pc'[w] \in Busy /\ hold'[w] = hold[w]
           /\ pc'[w] \in {"ack", "settle", "ctxSettle"} => hold[w] \in concluded' \cup lost'
        \/ pc'[w] = "poll" /\ hold[w] \in concluded' \cup lost'
    BY <1>9, <1>0 DEF HandlerThrows, FailTo, LoopFails, TypeOK, WorkerOrder, Handled, Busy
  <2>4. QED
    BY <2>1, <2>2, <2>3, LoopOrder
<1>10. ASSUME NEW w \in Workers, Ack(w) PROVE OrderInv'
  <2>1. /\ Grows /\ OnlyWorker(w) /\ pc[w] \in Busy
        /\ UNCHANGED <<position, owner, members, buffered>>
    BY <1>10 DEF Ack, Commit, Continue, TypeOK, Grows, OnlyWorker, Busy
  <2>2. \/ committed' = committed
        \/ CommitPending(w) /\ hold[w] \in concluded' \cup lost'
    BY <1>10, <1>0 DEF Ack, Commit, Continue, WorkerOrder, Handled
  <2>3. \/ pc'[w] = "stopped"
        \/ /\ pc'[w] \in Busy /\ hold'[w] = hold[w]
           /\ pc'[w] \in {"ack", "settle", "ctxSettle"} => hold[w] \in concluded' \cup lost'
        \/ pc'[w] = "poll" /\ hold[w] \in concluded' \cup lost'
    BY <1>10, <1>0 DEF Ack, Commit, Continue, TypeOK, WorkerOrder, Handled, Busy
  <2>4. QED
    BY <2>1, <2>2, <2>3, LoopOrder
<1>11. ASSUME NEW w \in Workers, AckThrows(w) PROVE OrderInv'
  <2>1. /\ Grows /\ OnlyWorker(w) /\ pc[w] \in Busy
        /\ UNCHANGED <<position, owner, members, buffered>>
    BY <1>11 DEF AckThrows, CommitThrows, FailTo, LoopFails, TypeOK, Grows, OnlyWorker, Busy
  <2>2. \/ committed' = committed
        \/ CommitPending(w) /\ hold[w] \in concluded' \cup lost'
    BY <1>11, <1>0 DEF AckThrows, CommitThrows, FailTo, LoopFails, WorkerOrder, Handled
  <2>3. \/ pc'[w] = "stopped"
        \/ /\ pc'[w] \in Busy /\ hold'[w] = hold[w]
           /\ pc'[w] \in {"ack", "settle", "ctxSettle"} => hold[w] \in concluded' \cup lost'
        \/ pc'[w] = "poll" /\ hold[w] \in concluded' \cup lost'
    BY <1>11, <1>0 DEF AckThrows, CommitThrows, FailTo, LoopFails, TypeOK, WorkerOrder, Handled, Busy
  <2>4. QED
    BY <2>1, <2>2, <2>3, LoopOrder
<1>12. ASSUME NEW w \in Workers, Bury(w) PROVE OrderInv'
  <2>1. /\ Grows /\ OnlyWorker(w) /\ pc[w] \in Busy
        /\ UNCHANGED <<position, owner, members, buffered>>
    BY <1>12 DEF Bury, Conclude, TypeOK, Grows, OnlyWorker, Busy
  <2>2. \/ committed' = committed
        \/ CommitPending(w) /\ hold[w] \in concluded' \cup lost'
    BY <1>12, <1>0 DEF Bury, Conclude, WorkerOrder, Handled
  <2>3. \/ pc'[w] = "stopped"
        \/ /\ pc'[w] \in Busy /\ hold'[w] = hold[w]
           /\ pc'[w] \in {"ack", "settle", "ctxSettle"} => hold[w] \in concluded' \cup lost'
        \/ pc'[w] = "poll" /\ hold[w] \in concluded' \cup lost'
    BY <1>12, <1>0 DEF Bury, Conclude, TypeOK, WorkerOrder, Handled, Busy
  <2>4. QED
    BY <2>1, <2>2, <2>3, LoopOrder
<1>13. ASSUME NEW w \in Workers, BuryThrows(w) PROVE OrderInv'
  <2>1. /\ Grows /\ OnlyWorker(w) /\ pc[w] \in Busy
        /\ UNCHANGED <<position, owner, members, buffered>>
    BY <1>13 DEF BuryThrows, Conclude, LoopFails, TypeOK, Grows, OnlyWorker, Busy
  <2>2. \/ committed' = committed
        \/ CommitPending(w) /\ hold[w] \in concluded' \cup lost'
    BY <1>13, <1>0 DEF BuryThrows, Conclude, LoopFails, WorkerOrder, Handled
  <2>3. \/ pc'[w] = "stopped"
        \/ /\ pc'[w] \in Busy /\ hold'[w] = hold[w]
           /\ pc'[w] \in {"ack", "settle", "ctxSettle"} => hold[w] \in concluded' \cup lost'
        \/ pc'[w] = "poll" /\ hold[w] \in concluded' \cup lost'
    BY <1>13, <1>0 DEF BuryThrows, Conclude, LoopFails, TypeOK, WorkerOrder, Handled, Busy
  <2>4. QED
    BY <2>1, <2>2, <2>3, LoopOrder
<1>14. ASSUME NEW w \in Workers, Settle(w) PROVE OrderInv'
  <2>1. /\ Grows /\ OnlyWorker(w) /\ pc[w] \in Busy
        /\ UNCHANGED <<position, owner, members, buffered>>
    BY <1>14 DEF Settle, Commit, Continue, TypeOK, Grows, OnlyWorker, Busy
  <2>2. \/ committed' = committed
        \/ CommitPending(w) /\ hold[w] \in concluded' \cup lost'
    BY <1>14, <1>0 DEF Settle, Commit, Continue, WorkerOrder, Handled
  <2>3. \/ pc'[w] = "stopped"
        \/ /\ pc'[w] \in Busy /\ hold'[w] = hold[w]
           /\ pc'[w] \in {"ack", "settle", "ctxSettle"} => hold[w] \in concluded' \cup lost'
        \/ pc'[w] = "poll" /\ hold[w] \in concluded' \cup lost'
    BY <1>14, <1>0 DEF Settle, Commit, Continue, TypeOK, WorkerOrder, Handled, Busy
  <2>4. QED
    BY <2>1, <2>2, <2>3, LoopOrder
<1>15. ASSUME NEW w \in Workers, SettleThrows(w) PROVE OrderInv'
  <2>1. /\ Grows /\ OnlyWorker(w) /\ pc[w] \in Busy
        /\ UNCHANGED <<position, owner, members, buffered>>
    BY <1>15 DEF SettleThrows, CommitThrows, LoopFails, TypeOK, Grows, OnlyWorker, Busy
  <2>2. \/ committed' = committed
        \/ CommitPending(w) /\ hold[w] \in concluded' \cup lost'
    BY <1>15, <1>0 DEF SettleThrows, CommitThrows, LoopFails, WorkerOrder, Handled
  <2>3. \/ pc'[w] = "stopped"
        \/ /\ pc'[w] \in Busy /\ hold'[w] = hold[w]
           /\ pc'[w] \in {"ack", "settle", "ctxSettle"} => hold[w] \in concluded' \cup lost'
        \/ pc'[w] = "poll" /\ hold[w] \in concluded' \cup lost'
    BY <1>15, <1>0 DEF SettleThrows, CommitThrows, LoopFails, TypeOK, WorkerOrder, Handled, Busy
  <2>4. QED
    BY <2>1, <2>2, <2>3, LoopOrder
<1>16. ASSUME NEW w \in Workers, Join(w) PROVE OrderInv'
  <2>1. /\ OnlyWorker(w) /\ UNCHANGED <<concluded, lost>> /\ WorkerOrder(w)'
        /\ Rebalance(members \cup {w})
    BY <1>16, <1>0 DEF Join, TypeOK, OnlyWorker, WorkerOrder, Passed, Handled, Busy
  <2>2. QED
    BY <2>1, RegroupOrder
<1>17. ASSUME NEW w \in Workers, Evict(w) PROVE OrderInv'
  <2>1. /\ OnlyWorker(w) /\ UNCHANGED <<concluded, lost>> /\ WorkerOrder(w)'
        /\ Rebalance(members \ {w})
    BY <1>17, <1>0 DEF Evict, TypeOK, OnlyWorker, WorkerOrder, Passed, Handled, Busy
  <2>2. QED
    BY <2>1, RegroupOrder
<1>18. ASSUME NEW w \in Workers, Expel(w) PROVE OrderInv'
  <2>1. /\ OnlyWorker(w) /\ UNCHANGED <<concluded, lost>> /\ WorkerOrder(w)'
        /\ Rebalance(members \ {w})
    BY <1>18, <1>0 DEF Expel, TypeOK, OnlyWorker, WorkerOrder, Passed, Handled, Busy
  <2>2. QED
    BY <2>1, RegroupOrder
<1>19. ASSUME NEW w \in Workers, CloseEnds(w) PROVE OrderInv'
  <2>1. /\ OnlyWorker(w) /\ UNCHANGED <<concluded, lost>>
        /\ pc'[w] = "off" /\ buffered'[w] = NoRecord /\ LeaveGroup(w)
    BY <1>19 DEF CloseEnds, Forget, TypeOK, OnlyWorker
  <2>2. CASE w \in members
    <3>1. Rebalance(members \ {w}) /\ WorkerOrder(w)'
      BY <2>1, <2>2 DEF LeaveGroup, Rebalance, WorkerOrder, Busy
    <3>2. QED
      BY <2>1, <3>1, RegroupOrder
  <2>3. CASE w \notin members
    BY <2>1, <2>3, IdleOrder DEF LeaveGroup
  <2>4. QED
    BY <2>2, <2>3
<1>20. ASSUME NEW w \in Workers, Replace(w) PROVE OrderInv'
  <2>1. /\ OnlyWorker(w) /\ UNCHANGED <<concluded, lost>>
        /\ pc'[w] = "off" /\ buffered'[w] = NoRecord /\ LeaveGroup(w)
    BY <1>20 DEF Replace, Forget, TypeOK, OnlyWorker
  <2>2. CASE w \in members
    <3>1. Rebalance(members \ {w}) /\ WorkerOrder(w)'
      BY <2>1, <2>2 DEF LeaveGroup, Rebalance, WorkerOrder, Busy
    <3>2. QED
      BY <2>1, <3>1, RegroupOrder
  <2>3. CASE w \notin members
    BY <2>1, <2>3, IdleOrder DEF LeaveGroup
  <2>4. QED
    BY <2>2, <2>3
<1>21. ASSUME NEW w \in Workers, PollThrows(w) PROVE OrderInv'
  <2>1. /\ OnlyWorker(w) /\ UNCHANGED <<concluded, lost>>
        /\ UNCHANGED <<committed, position, owner, members>>
        /\ pc'[w] \in {"stopped", "gone"} /\ buffered'[w] = NoRecord
    BY <1>21 DEF PollThrows, LoopFails, TypeOK, OnlyWorker
  <2>2. QED
    BY <2>1, IdleOrder
<1>22. ASSUME NEW w \in Workers, JoinTimesOut(w) PROVE OrderInv'
  <2>1. /\ OnlyWorker(w) /\ UNCHANGED <<concluded, lost>>
        /\ UNCHANGED <<committed, position, owner, members>>
        /\ pc'[w] \in {"stopped", "gone"} /\ buffered'[w] = NoRecord
    BY <1>22 DEF JoinTimesOut, TypeOK, OnlyWorker
  <2>2. QED
    BY <2>1, IdleOrder
<1>23. ASSUME NEW w \in Workers, Crash(w) PROVE OrderInv'
  <2>1. /\ OnlyWorker(w) /\ UNCHANGED <<concluded, lost>>
        /\ UNCHANGED <<committed, position, owner, members>>
        /\ pc'[w] \in {"stopped", "gone"} /\ buffered'[w] = NoRecord
    BY <1>23 DEF Crash, Forget, TypeOK, OnlyWorker
  <2>2. QED
    BY <2>1, IdleOrder
<1>24. ASSUME NEW w \in Workers, Poll(w) PROVE OrderInv'
  <2>1. /\ OnlyWorker(w) /\ UNCHANGED <<concluded, lost>> /\ UNCHANGED <<committed, owner, members>>
        /\ pc[w] = "poll" /\ pc'[w] \in {"decode", "stopped"} /\ buffered'[w] = NoRecord
    BY <1>24 DEF Poll, TypeOK, OnlyWorker
  <2>2. CASE buffered[w] # NoRecord /\ hold' = [hold EXCEPT ![w] = buffered[w]] /\ UNCHANGED position
    <3>1. hold'[w] = buffered[w]
      BY <2>2 DEF TypeOK
    <3>2. QED
      BY <2>1, <2>2, <3>1, TakeOrder
  <2>3. ASSUME buffered[w] = NoRecord, NEW p \in Fetchable(w),
               hold' = [hold EXCEPT ![w] = <<p, position[p]>>],
               position' = [position EXCEPT ![p] = @ + 1]
        PROVE  OrderInv'
    <3>1. hold'[w] = <<p, position[p]>> /\ p \in Partitions /\ owner[p] = w
      BY <2>3 DEF TypeOK, Fetchable
    <3>2. QED
      BY <2>1, <2>3, <3>1, FetchOrder
  <2>4. QED
    BY <1>24, <2>2, <2>3 DEF Poll
<1>25. ASSUME NEW w \in Workers, Assigned(w) PROVE OrderInv'
  <2>1. /\ OnlyWorker(w) /\ UNCHANGED <<concluded, lost>> /\ UNCHANGED <<committed, owner, members>>
        /\ pc[w] = "joining" /\ pc'[w] = "poll" /\ buffered[w] = NoRecord
    BY <1>25 DEF Assigned, TypeOK, OnlyWorker
  <2>2. CASE UNCHANGED <<buffered, position>>
    BY <2>1, <2>2, TakeOrder
  <2>3. ASSUME NEW p \in Fetchable(w), buffered' = [buffered EXCEPT ![w] = <<p, position[p]>>],
               position' = [position EXCEPT ![p] = @ + 1]
        PROVE  OrderInv'
    <3>1. buffered'[w] = <<p, position[p]>> /\ p \in Partitions /\ owner[p] = w
      BY <2>3 DEF TypeOK, Fetchable
    <3>2. QED
      BY <2>1, <2>3, <3>1, FetchOrder
  <2>4. QED
    BY <1>25, <2>2, <2>3 DEF Assigned
<1>26. ASSUME NEW w \in Workers, LateAck(w) PROVE OrderInv'
  BY <1>26 DEF LateAck
<1>27. ASSUME NEW w \in Workers, CloseStart(w) PROVE OrderInv'
  BY <1>27, StillInOrder DEF CloseStart
<1>28. ASSUME NEW p \in Partitions, Enqueue(p) PROVE OrderInv'
  BY <1>28, StillInOrder DEF Enqueue
<1>29. CASE UNCHANGED vars
  BY <1>29, StillInOrder DEF vars
<1>30. QED
  BY <1>1, <1>2, <1>3, <1>4, <1>5, <1>6, <1>7, <1>8, <1>9, <1>10, <1>11, <1>12, <1>13, <1>14, <1>15, <1>16, <1>17, <1>18, <1>19, <1>20, <1>21, <1>22, <1>23, <1>24, <1>25, <1>26, <1>27, <1>28, <1>29 DEF Next, Process, Membership

Ordered == lateAcks = 0 => OrderInv

\* As long as no context of an earlier record is used, however workers join, stall,
\* crash, fail to commit and are replaced: no committed offset stands past a record
\* that was neither run nor dead-lettered, and none is taken up before all earlier
\* ones of its partition are done with (KafkaEventBus, _run and commit).
THEOREM SettledInOrder == Spec => []CommittedInOrder
<1>1. Init => Ordered
  BY InitOrder DEF Ordered
<1>2. TypeOK /\ Ordered /\ [Next]_vars => Ordered'
  <2>1. SUFFICES ASSUME TypeOK, Ordered, [Next]_vars, lateAcks' = 0 PROVE OrderInv'
    BY DEF Ordered
  <2>2. lateAcks = 0
    <3> USE DEF workerVars, bounds
    <3>1. lateAcks \in Nat
      BY <2>1 DEF TypeOK
    <3>2. ASSUME NEW w \in Workers PROVE ~LateAck(w)
      BY <2>1, <3>1 DEF LateAck
    <3>3. ASSUME NEW w \in Workers, Process(w) PROVE lateAcks' = lateAcks
      BY <3>3 DEF Process, Poll, PollThrows, RunHandler, CannotDecode, ContextAck, ContextAckThrows,
         ContextDeadLetter, ContextSettles, ContextSettleThrows, HandlerReturns, HandlerThrows,
         Ack, AckThrows, Bury, BuryThrows, Settle, SettleThrows, CloseEnds
    <3>4. ASSUME NEW w \in Workers, Membership(w) PROVE lateAcks' = lateAcks
      BY <3>4 DEF Membership, Join, Assigned, Evict, Replace
    <3>5. ASSUME NEW w \in Workers,
                 JoinTimesOut(w) \/ Expel(w) \/ CloseStart(w) \/ Crash(w)
          PROVE  lateAcks' = lateAcks
      BY <3>5 DEF JoinTimesOut, Expel, CloseStart, Crash
    <3>6. ASSUME NEW p \in Partitions, Enqueue(p) PROVE lateAcks' = lateAcks
      BY <3>6 DEF Enqueue
    <3>7. CASE UNCHANGED vars
      BY <2>1, <3>7 DEF vars
    <3>8. QED
      BY <2>1, <3>2, <3>3, <3>4, <3>5, <3>6, <3>7 DEF Next
  <2>3. QED
    BY <2>1, <2>2, OrderStep DEF Ordered
<1>3. Ordered => CommittedInOrder
  BY DEF Ordered, OrderInv, CommittedInOrder, CommittedMeansHandled, HandledInOrder, WorkerOrder, Passed, Handled
<1>4. QED
  BY <1>1, <1>2, <1>3, TypeCorrect, PTL DEF Spec

================================================================================
