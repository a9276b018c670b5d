----------------------------- MODULE PipelineProofs -----------------------------
(***************************************************************************)
(* Theorems about the inbox behind an outbox and a broker, for every set   *)
(* of messages, every finite set of handlers, and any number of faults and *)
(* publications.                                                           *)
(***************************************************************************)
EXTENDS Pipeline, FiniteSetTheorems, TLAPS

(* What the inbox does, whatever is in front of it. *)

\* Each statement of the inbox and each step of its handlers keeps the types of
\* the row and of the handlers.
LEMMA InboxTypes ==
  ASSUME TypeOK, [Next]_vars
  PROVE  TypeOK'
<1> USE InboxAssumption DEF TypeOK, rowVars, handlerVars
<1>1. ASSUME NEW h \in Handlers, NEW m \in Messages, Deliver(h, m) PROVE TypeOK'
  BY <1>1 DEF Deliver
<1>2. ASSUME NEW m \in Messages, LeaseRunsOut(m) \/ LeaseOverrun(m) PROVE TypeOK'
  BY <1>2 DEF LeaseRunsOut, LeaseOverrun, Fault
<1>3. ASSUME NEW h \in Handlers, Acquire(h) PROVE TypeOK'
  BY <1>3 DEF Acquire
<1>4. ASSUME NEW h \in Handlers, NotAcquired(h) PROVE TypeOK'
  BY <1>4 DEF NotAcquired, Return
<1>5. ASSUME NEW h \in Handlers, Apply(h) PROVE TypeOK'
  BY <1>5 DEF Apply, ApplyEffect
<1>6. ASSUME NEW h \in Handlers, ApplyThrows(h) PROVE TypeOK'
  BY <1>6 DEF ApplyThrows, Fault
<1>7. ASSUME NEW h \in Handlers, Complete(h) PROVE TypeOK'
  BY <1>7 DEF Complete, Owns, Transition, Return
<1>8. ASSUME NEW h \in Handlers, CompleteThrows(h) PROVE TypeOK'
  <2>1. CASE UNCHANGED rowVars
    BY <1>8, <2>1 DEF CompleteThrows, Fault
  <2>2. CASE Fault /\ Transition(msg[h], "completed")
    BY <1>8, <2>2 DEF CompleteThrows, Transition, Fault
  <2>3. QED
    BY <1>8, <2>1, <2>2 DEF CompleteThrows
<1>9. ASSUME NEW h \in Handlers, Fail(h) PROVE TypeOK'
  <2>1. CASE UNCHANGED rowVars
    BY <1>9, <2>1 DEF Fail, Return, Fault
  <2>2. CASE Transition(msg[h], "failed") /\ UNCHANGED faults
    BY <1>9, <2>2 DEF Fail, Return, Transition
  <2>3. QED
    BY <1>9, <2>1, <2>2 DEF Fail
<1>10. ASSUME NEW h \in Handlers, Extend(h) PROVE TypeOK'
  BY <1>10 DEF Extend, Owns
<1>11. ASSUME NEW h \in Handlers, ExtendThrows(h) PROVE TypeOK'
  BY <1>11 DEF ExtendThrows
<1>12. ASSUME NEW w \in Workers, Crash(w) PROVE TypeOK'
  BY <1>12 DEF Crash, Fault
<1>13. CASE UNCHANGED vars
  BY <1>13 DEF vars
<1>14. QED
  BY <1>1, <1>2, <1>3, <1>4, <1>5, <1>6, <1>7, <1>8, <1>9, <1>10, <1>11, <1>12, <1>13
  DEF Next, Work

\* An acknowledgement settles the delivery in hand and nothing else, and nothing but
\* the broker takes one back.
LEMMA InboxAcks ==
  ASSUME TypeOK, [Next]_vars
  PROVE  /\ \A m \in Messages : acked[m] => acked'[m]
         /\ \A m \in Messages : state'[m] = "absent" => state[m] = "absent"
         /\ \A m \in Messages : state[m] = "absent" /\ state'[m] # "absent"
              => \E h \in Handlers : msg[h] = m
         /\ \A h \in Handlers : msg'[h] \notin {msg[h], NoMessage}
              => msg'[h] \in Messages /\ ~acked[msg'[h]]
         /\ \A m \in Messages : effects'[m] \in Nat /\ effects'[m] >= effects[m]
         /\ \A h \in Handlers : pc'[h] = "complete"
              => msg'[h] = msg[h] /\ (pc[h] = "complete" \/ effects'[msg[h]] > 0)
<1> USE InboxAssumption DEF TypeOK, rowVars, handlerVars
<1> DEFINE Goal ==
      /\ \A m \in Messages : acked[m] => acked'[m]
      /\ \A m \in Messages : state'[m] = "absent" => state[m] = "absent"
      /\ \A m \in Messages : state[m] = "absent" /\ state'[m] # "absent"
           => \E h \in Handlers : msg[h] = m
      /\ \A h \in Handlers : msg'[h] \notin {msg[h], NoMessage}
           => msg'[h] \in Messages /\ ~acked[msg'[h]]
      /\ \A m \in Messages : effects'[m] \in Nat /\ effects'[m] >= effects[m]
      /\ \A h \in Handlers : pc'[h] = "complete"
           => msg'[h] = msg[h] /\ (pc[h] = "complete" \/ effects'[msg[h]] > 0)
<1>1. ASSUME NEW h \in Handlers, NEW m \in Messages, Deliver(h, m) PROVE Goal
  BY <1>1 DEF Deliver
<1>2. ASSUME NEW m \in Messages, LeaseRunsOut(m) \/ LeaseOverrun(m) PROVE Goal
  BY <1>2 DEF LeaseRunsOut, LeaseOverrun
<1>3. ASSUME NEW h \in Handlers, Acquire(h) PROVE Goal
  BY <1>3 DEF Acquire
<1>4. ASSUME NEW h \in Handlers, NotAcquired(h) PROVE Goal
  BY <1>4 DEF NotAcquired, Return
<1>5. ASSUME NEW h \in Handlers, Apply(h) PROVE Goal
  BY <1>5 DEF Apply, ApplyEffect
<1>6. ASSUME NEW h \in Handlers, ApplyThrows(h) PROVE Goal
  BY <1>6 DEF ApplyThrows
<1>7. ASSUME NEW h \in Handlers, Complete(h) PROVE Goal
  BY <1>7 DEF Complete, Owns, Transition, Return
<1>8. ASSUME NEW h \in Handlers, CompleteThrows(h) PROVE Goal
  BY <1>8 DEF CompleteThrows, Owns, Transition
<1>9. ASSUME NEW h \in Handlers, Fail(h) PROVE Goal
  BY <1>9 DEF Fail, Owns, Transition, Return
<1>10. ASSUME NEW h \in Handlers, Extend(h) \/ ExtendThrows(h) PROVE Goal
  BY <1>10 DEF Extend, ExtendThrows
<1>11. ASSUME NEW w \in Workers, Crash(w) PROVE Goal
  BY <1>11 DEF Crash
<1>12. CASE UNCHANGED vars
  BY <1>12 DEF vars
<1>13. QED
  BY <1>1, <1>2, <1>3, <1>4, <1>5, <1>6, <1>7, <1>8, <1>9, <1>10, <1>11, <1>12
  DEF Next, Work

--------------------------------------------------------------------------------
(* What is in the inbox was published, and what was published was accepted. *)

\* A handler works on messages that reached the broker, and is about to complete
\* only what it has applied.
WorkIsPublished ==
  /\ \A m \in Messages : phase[m] = "unsent" => deliveries[m] = 0
  /\ \A h \in Handlers : msg[h] # NoMessage => deliveries[msg[h]] > 0
  /\ \A h \in Handlers : pc[h] = "complete" => effects[msg[h]] > 0

PipelineInv == PipelineTypeOK /\ WorkIsPublished

\* The steps outside the inbox: the relay publishes (PostgresOutboxRelay.runOnce), the
\* outbox accepts and settles, the broker turns to the next copy.
LEMMA SourceKeepsInv ==
  ASSUME PipelineInv, NEW m \in Messages, Publish(m) \/ Outbox(m) \/ NextCopy(m)
  PROVE  PipelineInv'
<1> USE InboxAssumption DEF PipelineInv, PipelineTypeOK, WorkIsPublished, TypeOK, Source!Phase
<1>1. CASE Publish(m)
  BY <1>1 DEF Publish, Source!Deliver, vars, rowVars, handlerVars
<1>2. CASE Outbox(m)
  BY <1>2 DEF Outbox, Source!Accept, Source!Settle, Source!Bury, vars, rowVars, handlerVars
<1>3. CASE NextCopy(m)
  BY <1>3 DEF NextCopy, rowVars, handlerVars, sourceVars
<1>4. QED
  BY <1>1, <1>2, <1>3

\* The steps of the inbox leave the outbox and the broker's copies alone.
LEMMA ConsumeKeepsInv ==
  ASSUME PipelineInv, [Next]_vars, UNCHANGED <<sourceVars, copies>>
  PROVE  PipelineInv'
<1> USE InboxAssumption DEF PipelineInv
<1>1. TypeOK /\ TypeOK'
  BY InboxTypes DEF PipelineTypeOK
<1>2. UNCHANGED <<phase, deliveries, copies>>
  BY DEF sourceVars
<1>3. WorkIsPublished'
  <2>1. ASSUME NEW h \in Handlers, msg'[h] # NoMessage PROVE deliveries[msg'[h]] > 0
    <3>1. CASE msg'[h] = msg[h]
      BY <2>1, <3>1 DEF WorkIsPublished
    <3>2. CASE msg'[h] # msg[h]
      <4>1. msg'[h] \in Messages /\ ~acked[msg'[h]]
        BY <1>1, <2>1, <3>2, InboxAcks
      <4>2. QED
        BY <4>1 DEF PipelineTypeOK
    <3>3. QED
      BY <3>1, <3>2
  <2>2. ASSUME NEW h \in Handlers, pc'[h] = "complete" PROVE effects'[msg'[h]] > 0
    <3>1. msg'[h] = msg[h] /\ (pc[h] = "complete" \/ effects'[msg[h]] > 0)
      BY <1>1, <2>2, InboxAcks
    <3>2. CASE pc[h] = "complete"
      <4>1. effects[msg[h]] > 0 /\ msg[h] \in Messages
        BY <1>1, <3>2 DEF WorkIsPublished, TypeOK
      <4>2. effects[msg[h]] \in Nat /\ effects'[msg[h]] \in Nat /\ effects'[msg[h]] >= effects[msg[h]]
        BY <1>1, <4>1, InboxAcks DEF TypeOK
      <4>3. QED
        BY <3>1, <4>1, <4>2
    <3>3. QED
      BY <3>1, <3>2
  <2>3. QED
    BY <1>2, <2>1, <2>2 DEF WorkIsPublished
<1>4. ASSUME NEW m \in Messages, deliveries[m] = 0 PROVE acked'[m] /\ state'[m] = "absent"
  <2>1. acked[m] /\ state[m] = "absent"
    BY <1>4 DEF PipelineTypeOK
  <2>2. \A h \in Handlers : msg[h] # m
    BY <1>4, InboxAssumption DEF WorkIsPublished
  <2>3. QED
    BY <1>1, <2>1, <2>2, InboxAcks
<1>5. QED
  BY <1>1, <1>2, <1>3, <1>4 DEF PipelineTypeOK

\* PipelineInv is inductive.
LEMMA PipelineInvariant == PipelineSpec => []PipelineInv
<1>1. PipelineInit => PipelineInv
  BY InboxAssumption
  DEF PipelineInit, InitWith, Source!Init, Source!Phase, PipelineInv, PipelineTypeOK, TypeOK,
      WorkIsPublished
<1>2. PipelineInv /\ [PipelineNext]_pipelineVars => PipelineInv'
  <2> SUFFICES ASSUME PipelineInv, [PipelineNext]_pipelineVars PROVE PipelineInv'
    OBVIOUS
  <2>1. CASE UNCHANGED pipelineVars
    BY <2>1, ConsumeKeepsInv DEF pipelineVars
  <2>2. CASE Consume
    BY <2>2, ConsumeKeepsInv DEF Consume
  <2>3. QED
    BY <2>1, <2>2, SourceKeepsInv DEF PipelineNext
<1>3. QED
  BY <1>1, <1>2, PTL DEF PipelineSpec

\* Every state of the pipeline is well typed: in particular a message that was never
\* published is unknown to the inbox, and the broker holds only what was published.
THEOREM PipelineTypeCorrect == PipelineSpec => []PipelineTypeOK
<1>1. PipelineInv => PipelineTypeOK
  BY DEF PipelineInv
<1>2. QED
  BY <1>1, PipelineInvariant, PTL

--------------------------------------------------------------------------------
(* The promise, end to end. *)

\* complete records a side effect that ran: the promise is settled.
LEMMA CompletionSettles ==
  ASSUME PipelineInv, NEW m \in Messages, state[m] = "processing", effects[m] > 0,
         Transition(m, "completed"), UNCHANGED <<effects, phase>>
  PROVE  EndToEnd!Settle(m)
<1> USE DEF PipelineInv, PipelineTypeOK, TypeOK
<1>1. phase[m] # "unsent"
  BY DEF WorkIsPublished
<1>2. EndPhase[m] = "owed"
  BY <1>1 DEF EndPhase
<1>3. EndPhase' = [EndPhase EXCEPT ![m] = "settled"]
  BY DEF EndPhase, Transition
<1>4. QED
  BY <1>2, <1>3 DEF EndToEnd!Settle

\* A side effect is a delivery of the promise, and it is of an accepted message.
LEMMA EffectDelivers ==
  ASSUME PipelineInv, NEW h \in Handlers, msg[h] \in Messages, NEW ran \in {0, 1},
         effects' = [effects EXCEPT ![msg[h]] = @ + ran], UNCHANGED <<rowVars, phase>>
  PROVE  EndToEnd!Deliver(msg[h]) \/ UNCHANGED EndToEnd!vars
<1> USE DEF PipelineInv, PipelineTypeOK, TypeOK
<1>1. EndPhase' = EndPhase
  BY DEF EndPhase, rowVars
<1>2. CASE ran = 0
  BY <1>1, <1>2 DEF EndToEnd!vars
<1>3. CASE ran = 1
  <2>1. phase[msg[h]] # "unsent"
    BY InboxAssumption DEF WorkIsPublished
  <2>2. EndPhase[msg[h]] # "unsent"
    BY <2>1 DEF EndPhase
  <2>3. QED
    BY <1>1, <1>3, <2>2 DEF EndToEnd!Deliver
<1>4. QED
  BY <1>2, <1>3

\* No other step changes what is owed: completed messages stay completed and no
\* others become it.
LEMMA OtherwiseOwedAlike ==
  ASSUME UNCHANGED <<effects, phase>>,
         \A m \in Messages : state'[m] = "completed" <=> state[m] = "completed"
  PROVE  UNCHANGED EndToEnd!vars
<1>1. EndPhase' = EndPhase
  BY DEF EndPhase
<1>2. QED
  BY <1>1 DEF EndToEnd!vars

\* Each step of the inbox is a step of the promise or none.
LEMMA ConsumeKeepsPromise ==
  ASSUME PipelineInv, Next, UNCHANGED sourceVars
  PROVE  EndToEnd!Next \/ UNCHANGED EndToEnd!vars
<1> DEFINE Goal == EndToEnd!Next \/ UNCHANGED EndToEnd!vars
<1> USE InboxAssumption
<1>0. TypeOK /\ UNCHANGED phase
  BY DEF PipelineInv, PipelineTypeOK, sourceVars
<1>1. ASSUME NEW h \in Handlers, NEW m \in Messages, Deliver(h, m) PROVE Goal
  BY <1>0, <1>1, OtherwiseOwedAlike DEF Deliver, rowVars
<1>2. ASSUME NEW m \in Messages, LeaseRunsOut(m) \/ LeaseOverrun(m) PROVE Goal
  BY <1>0, <1>2, OtherwiseOwedAlike DEF LeaseRunsOut, LeaseOverrun
<1>3. ASSUME NEW h \in Handlers, Acquire(h) PROVE Goal
  <2>1. \A m \in Messages : state'[m] = "completed" <=> state[m] = "completed"
    BY <1>0, <1>3 DEF Acquire, Acquirable, TypeOK
  <2>2. QED
    BY <1>0, <1>3, <2>1, OtherwiseOwedAlike DEF Acquire
<1>4. ASSUME NEW h \in Handlers, NotAcquired(h) \/ Extend(h) \/ ExtendThrows(h) PROVE Goal
  BY <1>0, <1>4, OtherwiseOwedAlike DEF NotAcquired, Extend, ExtendThrows, rowVars
<1>5. ASSUME NEW h \in Handlers, Apply(h) \/ ApplyThrows(h) PROVE Goal
  <2>1. msg[h] \in Messages /\ UNCHANGED rowVars
    BY <1>0, <1>5 DEF Apply, ApplyEffect, ApplyThrows, TypeOK
  <2>2. PICK ran \in {0, 1} : effects' = [effects EXCEPT ![msg[h]] = @ + ran]
    BY <1>5 DEF Apply, ApplyEffect, ApplyThrows
  <2>3. QED
    BY <1>0, <2>1, <2>2, EffectDelivers DEF EndToEnd!Next
<1>6. ASSUME NEW h \in Handlers, Owns(h, msg[h]), pc[h] = "complete",
             Transition(msg[h], "completed"), UNCHANGED effects
      PROVE  Goal
  <2>1. msg[h] \in Messages /\ effects[msg[h]] > 0
    BY <1>0, <1>6 DEF PipelineInv, WorkIsPublished, TypeOK
  <2>2. QED
    BY <1>0, <1>6, <2>1, CompletionSettles DEF Owns, EndToEnd!Next
<1>7. ASSUME UNCHANGED <<rowVars, effects>> PROVE Goal
  BY <1>0, <1>7, OtherwiseOwedAlike DEF rowVars
<1>8. ASSUME NEW h \in Handlers, Complete(h) PROVE Goal
  BY <1>6, <1>8 DEF Complete
<1>9. ASSUME NEW h \in Handlers, CompleteThrows(h) PROVE Goal
  BY <1>6, <1>7, <1>9 DEF CompleteThrows
<1>10. ASSUME NEW h \in Handlers, Fail(h) PROVE Goal
  <2>1. CASE Owns(h, msg[h]) /\ Transition(msg[h], "failed")
    <3>1. \A m \in Messages : state'[m] = "completed" <=> state[m] = "completed"
      BY <1>0, <2>1 DEF Owns, Transition, TypeOK
    <3>2. QED
      BY <1>0, <1>10, <3>1, OtherwiseOwedAlike DEF Fail
  <2>2. CASE UNCHANGED rowVars
    BY <1>7, <1>10, <2>2 DEF Fail
  <2>3. QED
    BY <1>10, <2>1, <2>2 DEF Fail
<1>11. ASSUME NEW w \in Workers, Crash(w) PROVE Goal
  BY <1>0, <1>11, OtherwiseOwedAlike DEF Crash, rowVars
<1>12. QED
  BY <1>1, <1>2, <1>3, <1>4, <1>5, <1>8, <1>9, <1>10, <1>11 DEF Next, Work

\* From the producer's transaction to the side effect: whatever is published twice,
\* redelivered, crashed or lost on the way, an accepted message is owed until its
\* effect ran and the inbox recorded it, and it is then completed for good.
THEOREM PipelineImplementsPromise == PipelineSpec => EndToEndPromise
<1>1. PipelineInit => EndToEnd!Init
  BY DEF PipelineInit, InitWith, Source!Init, EndToEnd!Init, EndPhase
<1>2. PipelineInv /\ [PipelineNext]_pipelineVars => [EndToEnd!Next]_(EndToEnd!vars)
  <2> SUFFICES ASSUME PipelineInv, [PipelineNext]_pipelineVars
               PROVE  EndToEnd!Next \/ UNCHANGED EndToEnd!vars
    OBVIOUS
  <2>1. ASSUME NEW m \in Messages, Publish(m) \/ NextCopy(m) PROVE UNCHANGED EndToEnd!vars
    BY <2>1, OtherwiseOwedAlike
    DEF Publish, NextCopy, Source!Deliver, vars, rowVars, sourceVars
  <2>2. ASSUME NEW m \in Messages, Outbox(m) PROVE EndToEnd!Next \/ UNCHANGED EndToEnd!vars
    <3>1. UNCHANGED <<state, effects>>
      BY <2>2 DEF Outbox, vars, rowVars
    <3>2. CASE Source!Accept(m)
      <4>1. state[m] = "absent" /\ phase[m] = "unsent"
        BY <3>2 DEF Source!Accept, PipelineInv, PipelineTypeOK, WorkIsPublished
      <4>2. EndPhase[m] = "unsent" /\ EndPhase' = [EndPhase EXCEPT ![m] = "owed"]
        BY <3>1, <3>2, <4>1 DEF Source!Accept, EndPhase, PipelineInv, PipelineTypeOK
      <4>3. EndToEnd!Accept(m)
        BY <3>1, <4>2 DEF EndToEnd!Accept
      <4>4. QED
        BY <4>3 DEF EndToEnd!Next
    <3>3. CASE Source!Settle(m) \/ Source!Bury(m)
      <4>1. EndPhase' = EndPhase
        BY <3>1, <3>3 DEF Source!Settle, Source!Bury, EndPhase, PipelineInv, PipelineTypeOK
      <4>2. QED
        BY <3>1, <4>1 DEF EndToEnd!vars
    <3>4. QED
      BY <2>2, <3>2, <3>3 DEF Outbox
  <2>3. CASE Consume
    BY <2>3, ConsumeKeepsPromise DEF Consume
  <2>4. CASE UNCHANGED pipelineVars
    BY <2>4, OtherwiseOwedAlike DEF pipelineVars, vars, rowVars, sourceVars
  <2>5. QED
    BY <2>1, <2>2, <2>3, <2>4 DEF PipelineNext
<1>3. QED
  BY <1>1, <1>2, PipelineInvariant, PTL DEF PipelineSpec, EndToEndPromise, EndToEnd!Spec

--------------------------------------------------------------------------------
(* Leases, when every handler has a worker id of its own. *)

OwnWorkerIds == \A g, h \in Handlers : WorkerOf[g] = WorkerOf[h] => g = h

\* The row names the worker of the handler that acquired it last.
HolderLocks ==
  \A m \in Messages :
    state[m] = "processing" => holder[m] \in Handlers /\ lockedBy[m] = WorkerOf[holder[m]]

LeaseInv == PipelineInv /\ HolderLocks

\* acquire sets both, and no other statement makes a row processing.
LEMMA HolderLocksKept ==
  ASSUME TypeOK, HolderLocks, [Next]_vars
  PROVE  HolderLocks'
<1> USE InboxAssumption DEF TypeOK, HolderLocks, rowVars
<1>1. ASSUME NEW h \in Handlers, Acquire(h) PROVE HolderLocks'
  BY <1>1 DEF Acquire
<1>2. ASSUME NEW h \in Handlers, NEW next \in {"completed", "failed"}, msg[h] \in Messages,
             Transition(msg[h], next)
      PROVE  HolderLocks'
  BY <1>2 DEF Transition
<1>3. ASSUME UNCHANGED <<state, lockedBy, holder>> PROVE HolderLocks'
  BY <1>3
<1>4. ASSUME NEW h \in Handlers, Complete(h) \/ CompleteThrows(h) \/ Fail(h)
      PROVE  HolderLocks'
  BY <1>2, <1>3, <1>4 DEF Complete, CompleteThrows, Fail
<1>5. ASSUME NEW h \in Handlers, Work(h) PROVE HolderLocks'
  BY <1>1, <1>3, <1>4, <1>5 DEF Work, NotAcquired, Apply, ApplyThrows
<1>6. ASSUME \/ \E h \in Handlers : Extend(h) \/ ExtendThrows(h)
             \/ \E h \in Handlers, m \in Messages : Deliver(h, m)
             \/ \E m \in Messages : LeaseRunsOut(m) \/ LeaseOverrun(m)
             \/ \E w \in Workers : Crash(w)
             \/ UNCHANGED vars
      PROVE  HolderLocks'
  BY <1>3, <1>6
  DEF Extend, ExtendThrows, Deliver, LeaseRunsOut, LeaseOverrun, Crash, vars
<1>7. QED
  BY <1>5, <1>6 DEF Next

\* Outside the inbox nothing touches its rows, its handlers or its faults.
LEMMA InboxStep ==
  ASSUME [PipelineNext]_pipelineVars
  PROVE  [Next]_vars \/ UNCHANGED <<rowVars, handlerVars, effects, faults>>
<1>1. ASSUME NEW m \in Messages, Publish(m) \/ Outbox(m) \/ NextCopy(m)
      PROVE  UNCHANGED <<rowVars, handlerVars, effects, faults>>
  BY <1>1 DEF Publish, Outbox, NextCopy, vars
<1>2. QED
  BY <1>1 DEF PipelineNext, Consume, pipelineVars

\* The two invariants of this section together.
LEMMA LeaseInvariant == PipelineSpec => []LeaseInv
<1>1. PipelineInit => HolderLocks
  BY DEF PipelineInit, InitWith, HolderLocks
<1>2. PipelineInv /\ HolderLocks /\ [PipelineNext]_pipelineVars => HolderLocks'
  <2> SUFFICES ASSUME PipelineInv, HolderLocks, [PipelineNext]_pipelineVars
               PROVE  HolderLocks'
    OBVIOUS
  <2>1. CASE [Next]_vars
    BY <2>1, HolderLocksKept DEF PipelineInv, PipelineTypeOK
  <2>2. CASE UNCHANGED <<rowVars, handlerVars, effects, faults>>
    BY <2>2 DEF HolderLocks, rowVars
  <2>3. QED
    BY <2>1, <2>2, InboxStep
<1>3. QED
  BY <1>1, <1>2, PipelineInvariant, PTL DEF PipelineSpec, LeaseInv

\* A handler whose worker id is on the row is the one that acquired it.
LEMMA OwnerHolds ==
  ASSUME OwnWorkerIds, TypeOK, HolderLocks,
         NEW h \in Handlers, NEW m \in Messages, Owns(h, m)
  PROVE  holder[m] = h
BY DEF OwnWorkerIds, TypeOK, HolderLocks, Owns

\* A live lease is ended only by the handler that acquired it: the guard of the
\* statements in postgres_inbox.dart, the worker id, is enough when no two handlers
\* share one, whatever leases were overrun before.
THEOREM HolderSettles ==
  ASSUME OwnWorkerIds
  PROVE  PipelineSpec => OnlyHolderSettles
<1> DEFINE Settled(m) ==
      (lease[m] = "future" /\ state'[m] # "processing")
        => pc[holder[m]] \in {"complete", "fail"} /\ msg[holder[m]] = m
           /\ pc'[holder[m]] # pc[holder[m]]
<1>1. LeaseInv /\ [PipelineNext]_pipelineVars => [\A m \in Messages : Settled(m)]_vars
  <2> SUFFICES ASSUME LeaseInv, [PipelineNext]_pipelineVars, ~UNCHANGED vars,
                      NEW m \in Messages, lease[m] = "future", state'[m] # "processing"
               PROVE  pc[holder[m]] \in {"complete", "fail"} /\ msg[holder[m]] = m
                        /\ pc'[holder[m]] # pc[holder[m]]
    OBVIOUS
  <2> USE InboxAssumption
  <2>1. TypeOK /\ HolderLocks /\ state[m] = "processing"
    BY DEF LeaseInv, PipelineInv, PipelineTypeOK, TypeOK
  <2>2. Next
    BY <2>1, InboxStep DEF vars, rowVars
  <2>3. ASSUME NEW h \in Handlers, Complete(h) \/ CompleteThrows(h) \/ Fail(h)
        PROVE  /\ Owns(h, msg[h]) /\ msg[h] = m
               /\ pc[h] \in {"complete", "fail"} /\ pc'[h] # pc[h]
    BY <2>1, <2>3 DEF Complete, CompleteThrows, Fail, Transition, Return, rowVars, TypeOK
  <2>4. ASSUME NEW h \in Handlers,
               Acquire(h) \/ NotAcquired(h) \/ Apply(h) \/ ApplyThrows(h)
                 \/ Extend(h) \/ ExtendThrows(h)
        PROVE  FALSE
    BY <2>1, <2>4
    DEF Acquire, NotAcquired, Apply, ApplyThrows, Extend, ExtendThrows, rowVars, TypeOK
  <2>5. ASSUME \/ \E h \in Handlers, n \in Messages : Deliver(h, n)
               \/ \E n \in Messages : LeaseRunsOut(n) \/ LeaseOverrun(n)
               \/ \E w \in Workers : Crash(w)
        PROVE  FALSE
    BY <2>1, <2>5 DEF Deliver, LeaseRunsOut, LeaseOverrun, Crash, rowVars
  <2>6. PICK h \in Handlers : Complete(h) \/ CompleteThrows(h) \/ Fail(h)
    BY <2>2, <2>4, <2>5 DEF Next, Work
  <2>7. holder[m] = h
    BY <2>1, <2>3, <2>6, OwnerHolds
  <2>8. QED
    BY <2>3, <2>6, <2>7
<1>2. QED
  BY <1>1, LeaseInvariant, PTL DEF PipelineSpec, OnlyHolderSettles

--------------------------------------------------------------------------------
(* No effect twice without a fault. *)

\* The handlers about to run the side effect of m.
Applying(m) == {h \in Handlers : msg[h] = m /\ pc[h] = "apply"}

\* The handler that acquired m is on the way to complete it in time.
InHand(m) ==
  /\ lease[m] = "future"
  /\ \E h \in Handlers : holder[m] = h /\ msg[h] = m /\ pc[h] \in {"apply", "complete"}

\* Otherwise some handler may acquire m, now or after the lease has run out.
Open(m) == IF state[m] = "completed" \/ InHand(m) THEN 0 ELSE 1

\* DuplicatesNeedFaults is not inductive: a handler that was let in is about to run
\* the effect once more, and a message that is open lets one in.  Together they never
\* come to more than one effect, and one for each fault.
EffectsAccounted ==
  \A m \in Messages : effects[m] + Cardinality(Applying(m)) + Open(m) <= 1 + faults

\* The handlers of a message are finitely many, so they can be counted.
LEMMA ApplyingFinite ==
  ASSUME NEW m \in Messages
  PROVE  IsFiniteSet(Applying(m)) /\ Cardinality(Applying(m)) \in Nat
<1>1. Applying(m) \subseteq Handlers
  BY DEF Applying
<1>2. IsFiniteSet(Applying(m))
  BY <1>1, InboxAssumption, FS_Subset
<1>3. QED
  BY <1>2, FS_CardinalityType

\* Steps that let nobody in do not add to the handlers about to apply.
LEMMA NobodyApplies ==
  ASSUME NEW m \in Messages, Applying(m)' \subseteq Applying(m)
  PROVE  Cardinality(Applying(m)') \in Nat
         /\ Cardinality(Applying(m)') <= Cardinality(Applying(m))
<1>1. IsFiniteSet(Applying(m)) /\ Cardinality(Applying(m)) \in Nat
  BY ApplyingFinite
<1>2. IsFiniteSet(Applying(m)') /\ Cardinality(Applying(m)') <= Cardinality(Applying(m))
  BY <1>1, FS_Subset
<1>3. QED
  BY <1>2, FS_CardinalityType

\* A handler that leaves "apply" is one less.
LEMMA OneApplied ==
  ASSUME TypeOK, NEW h \in Handlers, pc[h] = "apply", UNCHANGED msg,
         pc' = [pc EXCEPT ![h] = "complete"] \/ pc' = [pc EXCEPT ![h] = "fail"],
         NEW m \in Messages
  PROVE  Cardinality(Applying(m)') =
           Cardinality(Applying(m)) - (IF msg[h] = m THEN 1 ELSE 0)
<1>1. IsFiniteSet(Applying(m)) /\ Cardinality(Applying(m)) \in Nat
  BY ApplyingFinite
<1>2. CASE msg[h] = m
  <2>1. h \in Applying(m) /\ Applying(m)' = Applying(m) \ {h}
    BY <1>2 DEF Applying, TypeOK
  <2>2. QED
    BY <1>1, <1>2, <2>1, FS_RemoveElement
<1>3. CASE msg[h] # m
  <2>1. Applying(m)' = Applying(m)
    BY <1>3 DEF Applying, TypeOK
  <2>2. QED
    BY <1>1, <1>3, <2>1
<1>4. QED
  BY <1>2, <1>3

Account(m) == effects[m] + Cardinality(Applying(m)) + Open(m)

\* A fault pays for one effect, or for opening the message once more, when nobody is
\* let in.
LEMMA FaultPays ==
  ASSUME TypeOK, EffectsAccounted, NEW m \in Messages, Fault,
         UNCHANGED effects, Applying(m)' \subseteq Applying(m)
  PROVE  Account(m)' <= 1 + faults'
<1>1. effects[m] + Cardinality(Applying(m)) + Open(m) <= 1 + faults
  BY DEF EffectsAccounted
<1>2. Cardinality(Applying(m)) \in Nat /\ Cardinality(Applying(m)') \in Nat
        /\ Cardinality(Applying(m)') <= Cardinality(Applying(m))
  BY ApplyingFinite, NobodyApplies
<1>3. Open(m) \in {0, 1} /\ Open(m)' \in {0, 1}
  BY DEF Open
<1>4. effects[m] \in Nat /\ faults \in Nat /\ faults' = faults + 1
  BY DEF TypeOK, Fault
<1>5. QED
  BY <1>1, <1>2, <1>3, <1>4 DEF Account

\* A step without a fault that neither runs an effect, lets anybody in nor opens m.
LEMMA NothingOpens ==
  ASSUME TypeOK, EffectsAccounted, NEW m \in Messages, UNCHANGED <<effects, faults>>,
         Applying(m)' \subseteq Applying(m), Open(m) = 0 => Open(m)' = 0
  PROVE  Account(m)' <= 1 + faults'
<1>1. effects[m] + Cardinality(Applying(m)) + Open(m) <= 1 + faults
  BY DEF EffectsAccounted
<1>2. Cardinality(Applying(m)) \in Nat /\ Cardinality(Applying(m)') \in Nat
        /\ Cardinality(Applying(m)') <= Cardinality(Applying(m))
  BY ApplyingFinite, NobodyApplies
<1>3. Open(m) \in {0, 1} /\ Open(m)' \in {0, 1}
  BY DEF Open
<1>4. effects[m] \in Nat /\ faults \in Nat
  BY DEF TypeOK
<1>5. QED
  BY <1>1, <1>2, <1>3, <1>4 DEF Account

\* acquire takes an open message in hand; the side effect takes a handler's place; and
\* what opens a message again is a fault, or comes from a handler that lost it.
LEMMA EffectsKept ==
  ASSUME OwnWorkerIds, TypeOK, HolderLocks, EffectsAccounted, Next, NEW m \in Messages
  PROVE  Account(m)' <= 1 + faults'
<1> USE InboxAssumption
<1> DEFINE Kept == Account(m)' <= 1 + faults'
<1>0. /\ effects[m] + Cardinality(Applying(m)) + Open(m) <= 1 + faults
      /\ Cardinality(Applying(m)) \in Nat /\ effects[m] \in Nat /\ faults \in Nat
      /\ Open(m) \in {0, 1} /\ Open(m)' \in {0, 1}
  BY ApplyingFinite DEF EffectsAccounted, TypeOK, Open
<1>1. ASSUME NEW h \in Handlers, NEW n \in Messages, Deliver(h, n) PROVE Kept
  <2>1. Applying(m)' \subseteq Applying(m)
    BY <1>1 DEF Deliver, Applying, TypeOK
  <2>2. Open(m) = 0 => Open(m)' = 0
    BY <1>1 DEF Deliver, Open, InHand, rowVars, TypeOK
  <2>3. QED
    BY <1>1, <2>1, <2>2, NothingOpens DEF Deliver
<1>2. ASSUME NEW n \in Messages, LeaseRunsOut(n) PROVE Kept
  <2>1. Applying(m)' \subseteq Applying(m)
    BY <1>2 DEF LeaseRunsOut, Applying, handlerVars
  <2>2. Open(m) = 0 => Open(m)' = 0
    BY <1>2 DEF LeaseRunsOut, Open, InHand, handlerVars, TypeOK
  <2>3. QED
    BY <1>2, <2>1, <2>2, NothingOpens DEF LeaseRunsOut
<1>3. ASSUME NEW n \in Messages, LeaseOverrun(n) PROVE Kept
  BY <1>3, FaultPays DEF LeaseOverrun, Applying, handlerVars
<1>4. ASSUME NEW h \in Handlers, Acquire(h) PROVE Kept
  <2>1. CASE msg[h] = m
    <3>1. h \notin Applying(m) /\ Applying(m)' = Applying(m) \cup {h}
      BY <1>4, <2>1 DEF Acquire, Applying, TypeOK
    <3>2. Cardinality(Applying(m)') = Cardinality(Applying(m)) + 1
      BY <3>1, ApplyingFinite, FS_AddElement
    <3>3. Open(m) = 1 /\ Open(m)' = 0
      BY <1>4, <2>1 DEF Acquire, Acquirable, Open, InHand, TypeOK
    <3>4. QED
      BY <1>0, <1>4, <3>2, <3>3 DEF Acquire, Account
  <2>2. CASE msg[h] # m
    <3>1. Applying(m)' \subseteq Applying(m)
      BY <1>4, <2>2 DEF Acquire, Applying, TypeOK
    <3>2. Open(m) = 0 => Open(m)' = 0
      BY <1>4, <2>2 DEF Acquire, Open, InHand, TypeOK
    <3>3. QED
      BY <1>4, <3>1, <3>2, NothingOpens DEF Acquire
  <2>3. QED
    BY <2>1, <2>2
<1>5. ASSUME NEW h \in Handlers, NotAcquired(h) PROVE Kept
  <2>1. Applying(m)' \subseteq Applying(m)
    BY <1>5 DEF NotAcquired, Return, Applying, TypeOK
  <2>2. Open(m) = 0 => Open(m)' = 0
    BY <1>5 DEF NotAcquired, Return, Open, InHand, rowVars, TypeOK
  <2>3. QED
    BY <1>5, <2>1, <2>2, NothingOpens DEF NotAcquired
<1>6. ASSUME NEW h \in Handlers, Apply(h) PROVE Kept
  <2>1. Cardinality(Applying(m)') =
          Cardinality(Applying(m)) - (IF msg[h] = m THEN 1 ELSE 0)
    BY <1>6, OneApplied DEF Apply, ApplyEffect
  <2>2. Open(m)' = Open(m)
    BY <1>6 DEF Apply, ApplyEffect, Open, InHand, rowVars, TypeOK
  <2>3. effects'[m] = effects[m] + (IF msg[h] = m THEN 1 ELSE 0) /\ faults' = faults
    BY <1>6 DEF Apply, ApplyEffect, TypeOK
  <2>4. QED
    BY <1>0, <2>1, <2>2, <2>3 DEF Account
<1>7. ASSUME NEW h \in Handlers, ApplyThrows(h) PROVE Kept
  <2>1. Cardinality(Applying(m)') =
          Cardinality(Applying(m)) - (IF msg[h] = m THEN 1 ELSE 0)
    BY <1>7, OneApplied DEF ApplyThrows
  <2>2. msg[h] # m => Open(m)' = Open(m)
    BY <1>7 DEF ApplyThrows, Open, InHand, rowVars, TypeOK
  <2>3. PICK ran \in {0, 1} : effects' = [effects EXCEPT ![msg[h]] = @ + ran]
    BY <1>7 DEF ApplyThrows
  <2>4. effects'[m] = effects[m] + (IF msg[h] = m THEN ran ELSE 0) /\ faults' = faults + 1
    BY <1>7, <2>3 DEF ApplyThrows, Fault, TypeOK
  <2>5. QED
    BY <1>0, <2>1, <2>2, <2>4 DEF Account
<1>8. ASSUME NEW h \in Handlers, Extend(h) PROVE Kept
  <2>1. Applying(m)' \subseteq Applying(m)
    BY <1>8 DEF Extend, Applying, handlerVars
  <2>2. Open(m) = 0 => Open(m)' = 0
    BY <1>8 DEF Extend, Open, InHand, handlerVars, TypeOK
  <2>3. QED
    BY <1>8, <2>1, <2>2, NothingOpens DEF Extend
<1>9. ASSUME NEW h \in Handlers, ~Owns(h, msg[h]), pc[h] \in {"apply", "complete"},
             pc' = [pc EXCEPT ![h] = "fail"], UNCHANGED <<rowVars, msg, effects, faults>>
      PROVE  Kept
  <2>1. Applying(m)' \subseteq Applying(m)
    BY <1>9 DEF Applying, TypeOK
  <2>2. CASE holder[m] = h /\ msg[h] = m
    <3>1. state[m] # "processing"
      BY <1>9, <2>2 DEF Owns, HolderLocks
    <3>2. Open(m)' = Open(m)
      BY <1>9, <3>1 DEF Open, InHand, rowVars, TypeOK
    <3>3. QED
      BY <1>9, <2>1, <3>2, NothingOpens
  <2>3. CASE ~(holder[m] = h /\ msg[h] = m)
    <3>1. Open(m)' = Open(m)
      BY <1>9, <2>3 DEF Open, InHand, rowVars, TypeOK
    <3>2. QED
      BY <1>9, <2>1, <3>1, NothingOpens
  <2>4. QED
    BY <2>2, <2>3
<1>10. ASSUME NEW h \in Handlers, Complete(h) PROVE Kept
  <2>1. Applying(m)' \subseteq Applying(m)
    BY <1>10 DEF Complete, Return, Applying, TypeOK
  <2>2. Open(m) = 0 => Open(m)' = 0
    BY <1>10 DEF Complete, Transition, Return, Open, InHand, TypeOK
  <2>3. QED
    BY <1>10, <2>1, <2>2, NothingOpens DEF Complete
<1>11. ASSUME NEW h \in Handlers, CompleteThrows(h) PROVE Kept
  <2>1. Applying(m)' \subseteq Applying(m)
    BY <1>11 DEF CompleteThrows, Applying, TypeOK
  <2>2. CASE Fault
    BY <1>11, <2>1, <2>2, FaultPays DEF CompleteThrows
  <2>3. CASE ~Owns(h, msg[h]) /\ UNCHANGED <<rowVars, faults>>
    BY <1>9, <1>11, <2>3 DEF CompleteThrows
  <2>4. QED
    BY <1>11, <2>2, <2>3 DEF CompleteThrows
<1>12. ASSUME NEW h \in Handlers, Fail(h) PROVE Kept
  <2>1. Applying(m)' \subseteq Applying(m)
    BY <1>12 DEF Fail, Return, Applying, TypeOK
  <2>2. CASE Fault
    BY <1>12, <2>1, <2>2, FaultPays DEF Fail
  <2>3. CASE Owns(h, msg[h]) /\ Transition(msg[h], "failed") /\ UNCHANGED faults
    <3>1. holder[msg[h]] = h
      BY <1>12, <2>3, OwnerHolds DEF Fail, TypeOK
    <3>2. Open(m) = 0 => Open(m)' = 0
      BY <1>12, <2>3, <3>1 DEF Fail, Owns, Transition, Return, Open, InHand, TypeOK
    <3>3. QED
      BY <1>12, <2>1, <2>3, <3>2, NothingOpens DEF Fail
  <2>4. CASE ~Owns(h, msg[h]) /\ UNCHANGED <<rowVars, faults>>
    <3>1. Open(m) = 0 => Open(m)' = 0
      BY <1>12, <2>4 DEF Fail, Return, Open, InHand, rowVars, TypeOK
    <3>2. QED
      BY <1>12, <2>1, <2>4, <3>1, NothingOpens DEF Fail
  <2>5. QED
    BY <1>12, <2>2, <2>3, <2>4 DEF Fail
<1>13. ASSUME NEW h \in Handlers, ExtendThrows(h) PROVE Kept
  BY <1>9, <1>13 DEF ExtendThrows
<1>14. ASSUME NEW w \in Workers, Crash(w) PROVE Kept
  <2>1. Applying(m)' \subseteq Applying(m)
    BY <1>14 DEF Crash, Applying, TypeOK
  <2>2. QED
    BY <1>14, <2>1, FaultPays DEF Crash
<1>15. QED
  BY <1>1, <1>2, <1>3, <1>4, <1>5, <1>6, <1>7, <1>8, <1>10, <1>11, <1>12, <1>13, <1>14
  DEF Next, Work

\* A side effect runs once, and once more at the most for every crash, failed
\* statement or overrun lease: duplicates of the relay, redeliveries and competing
\* handlers never repeat it, for any number of handlers with worker ids of their own.
THEOREM DuplicatesArePaid ==
  ASSUME OwnWorkerIds
  PROVE  PipelineSpec => []DuplicatesNeedFaults
<1>1. PipelineInit => EffectsAccounted
  <2> SUFFICES ASSUME PipelineInit, NEW m \in Messages
               PROVE  effects[m] + Cardinality(Applying(m)) + Open(m) <= 1 + faults
    BY DEF EffectsAccounted
  <2>1. Applying(m) = {}
    BY DEF PipelineInit, InitWith, Applying
  <2>2. QED
    BY <2>1, FS_EmptySet DEF PipelineInit, InitWith, Open
<1>2. LeaseInv /\ EffectsAccounted /\ [PipelineNext]_pipelineVars => EffectsAccounted'
  <2> SUFFICES ASSUME LeaseInv, EffectsAccounted, [PipelineNext]_pipelineVars,
                      NEW m \in Messages
               PROVE  Account(m)' <= 1 + faults'
    BY DEF EffectsAccounted, Account
  <2>1. TypeOK /\ HolderLocks
    BY DEF LeaseInv, PipelineInv, PipelineTypeOK
  <2>2. CASE Next
    BY <2>1, <2>2, EffectsKept
  <2>3. CASE UNCHANGED <<rowVars, handlerVars, effects, faults>>
    <3>1. Applying(m)' = Applying(m) /\ Open(m)' = Open(m)
      BY <2>3 DEF Applying, Open, InHand, rowVars, handlerVars
    <3>2. QED
      BY <2>1, <2>3, <3>1, NothingOpens
  <2>4. QED
    BY <2>2, <2>3, InboxStep DEF vars
<1>3. TypeOK /\ EffectsAccounted => DuplicatesNeedFaults
  <2> SUFFICES ASSUME TypeOK, EffectsAccounted, NEW m \in Messages
               PROVE  effects[m] <= 1 + faults
    BY DEF DuplicatesNeedFaults
  <2>1. effects[m] + Cardinality(Applying(m)) + Open(m) <= 1 + faults
    BY DEF EffectsAccounted
  <2>2. Cardinality(Applying(m)) \in Nat /\ Open(m) \in Nat /\ effects[m] \in Nat
    BY ApplyingFinite DEF Open, TypeOK
  <2>3. QED
    BY <2>1, <2>2 DEF TypeOK
<1>4. LeaseInv => TypeOK
  BY DEF LeaseInv, PipelineInv, PipelineTypeOK
<1>5. QED
  BY <1>1, <1>2, <1>3, <1>4, LeaseInvariant, PTL DEF PipelineSpec

================================================================================
