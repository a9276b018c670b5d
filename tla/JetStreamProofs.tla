---------------------------- MODULE JetStreamProofs ----------------------------
(***************************************************************************)
(* Theorems about the JetStream job queue for every set of jobs, every     *)
(* finite set of worker loops, every retry and dead-letter policy and any  *)
(* number of faults and explicit retries.                                  *)
(***************************************************************************)
EXTENDS JetStreamJobs, FiniteSetTheorems, TLAPS

(* The deliveries a loop has fetched and not settled. *)
Held(l) == buffer[l] \cup ({cur[l]} \ {NoDelivery})

\* Publishing adds to the dead letters of the job in hand.
LEMMA AddDeadLettersType ==
  ASSUME deadLettered \in [Jobs -> Nat], NEW l \in Loops, cur[l].job \in Jobs,
         NEW n \in Nat, AddDeadLetters(l, n)
  PROVE  deadLettered' \in [Jobs -> Nat]
BY DEF AddDeadLetters

LEMMA CopiesType == Copies \in {0, 1}
BY DEF Copies

\* A busy loop has a delivery in hand.
LEMMA InHand ==
  ASSUME TypeOK, NEW l \in Loops, Busy(l)
  PROVE  /\ cur[l] \in Delivery /\ cur[l] # NoDelivery
         /\ cur[l].job \in Jobs /\ cur[l].attempt \in Nat \ {0}
BY DEF TypeOK, Delivery

LEMMA InitTypes == Init => TypeOK
BY JetStreamAssumption DEF Init, TypeOK, Busy, Pc

\* The steps of one loop keep the types, and the loop has a delivery in hand
\* exactly while it is busy.
LEMMA StepTypes ==
  ASSUME TypeOK, [Next]_vars
  PROVE  TypeOK'
<1> USE JetStreamAssumption, NoDeliveryAssumption
    DEF TypeOK, Busy, Pc, brokerVars, loopVars
<1>1. ASSUME NEW j \in Jobs, Enqueue(j) \/ AckWaitEnds(j) \/ AckWaitOverrun(j) PROVE TypeOK'
  BY <1>1 DEF Enqueue, AckWaitEnds, AckWaitOverrun, Fault
<1>2. ASSUME NEW l \in Loops, Fetch(l) PROVE TypeOK'
  BY <1>2 DEF Fetch, Delivery
<1>3. ASSUME NEW l \in Loops, RunHandler(l) PROVE TypeOK'
  BY <1>3 DEF RunHandler, Take, Delivery
<1>4. ASSUME NEW l \in Loops, Undecodable(l) PROVE TypeOK'
  BY <1>4 DEF Undecodable, Take, Delivery
<1>5. ASSUME NEW l \in Loops, ContextAck(l) PROVE TypeOK'
  BY <1>5 DEF ContextAck, AckJob
<1>6. ASSUME NEW l \in Loops, ContextRetry(l) PROVE TypeOK'
  <2>1. stream' \in [Jobs -> {"absent", "ready", "out", "acked", "termed"}]
    BY <1>6 DEF ContextRetry, NakJob
  <2>2. retries' \in Nat
    BY <1>6 DEF ContextRetry
  <2>3. QED
    BY <1>6, <2>1, <2>2 DEF ContextRetry
<1>7. ASSUME NEW l \in Loops, ContextDeadLetter(l) PROVE TypeOK'
  <2>1. deadLettered' \in [Jobs -> Nat]
    BY <1>7, InHand, CopiesType, AddDeadLettersType DEF ContextDeadLetter
  <2>2. QED
    BY <1>7, <2>1 DEF ContextDeadLetter, GoTo
<1>8. ASSUME NEW l \in Loops, ContextTerm(l) PROVE TypeOK'
  BY <1>8 DEF ContextTerm, TermJob, GoTo
<1>9. ASSUME NEW l \in Loops, HandlerReturns(l) PROVE TypeOK'
  BY <1>9 DEF HandlerReturns, Done, GoTo
<1>10. ASSUME NEW l \in Loops, HandlerThrows(l) \/ HandlerThrowsLate(l) \/ AckThrows(l)
       PROVE TypeOK'
  <2>1. ASSUME NEW d PROVE FailureSteps(d) \subseteq {"bury", "nak"}
    BY DEF FailureSteps
  <2>2. QED
    BY <1>10, <2>1 DEF HandlerThrows, HandlerThrowsLate, AckThrows, GoTo, Fault
<1>11. ASSUME NEW l \in Loops, Ack(l) PROVE TypeOK'
  BY <1>11 DEF Ack, AckJob, Done
<1>12. ASSUME NEW l \in Loops, Nak(l) PROVE TypeOK'
  BY <1>12 DEF Nak, NakJob, Done
<1>13. ASSUME NEW l \in Loops, PublishDeadLetter(l) PROVE TypeOK'
  <2>1. deadLettered' \in [Jobs -> Nat]
    BY <1>13, InHand, CopiesType, AddDeadLettersType DEF PublishDeadLetter
  <2>2. QED
    BY <1>13, <2>1 DEF PublishDeadLetter, GoTo
<1>14. ASSUME NEW l \in Loops, PublishDeadLetterThrows(l) PROVE TypeOK'
  <2>1. deadLettered' \in [Jobs -> Nat] /\ faults' \in Nat
    BY <1>14, InHand, AddDeadLettersType DEF PublishDeadLetterThrows, Fault
  <2>2. QED
    BY <1>14, <2>1 DEF PublishDeadLetterThrows, Abandon
<1>15. ASSUME NEW l \in Loops, Term(l) PROVE TypeOK'
  BY <1>15 DEF Term, TermJob, Done
<1>16. ASSUME NEW l \in Loops, SettlementLost(l) PROVE TypeOK'
  <2>1. faults' \in Nat
    BY <1>16 DEF SettlementLost, Fault
  <2>2. CASE Done(l)
    BY <1>16, <2>1, <2>2 DEF SettlementLost, Done
  <2>3. CASE Abandon(l)
    BY <1>16, <2>1, <2>3 DEF SettlementLost, Abandon
  <2>4. QED
    BY <1>16, <2>2, <2>3 DEF SettlementLost
<1>17. ASSUME NEW l \in Loops, Close(l) \/ Stop(l) \/ Restart(l) PROVE TypeOK'
  <2>1. CASE Close(l)
    BY <2>1 DEF Close, Fault
  <2>2. CASE Stop(l)
    BY <2>2 DEF Stop
  <2>3. CASE Restart(l)
    BY <2>3 DEF Restart
  <2>4. QED
    BY <1>17, <2>1, <2>2, <2>3
<1>18. ASSUME NEW l \in Loops, Crash(l) PROVE TypeOK'
  BY <1>18 DEF Crash, Fault
<1>19. CASE UNCHANGED vars
  BY <1>19 DEF vars
<1>20. QED
  BY <1>1, <1>2, <1>3, <1>4, <1>5, <1>6, <1>7, <1>8, <1>9, <1>10, <1>11, <1>12, <1>13,
     <1>14, <1>15, <1>16, <1>17, <1>18, <1>19
  DEF Next, Process, Context

\* A loop is busy exactly while it has a delivery in hand, and no delivery carries an
\* attempt the broker has not made (NatsJetStreamJobQueue._run and _process).
THEOREM TypeCorrect == Spec => []TypeOK
BY InitTypes, StepTypes, PTL DEF Spec

--------------------------------------------------------------------------------
(* What relates the broker's state of a job to the loops that hold it. *)

JobInv(j) == stream[j] = "absent" => count[j] = 0 /\ deadLettered[j] = 0

LoopInv(l) ==
  /\ pc[l] = "stopped" => buffer[l] = {}
  /\ completed[l] => Busy(l) /\ pc[l] \notin {"ack", "ctxTerm"}
  /\ \A d, e \in Held(l) : d.job = e.job => d = e
  /\ cur[l] \notin buffer[l]
  /\ \A d \in Held(l) : stream[d.job] # "absent"
  /\ pc[l] \in {"handler", "ack", "ctxTerm"} => runs[cur[l].job] > 0
  /\ pc[l] = "nak" => cur[l].attempt < MaxAttempts
  /\ completed[l] => stream[cur[l].job] # "out" \/ cur[l].attempt < count[cur[l].job]
  /\ pc[l] \in {"term", "ctxTerm"} /\ DeadLetters => deadLettered[cur[l].job] > 0

HeldInv ==
  /\ \A j \in Jobs : JobInv(j)
  /\ \A l \in Loops : LoopInv(l)
  /\ TermedMeansDeadLettered

(* What no step takes back from a job. *)
Advances(j) ==
  /\ stream'[j] = "absent" => stream[j] = "absent"
  /\ stream'[j] = "out" => stream[j] = "out" \/ count'[j] = count[j] + 1
  /\ count'[j] >= count[j]
  /\ runs'[j] >= runs[j]
  /\ deadLettered'[j] >= deadLettered[j]

\* A loop's part of the invariant is not touched by what the other loops and the
\* broker do: the counts of a job only grow, and the broker hands nothing out twice.
LEMMA OtherLoops ==
  ASSUME TypeOK, TypeOK', HeldInv, NEW k \in Loops,
         buffer'[k] = buffer[k], cur'[k] = cur[k], pc'[k] = pc[k], completed'[k] = completed[k],
         \A j \in Jobs : Advances(j)
  PROVE  LoopInv(k)'
<1>1. /\ Held(k)' = Held(k) /\ Busy(k)' = Busy(k)
      /\ \A d \in Held(k) : d \in Delivery /\ d.job \in Jobs
    BY DEF Held, Busy, TypeOK, Delivery
<1> USE DEF Advances
<1>2. LoopInv(k)
  BY DEF HeldInv
<1>3. \A d \in Held(k) : stream'[d.job] # "absent"
  BY <1>1, <1>2 DEF LoopInv
<1>4. CASE Busy(k)
  <2>1. cur[k].job \in Jobs /\ cur[k].attempt \in Nat \ {0} /\ cur[k].attempt <= count[cur[k].job]
    BY <1>4, InHand DEF TypeOK
  <2>2. count[cur[k].job] \in Nat /\ count'[cur[k].job] \in Nat /\ runs[cur[k].job] \in Nat
        /\ runs'[cur[k].job] \in Nat
        /\ deadLettered[cur[k].job] \in Nat /\ deadLettered'[cur[k].job] \in Nat
    BY <2>1 DEF TypeOK
  <2>3. completed[k] => stream'[cur[k].job] # "out" \/ cur[k].attempt < count'[cur[k].job]
    BY <1>2, <2>1, <2>2 DEF LoopInv
  <2>4. QED
    BY <1>1, <1>2, <1>3, <2>1, <2>2, <2>3 DEF LoopInv
<1>5. CASE ~Busy(k)
  BY <1>1, <1>2, <1>3, <1>5 DEF LoopInv, Busy
<1>6. QED
  BY <1>4, <1>5

\* A loop that is through with a delivery keeps its part of the invariant for the
\* rest of its batch.
LEMMA DoneStep ==
  ASSUME TypeOK, HeldInv, NEW l \in Loops,
         pc'[l] = "idle", cur'[l] = NoDelivery, ~completed'[l], buffer'[l] \subseteq buffer[l],
         \A j \in Jobs : stream'[j] = "absent" => stream[j] = "absent"
  PROVE  LoopInv(l)'
<1>1. LoopInv(l) /\ buffer[l] \subseteq Delivery
  BY DEF HeldInv, TypeOK
<1>2. /\ Held(l)' = buffer'[l] /\ Held(l)' \subseteq Held(l)
      /\ NoDelivery \notin buffer[l]
      /\ \A d \in Held(l)' : d.job \in Jobs
  BY <1>1, NoDeliveryAssumption DEF Held, Delivery
<1>3. QED
  BY <1>1, <1>2 DEF LoopInv, Busy

\* A loop that goes on with its delivery keeps the batch as it is.
LEMMA GoToStep ==
  ASSUME TypeOK, TypeOK', HeldInv, NEW l \in Loops, NEW step \in Pc \ {"idle", "stopped"},
         Busy(l), GoTo(l, step),
         \A j \in Jobs : Advances(j),
         completed'[l] => completed[l] /\ step \notin {"ack", "ctxTerm"} /\ UNCHANGED <<stream, count>>,
         step \in {"handler", "ack", "ctxTerm"} => pc[l] = "handler",
         step = "nak" => cur[l].attempt < MaxAttempts,
         step \in {"term", "ctxTerm"} /\ DeadLetters => deadLettered'[cur[l].job] > 0
  PROVE  LoopInv(l)'
<1>1. LoopInv(l) /\ Held(l)' = Held(l) /\ cur'[l] = cur[l] /\ buffer'[l] = buffer[l] /\ pc'[l] = step
  BY DEF HeldInv, GoTo, Held, TypeOK
<1>2. /\ cur[l].job \in Jobs /\ \A d \in Held(l) : d.job \in Jobs
      /\ {runs[cur[l].job], runs'[cur[l].job]} \subseteq Nat
  BY InHand DEF Held, TypeOK, Delivery
<1>3. \A d \in Held(l)' : stream'[d.job] # "absent"
  BY <1>1, <1>2 DEF LoopInv, Advances
<1>4. step \in {"handler", "ack", "ctxTerm"} => runs'[cur[l].job] > 0
  BY <1>1, <1>2 DEF LoopInv, Advances
<1>5. QED
  BY <1>1, <1>2, <1>3, <1>4 DEF LoopInv, Busy

LEMMA HeldStep ==
  ASSUME TypeOK, TypeOK', HeldInv, [Next]_vars
  PROVE  HeldInv'
<1> USE DEF brokerVars, loopVars
<1>0. ASSUME NEW l \in Loops, LoopInv(l)', \A j \in Jobs : Advances(j) /\ JobInv(j)',
             TermedMeansDeadLettered',
             \A k \in Loops \ {l} : /\ buffer'[k] = buffer[k] /\ cur'[k] = cur[k]
                                    /\ pc'[k] = pc[k] /\ completed'[k] = completed[k]
      PROVE  HeldInv'
  BY <1>0, OtherLoops DEF HeldInv
<1>1. ASSUME NEW l \in Loops, RunHandler(l) PROVE HeldInv'
  <2>1. LoopInv(l)'
    BY <1>1, InHand, CopiesType, JetStreamAssumption DEF RunHandler, Take, HeldInv, LoopInv, Held, Busy, TypeOK, Delivery
  <2>2. \A j \in Jobs : Advances(j) /\ JobInv(j)'
    BY <1>1, InHand, CopiesType DEF RunHandler, Take, HeldInv, JobInv, LoopInv, Held, Advances, Busy, TypeOK
  <2>3. TermedMeansDeadLettered'
    BY <1>1, <2>2, InHand, CopiesType DEF RunHandler, Take, HeldInv, LoopInv, TermedMeansDeadLettered, Busy, TypeOK
  <2>4. QED
    BY <1>1, <2>1, <2>2, <2>3, <1>0 DEF RunHandler, Take, TypeOK
<1>2. ASSUME NEW l \in Loops, Undecodable(l) PROVE HeldInv'
  <2>1. LoopInv(l)'
    BY <1>2, InHand, CopiesType, JetStreamAssumption DEF Undecodable, Take, HeldInv, LoopInv, Held, Busy, TypeOK, Delivery
  <2>2. \A j \in Jobs : Advances(j) /\ JobInv(j)'
    BY <1>2, InHand, CopiesType DEF Undecodable, Take, HeldInv, JobInv, LoopInv, Held, Advances, Busy, TypeOK
  <2>3. TermedMeansDeadLettered'
    BY <1>2, <2>2, InHand, CopiesType DEF Undecodable, Take, HeldInv, LoopInv, TermedMeansDeadLettered, Busy, TypeOK
  <2>4. QED
    BY <1>2, <2>1, <2>2, <2>3, <1>0 DEF Undecodable, Take, TypeOK
<1>3. ASSUME NEW l \in Loops, ContextAck(l) PROVE HeldInv'
  <2>1. LoopInv(l)'
    BY <1>3, InHand, CopiesType, JetStreamAssumption DEF ContextAck, AckJob, HeldInv, LoopInv, Held, Busy, TypeOK, Delivery
  <2>2. \A j \in Jobs : Advances(j) /\ JobInv(j)'
    BY <1>3, InHand, CopiesType DEF ContextAck, AckJob, HeldInv, JobInv, LoopInv, Held, Advances, Busy, TypeOK
  <2>3. TermedMeansDeadLettered'
    BY <1>3, <2>2, InHand, CopiesType DEF ContextAck, AckJob, HeldInv, LoopInv, TermedMeansDeadLettered, Busy, TypeOK
  <2>4. QED
    BY <1>3, <2>1, <2>2, <2>3, <1>0 DEF ContextAck, AckJob, TypeOK
<1>4. ASSUME NEW l \in Loops, ContextRetry(l) PROVE HeldInv'
  <2>1. LoopInv(l)'
    BY <1>4, InHand, CopiesType, JetStreamAssumption DEF ContextRetry, NakJob, HeldInv, LoopInv, Held, Busy, TypeOK, Delivery
  <2>2. \A j \in Jobs : Advances(j) /\ JobInv(j)'
    BY <1>4, InHand, CopiesType DEF ContextRetry, NakJob, HeldInv, JobInv, LoopInv, Held, Advances, Busy, TypeOK
  <2>3. TermedMeansDeadLettered'
    BY <1>4, <2>2, InHand, CopiesType DEF ContextRetry, NakJob, HeldInv, LoopInv, TermedMeansDeadLettered, Busy, TypeOK
  <2>4. QED
    BY <1>4, <2>1, <2>2, <2>3, <1>0 DEF ContextRetry, NakJob, TypeOK
<1>5. ASSUME NEW l \in Loops, ContextDeadLetter(l) PROVE HeldInv'
  <2>1. \A j \in Jobs : Advances(j) /\ JobInv(j)'
    BY <1>5, InHand, CopiesType DEF ContextDeadLetter, GoTo, AddDeadLetters, HeldInv, JobInv, LoopInv, Held, Advances, Busy, TypeOK
  <2>2. LoopInv(l)'
    <3>1. GoTo(l, "ctxTerm") /\ Busy(l) /\ ~completed'[l] /\ pc[l] = "handler"
      BY <1>5 DEF ContextDeadLetter, Busy, TypeOK
    <3>2. DeadLetters => deadLettered'[cur[l].job] > 0
      BY <1>5, <3>1, InHand DEF ContextDeadLetter, AddDeadLetters, Copies, TypeOK
    <3>3. QED
      BY <3>1, <3>2, <2>1, GoToStep DEF Pc
  <2>3. TermedMeansDeadLettered'
    BY <1>5, <2>1, InHand, CopiesType DEF ContextDeadLetter, GoTo, AddDeadLetters, HeldInv, LoopInv, TermedMeansDeadLettered, Busy, TypeOK
  <2>4. QED
    BY <1>5, <2>1, <2>2, <2>3, <1>0 DEF ContextDeadLetter, GoTo, AddDeadLetters, TypeOK
<1>6. ASSUME NEW l \in Loops, ContextTerm(l) PROVE HeldInv'
  <2>1. LoopInv(l)'
    BY <1>6, InHand, CopiesType, JetStreamAssumption DEF ContextTerm, TermJob, GoTo, HeldInv, LoopInv, Held, Busy, TypeOK, Delivery
  <2>2. \A j \in Jobs : Advances(j) /\ JobInv(j)'
    BY <1>6, InHand, CopiesType DEF ContextTerm, TermJob, GoTo, HeldInv, JobInv, LoopInv, Held, Advances, Busy, TypeOK
  <2>3. TermedMeansDeadLettered'
    BY <1>6, <2>2, InHand, CopiesType DEF ContextTerm, TermJob, GoTo, HeldInv, LoopInv, TermedMeansDeadLettered, Busy, TypeOK
  <2>4. QED
    BY <1>6, <2>1, <2>2, <2>3, <1>0 DEF ContextTerm, TermJob, GoTo, TypeOK
<1>7. ASSUME NEW l \in Loops, HandlerReturns(l) PROVE HeldInv'
  <2>1. \A j \in Jobs : Advances(j) /\ JobInv(j)'
    BY <1>7, InHand, CopiesType DEF HandlerReturns, Done, GoTo, HeldInv, JobInv, LoopInv, Held, Advances, Busy, TypeOK
  <2>2. LoopInv(l)'
    <3>1. CASE Done(l)
      BY <1>7, <3>1, DoneStep DEF HandlerReturns, Done, TypeOK
    <3>2. CASE GoTo(l, "ack") /\ ~completed[l] /\ UNCHANGED completed
      <4>1. Busy(l) /\ pc[l] = "handler"
        BY <1>7 DEF HandlerReturns, Busy
      <4>2. QED
        BY <3>2, <4>1, <2>1, GoToStep DEF Pc
    <3>3. QED
      BY <1>7, <3>1, <3>2 DEF HandlerReturns
  <2>3. TermedMeansDeadLettered'
    BY <1>7, <2>1, InHand, CopiesType DEF HandlerReturns, Done, GoTo, HeldInv, LoopInv, TermedMeansDeadLettered, Busy, TypeOK
  <2>4. QED
    BY <1>7, <2>1, <2>2, <2>3, <1>0 DEF HandlerReturns, Done, GoTo, TypeOK
<1>8. ASSUME NEW l \in Loops, HandlerThrows(l) PROVE HeldInv'
  <2>1. LoopInv(l)'
    BY <1>8, InHand, CopiesType, JetStreamAssumption DEF HandlerThrows, GoTo, FailureSteps, HeldInv, LoopInv, Held, Busy, TypeOK, Delivery
  <2>2. \A j \in Jobs : Advances(j) /\ JobInv(j)'
    BY <1>8, InHand, CopiesType DEF HandlerThrows, GoTo, FailureSteps, HeldInv, JobInv, LoopInv, Held, Advances, Busy, TypeOK
  <2>3. TermedMeansDeadLettered'
    BY <1>8, <2>2, InHand, CopiesType DEF HandlerThrows, GoTo, FailureSteps, HeldInv, LoopInv, TermedMeansDeadLettered, Busy, TypeOK
  <2>4. QED
    BY <1>8, <2>1, <2>2, <2>3, <1>0 DEF HandlerThrows, GoTo, FailureSteps, TypeOK
<1>9. ASSUME NEW l \in Loops, HandlerThrowsLate(l) PROVE HeldInv'
  <2>1. LoopInv(l)'
    BY <1>9, InHand, CopiesType, JetStreamAssumption DEF HandlerThrowsLate, GoTo, FailureSteps, HeldInv, LoopInv, Held, Busy, TypeOK, Delivery
  <2>2. \A j \in Jobs : Advances(j) /\ JobInv(j)'
    BY <1>9, InHand, CopiesType DEF HandlerThrowsLate, GoTo, FailureSteps, HeldInv, JobInv, LoopInv, Held, Advances, Busy, TypeOK
  <2>3. TermedMeansDeadLettered'
    BY <1>9, <2>2, InHand, CopiesType DEF HandlerThrowsLate, GoTo, FailureSteps, HeldInv, LoopInv, TermedMeansDeadLettered, Busy, TypeOK
  <2>4. QED
    BY <1>9, <2>1, <2>2, <2>3, <1>0 DEF HandlerThrowsLate, GoTo, FailureSteps, TypeOK
<1>10. ASSUME NEW l \in Loops, Ack(l) PROVE HeldInv'
  <2>1. LoopInv(l)'
    BY <1>10, InHand, DoneStep DEF Ack, AckJob, Done, TypeOK
  <2>2. \A j \in Jobs : Advances(j) /\ JobInv(j)'
    BY <1>10, InHand, CopiesType DEF Ack, AckJob, Done, HeldInv, JobInv, LoopInv, Held, Advances, Busy, TypeOK
  <2>3. TermedMeansDeadLettered'
    BY <1>10, <2>2, InHand, CopiesType DEF Ack, AckJob, Done, HeldInv, LoopInv, TermedMeansDeadLettered, Busy, TypeOK
  <2>4. QED
    BY <1>10, <2>1, <2>2, <2>3, <1>0 DEF Ack, AckJob, Done, TypeOK
<1>11. ASSUME NEW l \in Loops, AckThrows(l) PROVE HeldInv'
  <2>1. LoopInv(l)'
    BY <1>11, InHand, CopiesType, JetStreamAssumption DEF AckThrows, GoTo, FailureSteps, HeldInv, LoopInv, Held, Busy, TypeOK, Delivery
  <2>2. \A j \in Jobs : Advances(j) /\ JobInv(j)'
    BY <1>11, InHand, CopiesType DEF AckThrows, GoTo, FailureSteps, HeldInv, JobInv, LoopInv, Held, Advances, Busy, TypeOK
  <2>3. TermedMeansDeadLettered'
    BY <1>11, <2>2, InHand, CopiesType DEF AckThrows, GoTo, FailureSteps, HeldInv, LoopInv, TermedMeansDeadLettered, Busy, TypeOK
  <2>4. QED
    BY <1>11, <2>1, <2>2, <2>3, <1>0 DEF AckThrows, GoTo, FailureSteps, TypeOK
<1>12. ASSUME NEW l \in Loops, Nak(l) PROVE HeldInv'
  <2>1. LoopInv(l)'
    BY <1>12, InHand, DoneStep DEF Nak, NakJob, Done, TypeOK
  <2>2. \A j \in Jobs : Advances(j) /\ JobInv(j)'
    BY <1>12, InHand, CopiesType DEF Nak, NakJob, Done, HeldInv, JobInv, LoopInv, Held, Advances, Busy, TypeOK
  <2>3. TermedMeansDeadLettered'
    BY <1>12, <2>2, InHand, CopiesType DEF Nak, NakJob, Done, HeldInv, LoopInv, TermedMeansDeadLettered, Busy, TypeOK
  <2>4. QED
    BY <1>12, <2>1, <2>2, <2>3, <1>0 DEF Nak, NakJob, Done, TypeOK
<1>13. ASSUME NEW l \in Loops, PublishDeadLetter(l) PROVE HeldInv'
  <2>1. \A j \in Jobs : Advances(j) /\ JobInv(j)'
    BY <1>13, InHand, CopiesType DEF PublishDeadLetter, GoTo, AddDeadLetters, HeldInv, JobInv, LoopInv, Held, Advances, Busy, TypeOK
  <2>2. LoopInv(l)'
    <3>1. GoTo(l, "term") /\ Busy(l) /\ UNCHANGED <<completed, stream, count>>
      BY <1>13 DEF PublishDeadLetter, Busy
    <3>2. DeadLetters => deadLettered'[cur[l].job] > 0
      BY <1>13, <3>1, InHand DEF PublishDeadLetter, AddDeadLetters, Copies, TypeOK
    <3>3. QED
      BY <3>1, <3>2, <2>1, GoToStep DEF Pc
  <2>3. TermedMeansDeadLettered'
    BY <1>13, <2>1, InHand, CopiesType DEF PublishDeadLetter, GoTo, AddDeadLetters, HeldInv, LoopInv, TermedMeansDeadLettered, Busy, TypeOK
  <2>4. QED
    BY <1>13, <2>1, <2>2, <2>3, <1>0 DEF PublishDeadLetter, GoTo, AddDeadLetters, TypeOK
<1>14. ASSUME NEW l \in Loops, PublishDeadLetterThrows(l) PROVE HeldInv'
  <2>1. LoopInv(l)'
    BY <1>14, InHand, CopiesType, JetStreamAssumption DEF PublishDeadLetterThrows, Abandon, AddDeadLetters, HeldInv, LoopInv, Held, Busy, TypeOK, Delivery
  <2>2. \A j \in Jobs : Advances(j) /\ JobInv(j)'
    BY <1>14, InHand, CopiesType DEF PublishDeadLetterThrows, Abandon, AddDeadLetters, HeldInv, JobInv, LoopInv, Held, Advances, Busy, TypeOK
  <2>3. TermedMeansDeadLettered'
    BY <1>14, <2>2, InHand, CopiesType DEF PublishDeadLetterThrows, Abandon, AddDeadLetters, HeldInv, LoopInv, TermedMeansDeadLettered, Busy, TypeOK
  <2>4. QED
    BY <1>14, <2>1, <2>2, <2>3, <1>0 DEF PublishDeadLetterThrows, Abandon, AddDeadLetters, TypeOK
<1>15. ASSUME NEW l \in Loops, Term(l) PROVE HeldInv'
  <2>1. LoopInv(l)'
    BY <1>15, InHand, DoneStep DEF Term, TermJob, Done, TypeOK
  <2>2. \A j \in Jobs : Advances(j) /\ JobInv(j)'
    BY <1>15, InHand, CopiesType DEF Term, TermJob, Done, HeldInv, JobInv, LoopInv, Held, Advances, Busy, TypeOK
  <2>3. TermedMeansDeadLettered'
    BY <1>15, <2>2, InHand, CopiesType DEF Term, TermJob, Done, HeldInv, LoopInv, TermedMeansDeadLettered, Busy, TypeOK
  <2>4. QED
    BY <1>15, <2>1, <2>2, <2>3, <1>0 DEF Term, TermJob, Done, TypeOK
<1>16. ASSUME NEW l \in Loops, SettlementLost(l) PROVE HeldInv'
  <2>1. LoopInv(l)'
    BY <1>16, InHand, DoneStep DEF SettlementLost, Done, Abandon, TypeOK
  <2>2. \A j \in Jobs : Advances(j) /\ JobInv(j)'
    BY <1>16, InHand, CopiesType DEF SettlementLost, Done, Abandon, HeldInv, JobInv, LoopInv, Held, Advances, Busy, TypeOK
  <2>3. TermedMeansDeadLettered'
    BY <1>16, <2>2, InHand, CopiesType DEF SettlementLost, Done, Abandon, HeldInv, LoopInv, TermedMeansDeadLettered, Busy, TypeOK
  <2>4. QED
    BY <1>16, <2>1, <2>2, <2>3, <1>0 DEF SettlementLost, Done, Abandon, TypeOK
<1>17. ASSUME NEW l \in Loops, Stop(l) PROVE HeldInv'
  <2>1. LoopInv(l)'
    BY <1>17, InHand, CopiesType, JetStreamAssumption DEF Stop, HeldInv, LoopInv, Held, Busy, TypeOK, Delivery
  <2>2. \A j \in Jobs : Advances(j) /\ JobInv(j)'
    BY <1>17, InHand, CopiesType DEF Stop, HeldInv, JobInv, LoopInv, Held, Advances, Busy, TypeOK
  <2>3. TermedMeansDeadLettered'
    BY <1>17, <2>2, InHand, CopiesType DEF Stop, HeldInv, LoopInv, TermedMeansDeadLettered, Busy, TypeOK
  <2>4. QED
    BY <1>17, <2>1, <2>2, <2>3, <1>0 DEF Stop, TypeOK
<1>18. ASSUME NEW l \in Loops, Close(l) PROVE HeldInv'
  <2>1. LoopInv(l)'
    BY <1>18, InHand, CopiesType, JetStreamAssumption DEF Close, HeldInv, LoopInv, Held, Busy, TypeOK, Delivery
  <2>2. \A j \in Jobs : Advances(j) /\ JobInv(j)'
    BY <1>18, InHand, CopiesType DEF Close, HeldInv, JobInv, LoopInv, Held, Advances, Busy, TypeOK
  <2>3. TermedMeansDeadLettered'
    BY <1>18, <2>2, InHand, CopiesType DEF Close, HeldInv, LoopInv, TermedMeansDeadLettered, Busy, TypeOK
  <2>4. QED
    BY <1>18, <2>1, <2>2, <2>3, <1>0 DEF Close, TypeOK
<1>19. ASSUME NEW l \in Loops, Crash(l) PROVE HeldInv'
  <2>1. LoopInv(l)'
    BY <1>19, InHand, CopiesType, JetStreamAssumption DEF Crash, HeldInv, LoopInv, Held, Busy, TypeOK, Delivery
  <2>2. \A j \in Jobs : Advances(j) /\ JobInv(j)'
    BY <1>19, InHand, CopiesType DEF Crash, HeldInv, JobInv, LoopInv, Held, Advances, Busy, TypeOK
  <2>3. TermedMeansDeadLettered'
    BY <1>19, <2>2, InHand, CopiesType DEF Crash, HeldInv, LoopInv, TermedMeansDeadLettered, Busy, TypeOK
  <2>4. QED
    BY <1>19, <2>1, <2>2, <2>3, <1>0 DEF Crash, TypeOK
<1>20. ASSUME NEW l \in Loops, Restart(l) PROVE HeldInv'
  <2>1. LoopInv(l)'
    BY <1>20, InHand, CopiesType, JetStreamAssumption DEF Restart, HeldInv, LoopInv, Held, Busy, TypeOK, Delivery
  <2>2. \A j \in Jobs : Advances(j) /\ JobInv(j)'
    BY <1>20, InHand, CopiesType DEF Restart, HeldInv, JobInv, LoopInv, Held, Advances, Busy, TypeOK
  <2>3. TermedMeansDeadLettered'
    BY <1>20, <2>2, InHand, CopiesType DEF Restart, HeldInv, LoopInv, TermedMeansDeadLettered, Busy, TypeOK
  <2>4. QED
    BY <1>20, <2>1, <2>2, <2>3, <1>0 DEF Restart, TypeOK
<1>21. ASSUME NEW j \in Jobs, Enqueue(j) \/ AckWaitEnds(j) \/ AckWaitOverrun(j) PROVE HeldInv'
  <2>1. /\ stream' = [stream EXCEPT ![j] = "ready"] /\ UNCHANGED <<count, deadLettered, runs>>
        /\ UNCHANGED loopVars
    BY <1>21 DEF Enqueue, AckWaitEnds, AckWaitOverrun
  <2>2. \A i \in Jobs : Advances(i) /\ JobInv(i)'
    BY <2>1 DEF HeldInv, JobInv, Advances, TypeOK
  <2>3. TermedMeansDeadLettered'
    BY <2>1 DEF HeldInv, TermedMeansDeadLettered, TypeOK
  <2>4. QED
    BY <2>1, <2>2, <2>3, OtherLoops DEF HeldInv
<1>22. ASSUME NEW l \in Loops, Fetch(l) PROVE HeldInv'
  <2>1. LoopInv(l)'
    <3>1. /\ pc'[l] = "idle" /\ cur'[l] = NoDelivery /\ ~completed'[l]
          /\ NoDelivery \notin buffer'[l]
      BY <1>22, NoDeliveryAssumption DEF Fetch, HeldInv, LoopInv, Busy, TypeOK
    <3>2. /\ \A d \in buffer'[l] : d.job \in Jobs /\ stream'[d.job] = "out"
          /\ \A d, e \in buffer'[l] : d.job = e.job => d = e
      BY <1>22 DEF Fetch, TypeOK
    <3>3. QED
      BY <3>1, <3>2 DEF LoopInv, Held, Busy
  <2>2. \A j \in Jobs : Advances(j) /\ JobInv(j)'
    BY <1>22 DEF Fetch, HeldInv, JobInv, Advances, TypeOK
  <2>3. TermedMeansDeadLettered'
    BY <1>22 DEF Fetch, HeldInv, TermedMeansDeadLettered, TypeOK
  <2>4. QED
    BY <1>22, <2>1, <2>2, <2>3, <1>0 DEF Fetch, TypeOK
<1>23. CASE UNCHANGED vars
  BY <1>23 DEF vars, HeldInv, JobInv, LoopInv, Held, Busy, TermedMeansDeadLettered
<1>24. QED
  BY <1>1, <1>2, <1>3, <1>4, <1>5, <1>6, <1>7, <1>8, <1>9, <1>10, <1>11, <1>12, <1>13,
     <1>14, <1>15, <1>16, <1>17, <1>18, <1>19, <1>20, <1>21, <1>22, <1>23
  DEF Next, Process, Context

--------------------------------------------------------------------------------
(* The accounts.  A job that is not settled is always somebody's: it is open, so  *)
(* that the broker will hand it out again, or a loop holds its latest delivery.   *)

LatestHeld(j) == \E l \in Loops : \E d \in Held(l) : d.job = j /\ d.attempt = count[j]

Open(j) ==
  IF stream[j] \in {"absent", "ready"} \/ (stream[j] = "out" /\ ~LatestHeld(j)) THEN 1 ELSE 0

(* The job waits in the loop's batch; the loop may still have it run again;       *)
(* the loop may still dead-letter it; each without another fault.                 *)
Waits(l, j) == \E d \in buffer[l] : d.job = j

Owes(l, j) == \E d \in Held(l) : d.job = j /\ (d.attempt < MaxAttempts \/ closed[l])

MayBury(l, j) ==
  \/ Waits(l, j)
  \/ /\ Busy(l) /\ cur[l].job = j
     /\ pc[l] \in {"bury", "nak"} \/ (pc[l] = "handler" /\ ~completed[l])

Waiting(j) == {l \in Loops : Waits(l, j)}
Owing(j)   == {l \in Loops : Owes(l, j)}
Burying(j) == {l \in Loops : MayBury(l, j)}

(* Every further run of a job is paid for by an attempt of the policy, a fault or *)
(* a retry, every further dead letter by a fault.                                 *)
Budget(n) == IF n < MaxAttempts THEN n + 1 ELSE MaxAttempts

Accounts(j) ==
  /\ count[j] + Cardinality(Owing(j)) + Open(j) <= Budget(count[j]) + faults + retries
  /\ deadLettered[j] + Cardinality(Burying(j)) + Open(j) <= 1 + faults
  /\ runs[j] + Cardinality(Waiting(j)) <= count[j]

AccountsInv == \A j \in Jobs : Accounts(j)

One(b) == IF b THEN 1 ELSE 0

\* One loop more or less in a set of loops.
LEMMA OneLoop ==
  ASSUME NEW S, NEW T, IsFiniteSet(S), IsFiniteSet(T), NEW l, S \ {l} = T \ {l}
  PROVE  /\ Cardinality(S) \in Nat /\ Cardinality(T) \in Nat
         /\ Cardinality(T) + One(l \in S) = Cardinality(S) + One(l \in T)
<1>1. /\ Cardinality(S) \in Nat /\ Cardinality(T) \in Nat
      /\ Cardinality(S \ {l}) \in Nat
  BY FS_CardinalityType, FS_RemoveElement
<1>2. Cardinality(S \ {l}) = IF l \in S THEN Cardinality(S) - 1 ELSE Cardinality(S)
  BY FS_RemoveElement
<1>3. Cardinality(T \ {l}) = IF l \in T THEN Cardinality(T) - 1 ELSE Cardinality(T)
  BY FS_RemoveElement
<1>4. QED
  BY <1>1, <1>2, <1>3 DEF One

\* The sets of loops that the accounts count.
LEMMA LoopSets ==
  ASSUME NEW j
  PROVE  /\ IsFiniteSet(Waiting(j)) /\ IsFiniteSet(Owing(j)) /\ IsFiniteSet(Burying(j))
         /\ Cardinality(Waiting(j)) \in Nat /\ Cardinality(Owing(j)) \in Nat
         /\ Cardinality(Burying(j)) \in Nat
BY JetStreamAssumption, FS_Subset, FS_CardinalityType DEF Waiting, Owing, Burying

(* Loop l is the only one that moved. *)
OnlyLoop(l) ==
  \A k \in Loops \ {l} :
    /\ buffer'[k] = buffer[k] /\ cur'[k] = cur[k] /\ pc'[k] = pc[k]
    /\ completed'[k] = completed[k] /\ closed'[k] = closed[k]

LEMMA OnlyLoopCounts ==
  ASSUME NEW l \in Loops, OnlyLoop(l), NEW j
  PROVE  /\ Cardinality(Waiting(j)') + One(Waits(l, j)) = Cardinality(Waiting(j)) + One(Waits(l, j)')
         /\ Cardinality(Owing(j)') + One(Owes(l, j)) = Cardinality(Owing(j)) + One(Owes(l, j)')
         /\ Cardinality(Burying(j)') + One(MayBury(l, j))
              = Cardinality(Burying(j)) + One(MayBury(l, j)')
         /\ Cardinality(Waiting(j)') \in Nat /\ Cardinality(Owing(j)') \in Nat
         /\ Cardinality(Burying(j)') \in Nat
<1>1. \A k \in Loops \ {l} : /\ Waits(k, j)' <=> Waits(k, j)
                             /\ Owes(k, j)' <=> Owes(k, j)
                             /\ MayBury(k, j)' <=> MayBury(k, j)
  BY DEF OnlyLoop, Waits, Owes, MayBury, Held, Busy
<1>2. /\ IsFiniteSet(Waiting(j)') /\ IsFiniteSet(Owing(j)') /\ IsFiniteSet(Burying(j)')
  BY JetStreamAssumption, FS_Subset DEF Waiting, Owing, Burying
<1>3. /\ Waiting(j) \ {l} = Waiting(j)' \ {l}
      /\ Owing(j) \ {l} = Owing(j)' \ {l}
      /\ Burying(j) \ {l} = Burying(j)' \ {l}
  BY <1>1 DEF Waiting, Owing, Burying
<1>4. /\ l \in Waiting(j) <=> Waits(l, j)
      /\ l \in Waiting(j)' <=> Waits(l, j)'
      /\ l \in Owing(j) <=> Owes(l, j)
      /\ l \in Owing(j)' <=> Owes(l, j)'
      /\ l \in Burying(j) <=> MayBury(l, j)
      /\ l \in Burying(j)' <=> MayBury(l, j)'
  BY DEF Waiting, Owing, Burying
<1>5. /\ Cardinality(Waiting(j)') + One(l \in Waiting(j)) = Cardinality(Waiting(j)) + One(l \in Waiting(j)')
      /\ Cardinality(Waiting(j)') \in Nat
  BY <1>2, <1>3, LoopSets, OneLoop
<1>6. /\ Cardinality(Owing(j)') + One(l \in Owing(j)) = Cardinality(Owing(j)) + One(l \in Owing(j)')
      /\ Cardinality(Owing(j)') \in Nat
  BY <1>2, <1>3, LoopSets, OneLoop
<1>7. /\ Cardinality(Burying(j)') + One(l \in Burying(j)) = Cardinality(Burying(j)) + One(l \in Burying(j)')
      /\ Cardinality(Burying(j)') \in Nat
  BY <1>2, <1>3, LoopSets, OneLoop
<1>8. QED
  BY <1>4, <1>5, <1>6, <1>7 DEF One

\* The step of a loop that fetches nothing keeps the accounts when it pays for what
\* it opens, buries and runs.
LEMMA LoopAccounts ==
  ASSUME TypeOK, TypeOK', NEW j \in Jobs, Accounts(j), NEW l \in Loops, OnlyLoop(l),
         count'[j] = count[j],
         One(Owes(l, j)') + Open(j)' + faults + retries
           <= One(Owes(l, j)) + Open(j) + faults' + retries',
         deadLettered'[j] + One(MayBury(l, j)') + Open(j)' + faults
           <= deadLettered[j] + One(MayBury(l, j)) + Open(j) + faults',
         runs'[j] + One(Waits(l, j)') <= runs[j] + One(Waits(l, j))
  PROVE  Accounts(j)'
<1>1. /\ {count[j], runs[j], runs'[j], deadLettered[j], deadLettered'[j]} \subseteq Nat
      /\ {faults, faults', retries, retries', MaxAttempts} \subseteq Nat
  BY JetStreamAssumption DEF TypeOK
<1>2. /\ {Open(j), Open(j)'} \subseteq {0, 1}
      /\ {One(Owes(l, j)), One(Owes(l, j)'), One(MayBury(l, j)), One(MayBury(l, j)'),
          One(Waits(l, j)), One(Waits(l, j)')} \subseteq {0, 1}
  BY DEF Open, One
<1>3. Budget(count[j]) \in Nat /\ Budget(count'[j]) = Budget(count[j])
  BY <1>1 DEF Budget
<1>4. count'[j] + Cardinality(Owing(j)') + Open(j)' <= Budget(count'[j]) + faults' + retries'
  BY <1>1, <1>2, <1>3, LoopSets, OnlyLoopCounts DEF Accounts
<1>5. deadLettered'[j] + Cardinality(Burying(j)') + Open(j)' <= 1 + faults'
  BY <1>1, <1>2, LoopSets, OnlyLoopCounts DEF Accounts
<1>6. runs'[j] + Cardinality(Waiting(j)') <= count'[j]
  BY <1>1, <1>2, LoopSets, OnlyLoopCounts DEF Accounts
<1>7. QED
  BY <1>4, <1>5, <1>6 DEF Accounts, Budget

--------------------------------------------------------------------------------
(* How a step of loop l changes what is open. *)

\* Nothing changes for a job whose stream entry stays and of which the loop drops
\* nothing.
LEMMA OpenStays ==
  ASSUME NEW l \in Loops, OnlyLoop(l), NEW j, count'[j] = count[j], stream'[j] = stream[j],
         \A d \in Held(l) : d.job = j => d \in Held(l)',
         \A d \in Held(l)' : d.job = j => d \in Held(l)
  PROVE  Open(j)' = Open(j)
<1>1. \A k \in Loops \ {l} : Held(k)' = Held(k)
  BY DEF OnlyLoop, Held
<1>2. LatestHeld(j)' <=> LatestHeld(j)
  BY <1>1 DEF LatestHeld
<1>3. QED
  BY <1>2 DEF Open

\* A job that left the stream is not open.
LEMMA SettledIsNotOpen ==
  ASSUME NEW j, stream'[j] \in {"acked", "termed"}
  PROVE  Open(j)' = 0
BY DEF Open

\* A dropped delivery that is not the latest of a job in the hands of loops opens
\* nothing either.
LEMMA StaleDrop ==
  ASSUME NEW l \in Loops, OnlyLoop(l), NEW j, count'[j] = count[j], stream'[j] = stream[j],
         \A d \in Held(l) : d.job = j /\ d \notin Held(l)' => stream[j] # "out" \/ d.attempt # count[j],
         \A d \in Held(l)' : d.job = j => d \in Held(l)
  PROVE  Open(j)' = Open(j)
<1>1. \A k \in Loops \ {l} : Held(k)' = Held(k)
  BY DEF OnlyLoop, Held
<1>2. stream[j] = "out" => (LatestHeld(j)' <=> LatestHeld(j))
  BY <1>1 DEF LatestHeld
<1>3. QED
  BY <1>2 DEF Open

LEMMA OpenValues ==
  ASSUME NEW j
  PROVE  Open(j) \in {0, 1} /\ Open(j)' \in {0, 1}
BY DEF Open

\* A loop that only drops deliveries owes and buries no more than before.
LEMMA Drops ==
  ASSUME NEW l \in Loops, NEW j, buffer'[l] \subseteq buffer[l], cur'[l] = NoDelivery,
         pc'[l] \in {"idle", "stopped"}, closed'[l] = closed[l]
  PROVE  /\ Owes(l, j)' => Owes(l, j)
         /\ MayBury(l, j)' => MayBury(l, j)
         /\ Waits(l, j)' => Waits(l, j)
         /\ \A d \in Held(l)' : d \in Held(l)
BY DEF Owes, MayBury, Waits, Held, Busy

\* No second delivery of the job in hand waits in the same batch.
LEMMA InHandAlone ==
  ASSUME TypeOK, HeldInv, NEW l \in Loops, Busy(l)
  PROVE  /\ ~Waits(l, cur[l].job)
         /\ LoopInv(l)
         /\ cur[l] \in Held(l)
         /\ \A d \in Held(l) : d.job = cur[l].job => d = cur[l]
BY InHand DEF HeldInv, LoopInv, Waits, Held

\* What a loop that keeps its deliveries must pay for.
LEMMA KeptAccounts ==
  ASSUME TypeOK, TypeOK', AccountsInv, NEW l \in Loops, OnlyLoop(l), NEW j \in Jobs,
         count' = count, Held(l)' = Held(l), closed'[l] = closed[l],
         stream'[j] = stream[j] \/ stream'[j] \in {"acked", "termed"},
         faults' >= faults, retries' >= retries,
         deadLettered'[j] + One(MayBury(l, j)') + faults
           <= deadLettered[j] + One(MayBury(l, j)) + faults',
         runs'[j] + One(Waits(l, j)') <= runs[j] + One(Waits(l, j))
  PROVE  Accounts(j)'
<1>1. Open(j)' <= Open(j)
  BY OpenStays, SettledIsNotOpen, OpenValues
<1>2. Owes(l, j)' <=> Owes(l, j)
  BY DEF Owes
<1>3. /\ {faults, faults', retries, retries', runs[j], runs'[j]} \subseteq Nat
      /\ {deadLettered[j], deadLettered'[j]} \subseteq Nat
  BY DEF TypeOK
<1>4. /\ {One(MayBury(l, j)), One(MayBury(l, j)')} \subseteq {0, 1}
      /\ One(Owes(l, j)') = One(Owes(l, j)) /\ One(Owes(l, j)) \in {0, 1}
  BY <1>2 DEF One
<1>5. One(Owes(l, j)') + Open(j)' + faults + retries
        <= One(Owes(l, j)) + Open(j) + faults' + retries'
  BY <1>1, <1>3, <1>4, OpenValues
<1>6. deadLettered'[j] + One(MayBury(l, j)') + Open(j)' + faults
        <= deadLettered[j] + One(MayBury(l, j)) + Open(j) + faults'
  BY <1>1, <1>3, <1>4, OpenValues
<1>7. QED
  BY <1>5, <1>6, LoopAccounts DEF AccountsInv

\* A loop that ends with a delivery, or drops its batch, pays with a fault, with what
\* it owed, or not at all when nothing opens.
LEMMA DroppedAccounts ==
  ASSUME TypeOK, TypeOK', AccountsInv, NEW l \in Loops, OnlyLoop(l), NEW j \in Jobs,
         count' = count, runs' = runs, retries' = retries,
         buffer'[l] \subseteq buffer[l], cur'[l] = NoDelivery, pc'[l] \in {"idle", "stopped"},
         closed'[l] = closed[l],
         faults' >= faults,
         \/ faults' > faults /\ deadLettered'[j] = deadLettered[j]
         \/ /\ faults' > faults /\ deadLettered'[j] <= deadLettered[j] + 1
            /\ MayBury(l, j) /\ ~MayBury(l, j)'
         \/ /\ deadLettered'[j] = deadLettered[j]
            /\ \/ Open(j)' <= Open(j)
               \/ /\ Owes(l, j) /\ ~Owes(l, j)'
                  /\ MayBury(l, j) /\ ~MayBury(l, j)'
  PROVE  Accounts(j)'
<1>1. /\ {faults, faults', retries, retries', runs[j], runs'[j]} \subseteq Nat
      /\ {deadLettered[j], deadLettered'[j]} \subseteq Nat
  BY DEF TypeOK
<1>2. One(Owes(l, j)') + Open(j)' + faults + retries
        <= One(Owes(l, j)) + Open(j) + faults' + retries'
  BY <1>1, Drops, OpenValues DEF One
<1>3. deadLettered'[j] + One(MayBury(l, j)') + Open(j)' + faults
        <= deadLettered[j] + One(MayBury(l, j)) + Open(j) + faults'
  BY <1>1, Drops, OpenValues DEF One
<1>4. runs'[j] + One(Waits(l, j)') <= runs[j] + One(Waits(l, j))
  BY <1>1, Drops DEF One
<1>5. QED
  BY <1>2, <1>3, <1>4, LoopAccounts DEF AccountsInv

\* When a loop is through with its delivery, only the job in hand may have opened,
\* and the loop owes it nothing any more.
LEMMA DoneOpens ==
  ASSUME TypeOK, HeldInv, NEW l \in Loops, Busy(l), OnlyLoop(l), count' = count,
         buffer'[l] = buffer[l], cur'[l] = NoDelivery, pc'[l] = "idle",
         NEW j \in Jobs
  PROVE  /\ j # cur[l].job /\ stream'[j] = stream[j] => Open(j)' = Open(j)
         /\ j = cur[l].job => ~Owes(l, j)' /\ ~MayBury(l, j)'
<1>1. Held(l)' = buffer[l] /\ Held(l) = buffer[l] \cup {cur[l]}
  BY InHand, NoDeliveryAssumption DEF Held, TypeOK, Delivery
<1>2. j # cur[l].job /\ stream'[j] = stream[j] => Open(j)' = Open(j)
  BY <1>1, OpenStays
<1>3. j = cur[l].job => ~Owes(l, j)' /\ ~MayBury(l, j)'
  BY <1>1, InHandAlone DEF Owes, MayBury, Waits, Busy
<1>4. QED
  BY <1>2, <1>3

LEMMA AccountsStep ==
  ASSUME TypeOK, TypeOK', HeldInv, HeldInv', AccountsInv, [Next]_vars
  PROVE  AccountsInv'
<1> USE DEF brokerVars, loopVars
<1>1. ASSUME NEW l \in Loops, RunHandler(l), NEW j \in Jobs PROVE Accounts(j)'
  <2>1. PICK d \in buffer[l] : /\ Take(l, d) /\ runs' = [runs EXCEPT ![d.job] = @ + 1]
    BY <1>1 DEF RunHandler
  <2>2. /\ OnlyLoop(l) /\ Held(l)' = Held(l) /\ d # NoDelivery /\ d \in Delivery
        /\ pc'[l] = "handler" /\ ~completed'[l] /\ cur'[l] = d /\ LoopInv(l)
    BY <1>1, <2>1, NoDeliveryAssumption
    DEF RunHandler, Take, OnlyLoop, Held, TypeOK, Busy, HeldInv, LoopInv
  <2>3. /\ MayBury(l, j)' => MayBury(l, j)
        /\ Waits(l, j)' => Waits(l, j) /\ j # d.job
        /\ Waits(l, d.job)
    BY <1>1, <2>1, <2>2 DEF MayBury, Waits, Take, Busy, LoopInv, Held, TypeOK
  <2>4. QED
    BY <1>1, <2>1, <2>2, <2>3, KeptAccounts DEF RunHandler, One, TypeOK
<1>2. ASSUME NEW l \in Loops, Undecodable(l), NEW j \in Jobs PROVE Accounts(j)'
  <2>1. PICK d \in buffer[l] : Take(l, d)
    BY <1>2 DEF Undecodable
  <2>2. /\ OnlyLoop(l) /\ Held(l)' = Held(l) /\ d # NoDelivery /\ d \in Delivery
        /\ pc'[l] = "bury" /\ cur'[l] = d
    BY <1>2, <2>1, NoDeliveryAssumption
    DEF Undecodable, Take, OnlyLoop, Held, TypeOK, Busy
  <2>3. /\ MayBury(l, j)' => MayBury(l, j)
        /\ Waits(l, j)' => Waits(l, j)
    BY <1>2, <2>1, <2>2 DEF MayBury, Waits, Take, Busy, TypeOK
  <2>4. QED
    BY <1>2, <2>1, <2>2, <2>3, KeptAccounts DEF Undecodable, One, TypeOK
<1>3. ASSUME NEW l \in Loops, ContextAck(l), NEW j \in Jobs PROVE Accounts(j)'
  <2>1. /\ OnlyLoop(l) /\ Held(l)' = Held(l) /\ Busy(l)
        /\ Waits(l, j)' <=> Waits(l, j)
    BY <1>3 DEF ContextAck, AckJob, OnlyLoop, Held, Busy, Waits, TypeOK
  <2>2. stream'[j] = stream[j] \/ stream'[j] \in {"acked", "termed"}
    BY <1>3, <2>1, InHand DEF ContextAck, AckJob, HeldInv, LoopInv, Held, TypeOK
  <2>3. MayBury(l, j)' => MayBury(l, j)
    BY <1>3, <2>1, InHandAlone DEF ContextAck, AckJob, MayBury, Waits, Busy, LoopInv, TypeOK
  <2>4. QED
    BY <1>3, <2>1, <2>2, <2>3, KeptAccounts DEF ContextAck, One, TypeOK
<1>6. ASSUME NEW l \in Loops, ContextTerm(l), NEW j \in Jobs PROVE Accounts(j)'
  <2>1. /\ OnlyLoop(l) /\ Held(l)' = Held(l) /\ Busy(l)
        /\ Waits(l, j)' <=> Waits(l, j)
    BY <1>6 DEF ContextTerm, TermJob, GoTo, OnlyLoop, Held, Busy, Waits, TypeOK
  <2>2. stream'[j] = stream[j] \/ stream'[j] \in {"acked", "termed"}
    BY <1>6, <2>1, InHand DEF ContextTerm, TermJob, HeldInv, LoopInv, Held, TypeOK
  <2>3. MayBury(l, j)' => MayBury(l, j)
    BY <1>6, <2>1, InHandAlone DEF ContextTerm, TermJob, GoTo, MayBury, Waits, Busy, LoopInv, TypeOK
  <2>4. QED
    BY <1>6, <2>1, <2>2, <2>3, KeptAccounts DEF ContextTerm, One, TypeOK
<1>8. ASSUME NEW l \in Loops, HandlerThrows(l), NEW j \in Jobs PROVE Accounts(j)'
  <2>1. /\ OnlyLoop(l) /\ Held(l)' = Held(l) /\ Busy(l)
        /\ Waits(l, j)' <=> Waits(l, j)
    BY <1>8 DEF HandlerThrows, GoTo, OnlyLoop, Held, Busy, Waits, TypeOK
  <2>2. stream'[j] = stream[j] \/ stream'[j] \in {"acked", "termed"}
    BY <1>8, <2>1, InHand DEF HandlerThrows, GoTo, HeldInv, LoopInv, Held, TypeOK
  <2>3. MayBury(l, j)' => MayBury(l, j)
    BY <1>8, <2>1, InHandAlone DEF HandlerThrows, GoTo, FailureSteps, MayBury, Waits, Busy, LoopInv, TypeOK
  <2>4. QED
    BY <1>8, <2>1, <2>2, <2>3, KeptAccounts DEF HandlerThrows, One, TypeOK
<1>9. ASSUME NEW l \in Loops, HandlerThrowsLate(l), NEW j \in Jobs PROVE Accounts(j)'
  <2>1. /\ OnlyLoop(l) /\ Held(l)' = Held(l) /\ Busy(l)
        /\ Waits(l, j)' <=> Waits(l, j)
    BY <1>9 DEF HandlerThrowsLate, GoTo, OnlyLoop, Held, Busy, Waits, TypeOK
  <2>2. stream'[j] = stream[j] \/ stream'[j] \in {"acked", "termed"}
    BY <1>9, <2>1, InHand DEF HandlerThrowsLate, GoTo, HeldInv, LoopInv, Held, TypeOK
  <2>3. faults' = faults + 1
    BY <1>9, <2>1, InHandAlone DEF HandlerThrowsLate, GoTo, FailureSteps, Fault, MayBury, Waits, Busy, LoopInv, TypeOK
  <2>4. QED
    BY <1>9, <2>1, <2>2, <2>3, KeptAccounts DEF HandlerThrowsLate, One, TypeOK
<1>11. ASSUME NEW l \in Loops, AckThrows(l), NEW j \in Jobs PROVE Accounts(j)'
  <2>1. /\ OnlyLoop(l) /\ Held(l)' = Held(l) /\ Busy(l)
        /\ Waits(l, j)' <=> Waits(l, j)
    BY <1>11 DEF AckThrows, GoTo, OnlyLoop, Held, Busy, Waits, TypeOK
  <2>2. stream'[j] = stream[j] \/ stream'[j] \in {"acked", "termed"}
    BY <1>11, <2>1, InHand DEF AckThrows, GoTo, HeldInv, LoopInv, Held, TypeOK
  <2>3. faults' = faults + 1
    BY <1>11, <2>1, InHandAlone DEF AckThrows, GoTo, FailureSteps, Fault, MayBury, Waits, Busy, LoopInv, TypeOK
  <2>4. QED
    BY <1>11, <2>1, <2>2, <2>3, KeptAccounts DEF AckThrows, One, TypeOK
<1>5. ASSUME NEW l \in Loops, ContextDeadLetter(l), NEW j \in Jobs PROVE Accounts(j)'
  <2>1. /\ OnlyLoop(l) /\ Held(l)' = Held(l) /\ Busy(l)
        /\ Waits(l, j)' <=> Waits(l, j)
    BY <1>5 DEF ContextDeadLetter, GoTo, OnlyLoop, Held, Busy, Waits, TypeOK
  <2>2. stream'[j] = stream[j] \/ stream'[j] \in {"acked", "termed"}
    BY <1>5, <2>1, InHand DEF ContextDeadLetter, GoTo, HeldInv, LoopInv, Held, TypeOK
  <2>3. /\ deadLettered'[j] <= deadLettered[j] + IF j = cur[l].job THEN 1 ELSE 0
        /\ j = cur[l].job => MayBury(l, j) /\ ~MayBury(l, j)'
        /\ j # cur[l].job => (MayBury(l, j)' <=> MayBury(l, j))
    BY <1>5, <2>1, InHandAlone, InHand, CopiesType DEF ContextDeadLetter, GoTo, AddDeadLetters, MayBury, Waits, Busy, LoopInv, TypeOK
  <2>4. /\ {deadLettered[j], deadLettered'[j], faults} \subseteq Nat
        /\ UNCHANGED <<faults, retries, closed, count, runs>>
    BY <1>5 DEF ContextDeadLetter, TypeOK
  <2>5. deadLettered'[j] + One(MayBury(l, j)') + faults
          <= deadLettered[j] + One(MayBury(l, j)) + faults'
    BY <2>3, <2>4 DEF One
  <2>6. QED
    BY <2>1, <2>2, <2>4, <2>5, KeptAccounts DEF One, TypeOK
<1>13. ASSUME NEW l \in Loops, PublishDeadLetter(l), NEW j \in Jobs PROVE Accounts(j)'
  <2>1. /\ OnlyLoop(l) /\ Held(l)' = Held(l) /\ Busy(l)
        /\ Waits(l, j)' <=> Waits(l, j)
    BY <1>13 DEF PublishDeadLetter, GoTo, OnlyLoop, Held, Busy, Waits, TypeOK
  <2>2. stream'[j] = stream[j] \/ stream'[j] \in {"acked", "termed"}
    BY <1>13, <2>1, InHand DEF PublishDeadLetter, GoTo, HeldInv, LoopInv, Held, TypeOK
  <2>3. /\ deadLettered'[j] <= deadLettered[j] + IF j = cur[l].job THEN 1 ELSE 0
        /\ j = cur[l].job => MayBury(l, j) /\ ~MayBury(l, j)'
        /\ j # cur[l].job => (MayBury(l, j)' <=> MayBury(l, j))
    BY <1>13, <2>1, InHandAlone, InHand, CopiesType DEF PublishDeadLetter, GoTo, AddDeadLetters, MayBury, Waits, Busy, LoopInv, TypeOK
  <2>4. /\ {deadLettered[j], deadLettered'[j], faults} \subseteq Nat
        /\ UNCHANGED <<faults, retries, closed, count, runs>>
    BY <1>13 DEF PublishDeadLetter, TypeOK
  <2>5. deadLettered'[j] + One(MayBury(l, j)') + faults
          <= deadLettered[j] + One(MayBury(l, j)) + faults'
    BY <2>3, <2>4 DEF One
  <2>6. QED
    BY <2>1, <2>2, <2>4, <2>5, KeptAccounts DEF One, TypeOK
<1>4. ASSUME NEW l \in Loops, ContextRetry(l), NEW j \in Jobs PROVE Accounts(j)'
  <2>1. /\ OnlyLoop(l) /\ Held(l)' = Held(l) /\ Busy(l)
        /\ Waits(l, j)' <=> Waits(l, j)
        /\ Owes(l, j)' <=> Owes(l, j)
        /\ UNCHANGED <<count, runs, deadLettered, faults>> /\ retries' = retries + 1
    BY <1>4 DEF ContextRetry, OnlyLoop, Held, Busy, Waits, Owes, TypeOK
  <2>2. /\ j = cur[l].job => MayBury(l, j) /\ ~MayBury(l, j)'
        /\ j # cur[l].job => (MayBury(l, j)' <=> MayBury(l, j))
    BY <1>4, <2>1, InHandAlone DEF ContextRetry, MayBury, Waits, Busy, TypeOK
  <2>3. j # cur[l].job => Open(j)' = Open(j)
    BY <1>4, <2>1, OpenStays, InHand DEF ContextRetry, NakJob, TypeOK
  <2>4. /\ {deadLettered[j], runs[j], faults, retries} \subseteq Nat
    BY DEF TypeOK
  <2>5. QED
    BY <2>1, <2>2, <2>3, <2>4, OpenValues, LoopAccounts DEF One, AccountsInv
<1>7. ASSUME NEW l \in Loops, HandlerReturns(l), NEW j \in Jobs PROVE Accounts(j)'
  <2>1. /\ OnlyLoop(l) /\ Busy(l)
        /\ UNCHANGED <<stream, count, deadLettered, runs, closed, faults, retries>>
    BY <1>7 DEF HandlerReturns, Done, GoTo, OnlyLoop, Busy, TypeOK
  <2>2. CASE completed[l] /\ Done(l)
    <3>1. buffer'[l] = buffer[l] /\ cur'[l] = NoDelivery /\ pc'[l] = "idle"
      BY <2>2 DEF Done, TypeOK
    <3>2. /\ Held(l)' = buffer[l] /\ Held(l) = buffer[l] \cup {cur[l]}
          /\ stream[cur[l].job] # "out" \/ cur[l].attempt < count[cur[l].job]
          /\ count[cur[l].job] \in Nat /\ cur[l].attempt \in Nat
      BY <2>1, <2>2, <3>1, InHand, InHandAlone DEF Held, LoopInv, TypeOK
    <3>3. Open(j)' = Open(j)
      BY <2>1, <3>2, StaleDrop
    <3>4. QED
      BY <2>1, <3>1, <3>3, OpenValues, DroppedAccounts DEF TypeOK
  <2>3. CASE ~completed[l] /\ GoTo(l, "ack") /\ UNCHANGED completed
    <3>1. /\ Held(l)' = Held(l)
          /\ Waits(l, j)' <=> Waits(l, j)
          /\ MayBury(l, j)' => MayBury(l, j)
      BY <1>7, <2>3 DEF HandlerReturns, GoTo, Held, Waits, MayBury, Busy, TypeOK
    <3>2. QED
      BY <2>1, <3>1, KeptAccounts DEF One, TypeOK
  <2>4. QED
    BY <1>7, <2>2, <2>3 DEF HandlerReturns
<1>10. ASSUME NEW l \in Loops, Ack(l) \/ Nak(l) \/ Term(l), NEW j \in Jobs PROVE Accounts(j)'
  <2>1. /\ OnlyLoop(l) /\ Busy(l)
        /\ UNCHANGED <<count, deadLettered, runs, closed, faults, retries>>
        /\ buffer'[l] = buffer[l] /\ cur'[l] = NoDelivery /\ pc'[l] = "idle"
    BY <1>10 DEF Ack, Nak, Term, Done, OnlyLoop, Busy, TypeOK
  <2>2. /\ cur[l].job \in Jobs
        /\ stream[cur[l].job] \in {"ready", "out", "acked", "termed"}
    BY <2>1, InHand, InHandAlone DEF LoopInv, TypeOK
  <2>3. j # cur[l].job => Open(j)' = Open(j)
    BY <1>10, <2>1, DoneOpens DEF Ack, Nak, Term, AckJob, NakJob, TermJob, TypeOK
  <2>4. j = cur[l].job /\ ~Nak(l) => Open(j)' <= Open(j)
    <3>1. j = cur[l].job /\ ~Nak(l) => stream'[j] \in {"acked", "termed"}
      BY <1>10, <2>2 DEF Ack, Term, AckJob, TermJob, TypeOK
    <3>2. QED
      BY <3>1, SettledIsNotOpen, OpenValues
  <2>5. j = cur[l].job /\ Nak(l) => /\ Owes(l, j) /\ ~Owes(l, j)'
                                    /\ MayBury(l, j) /\ ~MayBury(l, j)'
    <3>1. j = cur[l].job => ~Owes(l, j)' /\ ~MayBury(l, j)'
      BY <2>1, DoneOpens
    <3>2. j = cur[l].job /\ Nak(l) => Owes(l, j) /\ MayBury(l, j)
      BY <2>1, InHandAlone DEF Nak, Owes, MayBury, LoopInv
    <3>3. QED
      BY <3>1, <3>2
  <2>6. QED
    BY <2>1, <2>3, <2>4, <2>5, OpenValues, DroppedAccounts DEF TypeOK
<1>14. ASSUME NEW l \in Loops, PublishDeadLetterThrows(l), NEW j \in Jobs PROVE Accounts(j)'
  <2>1. /\ OnlyLoop(l) /\ Busy(l) /\ faults' = faults + 1
        /\ UNCHANGED <<count, runs, closed, retries>>
        /\ buffer'[l] = {} /\ cur'[l] = NoDelivery /\ pc'[l] = "idle"
    BY <1>14 DEF PublishDeadLetterThrows, Abandon, Fault, OnlyLoop, Busy, TypeOK
  <2>2. /\ cur[l].job \in Jobs
        /\ j = cur[l].job => MayBury(l, j) /\ ~MayBury(l, j)'
    BY <1>14, <2>1, InHand DEF PublishDeadLetterThrows, MayBury, Waits, Busy
  <2>3. /\ j # cur[l].job => deadLettered'[j] = deadLettered[j]
        /\ deadLettered'[cur[l].job] <= deadLettered[cur[l].job] + 1
    BY <1>14, <2>2 DEF PublishDeadLetterThrows, AddDeadLetters, TypeOK
  <2>4. QED
    BY <2>1, <2>2, <2>3, DroppedAccounts DEF TypeOK
<1>16. ASSUME NEW l \in Loops, SettlementLost(l) \/ Crash(l), NEW j \in Jobs PROVE Accounts(j)'
  <2>1. /\ OnlyLoop(l) /\ faults' = faults + 1
        /\ UNCHANGED <<count, runs, deadLettered, closed, retries>>
        /\ buffer'[l] \subseteq buffer[l] /\ cur'[l] = NoDelivery /\ pc'[l] \in {"idle", "stopped"}
    BY <1>16 DEF SettlementLost, Crash, Done, Abandon, Fault, OnlyLoop, TypeOK
  <2>2. QED
    BY <2>1, DroppedAccounts DEF TypeOK
<1>17. ASSUME NEW l \in Loops, Stop(l), NEW j \in Jobs PROVE Accounts(j)'
  <2>1. /\ OnlyLoop(l) /\ closed[l]
        /\ UNCHANGED <<stream, count, runs, deadLettered, closed, faults, retries>>
        /\ buffer'[l] = {} /\ cur[l] = NoDelivery /\ cur'[l] = NoDelivery /\ pc'[l] = "stopped"
    BY <1>17 DEF Stop, OnlyLoop, Busy, TypeOK
  <2>2. /\ Waits(l, j) => /\ Owes(l, j) /\ ~Owes(l, j)'
                          /\ MayBury(l, j) /\ ~MayBury(l, j)'
        /\ ~Waits(l, j) => Open(j)' = Open(j)
    <3>1. Held(l) = buffer[l] /\ Held(l)' = {}
      BY <2>1 DEF Held
    <3>2. Waits(l, j) => /\ Owes(l, j) /\ ~Owes(l, j)'
                         /\ MayBury(l, j) /\ ~MayBury(l, j)'
      BY <2>1, <3>1 DEF Waits, Owes, MayBury, Busy
    <3>3. ~Waits(l, j) => Open(j)' = Open(j)
      BY <2>1, <3>1, OpenStays DEF Waits
    <3>4. QED
      BY <3>2, <3>3
  <2>3. QED
    BY <2>1, <2>2, OpenValues, DroppedAccounts DEF TypeOK
<1>18. ASSUME NEW l \in Loops, Close(l), NEW j \in Jobs PROVE Accounts(j)'
  <2>1. /\ OnlyLoop(l) /\ faults' = faults + 1 /\ Held(l)' = Held(l)
        /\ UNCHANGED <<stream, count, runs, deadLettered, retries>>
        /\ MayBury(l, j)' <=> MayBury(l, j)
        /\ Waits(l, j)' <=> Waits(l, j)
    BY <1>18 DEF Close, Fault, OnlyLoop, Held, MayBury, Waits, Busy, TypeOK
  <2>2. Open(j)' = Open(j) /\ Open(j) \in {0, 1}
    BY <2>1, OpenStays, OpenValues
  <2>3. {deadLettered[j], runs[j], faults, retries} \subseteq Nat
    BY DEF TypeOK
  <2>4. QED
    BY <2>1, <2>2, <2>3, LoopAccounts DEF One, AccountsInv
<1>20. ASSUME NEW l \in Loops, Restart(l), NEW j \in Jobs PROVE Accounts(j)'
  <2>1. /\ OnlyLoop(l) /\ Held(l)' = {} /\ Held(l) = {} /\ buffer[l] = {} /\ buffer'[l] = {}
        /\ ~Busy(l) /\ ~Busy(l)'
        /\ UNCHANGED <<stream, count, runs, deadLettered, faults, retries>>
    BY <1>20 DEF Restart, OnlyLoop, Held, Busy, HeldInv, LoopInv, TypeOK
  <2>2. Open(j)' = Open(j) /\ Open(j) \in {0, 1}
    BY <2>1, OpenStays, OpenValues
  <2>3. {deadLettered[j], runs[j], faults, retries} \subseteq Nat
    BY DEF TypeOK
  <2>4. /\ ~Owes(l, j)' /\ ~Owes(l, j)
        /\ ~MayBury(l, j)' /\ ~MayBury(l, j)
        /\ ~Waits(l, j)' /\ ~Waits(l, j)
    BY <2>1 DEF Owes, MayBury, Waits
  <2>5. QED
    BY <2>1, <2>2, <2>3, <2>4, LoopAccounts DEF One, AccountsInv
<1>21. ASSUME NEW i \in Jobs, Enqueue(i) \/ AckWaitEnds(i) \/ AckWaitOverrun(i), NEW j \in Jobs
       PROVE  Accounts(j)'
  <2>1. /\ stream' = [stream EXCEPT ![i] = "ready"]
        /\ UNCHANGED <<loopVars, closed, count, runs, deadLettered, retries>>
        /\ Waiting(j)' = Waiting(j) /\ Owing(j)' = Owing(j) /\ Burying(j)' = Burying(j)
        /\ LatestHeld(j)' <=> LatestHeld(j)
    BY <1>21 DEF Enqueue, AckWaitEnds, AckWaitOverrun, Waiting, Owing, Burying, Waits, Owes,
                 MayBury, LatestHeld, Held, Busy
  <2>2. CASE (Enqueue(i) \/ AckWaitEnds(i)) /\ faults' = faults
    <3>1. Open(j)' = Open(j)
      <4>1. CASE j # i
        BY <2>1, <4>1 DEF Open, TypeOK
      <4>2. CASE Enqueue(i) /\ j = i
        BY <2>1, <4>2 DEF Open, Enqueue, TypeOK
      <4>3. CASE AckWaitEnds(i) /\ j = i
        <5>1. ~LatestHeld(i)
          BY <4>3, NoDeliveryAssumption DEF AckWaitEnds, LatestHeld, Held, Holds, TypeOK
        <5>2. QED
          BY <2>1, <4>3, <5>1 DEF Open, AckWaitEnds, TypeOK
      <4>4. QED
        BY <2>2, <4>1, <4>2, <4>3
    <3>2. QED
      BY <2>1, <2>2, <3>1 DEF AccountsInv, Accounts
  <2>3. CASE AckWaitOverrun(i) /\ faults' = faults + 1
    <3>1. /\ Open(j) \in {0, 1} /\ Open(j)' \in {0, 1}
          /\ {faults, retries, count[j], runs[j], deadLettered[j]} \subseteq Nat
          /\ Budget(count[j]) \in Nat
      BY OpenValues, JetStreamAssumption DEF TypeOK, Budget
    <3>2. Accounts(j) /\ Budget(count'[j]) = Budget(count[j])
      BY <2>1 DEF AccountsInv, Budget
    <3>3. /\ count[j] + Cardinality(Owing(j)) + Open(j)' <= Budget(count[j]) + faults' + retries
          /\ deadLettered[j] + Cardinality(Burying(j)) + Open(j)' <= 1 + faults'
      BY <2>3, <3>1, <3>2, LoopSets DEF Accounts
    <3>4. QED
      BY <2>1, <3>2, <3>3 DEF Accounts
  <2>4. QED
    BY <1>21, <2>2, <2>3 DEF Enqueue, AckWaitEnds, AckWaitOverrun, Fault
<1>22. ASSUME NEW l \in Loops, Fetch(l), NEW j \in Jobs PROVE Accounts(j)'
  <2>1. PICK sent \in SUBSET {i \in Jobs : stream[i] = "ready"} :
          /\ stream' = [i \in Jobs |-> IF i \in sent THEN "out" ELSE stream[i]]
          /\ count' = [i \in Jobs |-> IF i \in sent THEN count[i] + 1 ELSE count[i]]
          /\ buffer' = [buffer EXCEPT ![l] = {[job |-> i, attempt |-> count[i] + 1] : i \in sent}]
    BY <1>22 DEF Fetch
  <2>2. /\ OnlyLoop(l) /\ Held(l) = {} /\ Held(l)' = buffer'[l] /\ buffer[l] = {} /\ ~closed'[l]
        /\ ~Busy(l) /\ ~Busy(l)'
        /\ UNCHANGED <<runs, deadLettered, faults, retries>>
    BY <1>22, <2>1, NoDeliveryAssumption DEF Fetch, OnlyLoop, Held, Busy, TypeOK, Delivery
  <2>3. ~Owes(l, j) /\ ~MayBury(l, j) /\ ~Waits(l, j)
    BY <2>2 DEF Owes, MayBury, Waits
  <2>4. {faults, retries, count[j], runs[j], deadLettered[j]} \subseteq Nat
    BY DEF TypeOK
  <2>5. CASE j \notin sent
    <3>1. /\ ~Waits(l, j)' /\ stream'[j] = stream[j] /\ count'[j] = count[j]
          /\ \A d \in Held(l)' : d.job # j
      BY <2>1, <2>2, <2>5 DEF Waits, TypeOK
    <3>2. ~Owes(l, j)' /\ ~MayBury(l, j)'
      BY <2>2, <3>1 DEF Owes, MayBury
    <3>3. Open(j)' = Open(j) /\ Open(j) \in {0, 1}
      BY <2>2, <3>1, OpenStays, OpenValues
    <3>4. QED
      BY <2>2, <2>3, <2>4, <3>1, <3>2, <3>3, LoopAccounts DEF One, AccountsInv
  <2>6. CASE j \in sent
    <3>1. /\ stream[j] = "ready" /\ stream'[j] = "out" /\ count'[j] = count[j] + 1
          /\ [job |-> j, attempt |-> count'[j]] \in buffer'[l]
          /\ \A d \in buffer'[l] : d.job = j => d.attempt = count'[j]
      BY <2>1, <2>6 DEF TypeOK
    <3>2. /\ Open(j) = 1 /\ Open(j)' = 0
          /\ Waits(l, j)'
          /\ MayBury(l, j)'
          /\ Owes(l, j)' <=> count'[j] < MaxAttempts
      <4>1. LatestHeld(j)'
        BY <2>2, <3>1 DEF LatestHeld
      <4>2. Waits(l, j)' /\ MayBury(l, j)'
        BY <3>1 DEF Waits, MayBury
      <4>3. Owes(l, j)' <=> count'[j] < MaxAttempts
        BY <2>2, <3>1 DEF Owes
      <4>4. QED
        BY <3>1, <4>1, <4>2, <4>3 DEF Open
    <3>3. /\ Cardinality(Waiting(j)') = Cardinality(Waiting(j)) + 1
          /\ Cardinality(Owing(j)') = Cardinality(Owing(j)) + One(count'[j] < MaxAttempts)
          /\ Cardinality(Burying(j)') = Cardinality(Burying(j)) + 1
      BY <2>2, <2>3, <3>2, OnlyLoopCounts, LoopSets DEF One
    <3>4. Budget(count[j]) \in Nat
          /\ Budget(count'[j]) >= Budget(count[j]) + One(count'[j] < MaxAttempts)
      BY <2>4, <3>1, JetStreamAssumption DEF Budget, One
    <3>5. Accounts(j)
      BY DEF AccountsInv
    <3>6. count'[j] + Cardinality(Owing(j)') + Open(j)' <= Budget(count'[j]) + faults' + retries'
      BY <2>2, <2>4, <3>1, <3>2, <3>3, <3>4, <3>5, LoopSets, JetStreamAssumption
      DEF Accounts, Budget, One
    <3>7. /\ deadLettered'[j] + Cardinality(Burying(j)') + Open(j)' <= 1 + faults'
          /\ runs'[j] + Cardinality(Waiting(j)') <= count'[j]
      BY <2>2, <2>4, <3>1, <3>2, <3>3, <3>5, LoopSets DEF Accounts
    <3>8. QED
      BY <3>6, <3>7 DEF Accounts
  <2>7. QED
    BY <2>5, <2>6
<1>23. CASE UNCHANGED vars
  <2>1. \A j \in Jobs : Waiting(j)' = Waiting(j) /\ Owing(j)' = Owing(j) /\ Burying(j)' = Burying(j)
                        /\ Open(j)' = Open(j)
    BY <1>23 DEF vars, Waiting, Owing, Burying, Waits, Owes, MayBury, Open, LatestHeld, Held, Busy
  <2>2. QED
    BY <1>23, <2>1 DEF vars, AccountsInv, Accounts
<1>24. QED
  BY <1>1, <1>2, <1>3, <1>4, <1>5, <1>6, <1>7, <1>8, <1>9, <1>10, <1>11, <1>13, <1>14,
     <1>16, <1>17, <1>18, <1>20, <1>21, <1>22, <1>23
  DEF Next, Process, Context, AccountsInv

LEMMA InitAccounts == Init => HeldInv /\ AccountsInv
<1> SUFFICES ASSUME Init PROVE HeldInv /\ AccountsInv
  OBVIOUS
<1>1. \A l \in Loops : Held(l) = {} /\ ~Busy(l)
  BY DEF Init, Held, Busy
<1>2. HeldInv
  BY <1>1 DEF Init, HeldInv, JobInv, LoopInv, TermedMeansDeadLettered, Busy, Held
<1>3. \A j \in Jobs : Waiting(j) = {} /\ Owing(j) = {} /\ Burying(j) = {} /\ Open(j) = 1
  BY <1>1 DEF Init, Waiting, Owing, Burying, Waits, Owes, MayBury, Open
<1>4. AccountsInv
  BY <1>3, FS_EmptySet, JetStreamAssumption DEF Init, AccountsInv, Accounts, Budget
<1>5. QED
  BY <1>2, <1>4

JobsInv == TypeOK /\ HeldInv /\ AccountsInv

LEMMA JobsInvariant == Spec => []JobsInv
<1>1. Init => JobsInv
  BY InitTypes, InitAccounts DEF JobsInv
<1>2. JobsInv /\ [Next]_vars => JobsInv'
  BY StepTypes, HeldStep, AccountsStep DEF JobsInv
<1>3. QED
  BY <1>1, <1>2, PTL DEF Spec

\* No job is termed before its dead letter is published, none is buried a second time
\* or run beyond maxAttempts unless a fault or the handler itself asked for it,
\* whatever deliveries overlap (NatsJetStreamJobQueue._process and _handleFailure).
THEOREM JobsAreAccounted == Spec => []JobsAccounted
<1>1. ASSUME JobsInv PROVE JobsAccounted
  <2>1. ASSUME NEW j \in Jobs
        PROVE  deadLettered[j] <= 1 + faults /\ runs[j] <= MaxAttempts + faults + retries
    <3>1. /\ {count[j], runs[j], deadLettered[j], faults, retries, MaxAttempts} \subseteq Nat
          /\ Open(j) \in {0, 1} /\ Budget(count[j]) <= MaxAttempts /\ Budget(count[j]) \in Nat
      BY <1>1, OpenValues, JetStreamAssumption DEF JobsInv, TypeOK, Budget
    <3>2. QED
      BY <1>1, <3>1, LoopSets DEF JobsInv, AccountsInv, Accounts
  <2>2. QED
    BY <1>1, <2>1 DEF JobsInv, HeldInv, JobsAccounted, DeadLetteredOnce, RunsWithinBudget
<1>2. QED
  BY <1>1, JobsInvariant, PTL

--------------------------------------------------------------------------------
(* The refinement. *)

\* Steps that move a job from hand to hand are none of the promise.
LEMMA PhaseStutters ==
  ASSUME TypeOK, UNCHANGED runs, stream' \in [Jobs -> {"absent", "ready", "out", "acked", "termed"}],
         \A j \in Jobs : \/ stream'[j] = stream[j]
                         \/ stream[j] \in {"ready", "out"} /\ stream'[j] \in {"ready", "out"}
  PROVE  UNCHANGED Promise!vars
<1>1. PhaseOf' = PhaseOf
  BY DEF PhaseOf, TypeOK
<1>2. QED
  BY <1>1 DEF Promise!vars

\* An acknowledgement settles the job in hand, or comes too late to do anything.
LEMMA AckImplements ==
  ASSUME TypeOK, UNCHANGED runs, NEW j \in Jobs, AckJob(j), stream[j] # "absent", runs[j] > 0
  PROVE  Promise!Next \/ UNCHANGED Promise!vars
<1>1. CASE stream[j] \in {"ready", "out"}
  <2>1. PhaseOf[j] = "owed" /\ PhaseOf' = [PhaseOf EXCEPT ![j] = "settled"]
    BY <1>1 DEF PhaseOf, AckJob, TypeOK
  <2>2. Promise!Settle(j)
    BY <2>1 DEF Promise!Settle
  <2>3. QED
    BY <2>2 DEF Promise!Next
<1>2. CASE stream[j] \notin {"ready", "out"}
  BY <1>2, PhaseStutters DEF AckJob, TypeOK
<1>3. QED
  BY <1>1, <1>2

\* A termination gives the job in hand up, or comes too late.
LEMMA TermImplements ==
  ASSUME TypeOK, UNCHANGED runs, NEW j \in Jobs, TermJob(j), stream[j] # "absent"
  PROVE  Promise!Next \/ UNCHANGED Promise!vars
<1>1. CASE stream[j] \in {"ready", "out"}
  <2>1. PhaseOf[j] = "owed" /\ PhaseOf' = [PhaseOf EXCEPT ![j] = "buried"]
    BY <1>1 DEF PhaseOf, TermJob, TypeOK
  <2>2. Promise!Bury(j)
    BY <2>1 DEF Promise!Bury
  <2>3. QED
    BY <2>2 DEF Promise!Next
<1>2. CASE stream[j] \notin {"ready", "out"}
  BY <1>2, PhaseStutters DEF TermJob, TypeOK
<1>3. QED
  BY <1>1, <1>2

LEMMA NakImplements ==
  ASSUME TypeOK, UNCHANGED runs, NEW j \in Jobs, NakJob(j)
  PROVE  UNCHANGED Promise!vars
BY PhaseStutters DEF NakJob, TypeOK

\* The queue implements AtLeastOnce: a job is acked only after a handler ran, and what
\* was acked or termed stays so, with any loops, overlapping deliveries, lost
\* settlements and crashes.
THEOREM QueueImplementsPromise == Spec => KeepsPromise
<1>1. Init => Promise!Init
  BY DEF Init, Promise!Init, PhaseOf
<1>2. JobsInv /\ [Next]_vars => [Promise!Next]_(Promise!vars)
  <2> SUFFICES ASSUME JobsInv, [Next]_vars
               PROVE  Promise!Next \/ UNCHANGED Promise!vars
    OBVIOUS
  <2> USE DEF JobsInv, brokerVars, loopVars
  <2>1. ASSUME NEW j \in Jobs, Enqueue(j) PROVE Promise!Next
    <3>1. PhaseOf[j] = "unsent" /\ PhaseOf' = [PhaseOf EXCEPT ![j] = "owed"]
      BY <2>1 DEF Enqueue, PhaseOf, TypeOK
    <3>2. Promise!Accept(j)
      BY <2>1, <3>1 DEF Enqueue, Promise!Accept
    <3>3. QED
      BY <3>2 DEF Promise!Next
  <2>2. ASSUME NEW j \in Jobs, AckWaitEnds(j) \/ AckWaitOverrun(j) PROVE UNCHANGED Promise!vars
    BY <2>2, PhaseStutters DEF AckWaitEnds, AckWaitOverrun, TypeOK
  <2>3. ASSUME NEW l \in Loops, Fetch(l) PROVE UNCHANGED Promise!vars
    BY <2>3, PhaseStutters DEF Fetch, TypeOK
  <2>4. ASSUME NEW l \in Loops, RunHandler(l) PROVE Promise!Next
    <3>1. PICK d \in buffer[l] : runs' = [runs EXCEPT ![d.job] = @ + 1]
      BY <2>4 DEF RunHandler, Take
    <3>2. d \in Held(l) /\ d.job \in Jobs /\ stream[d.job] # "absent"
      BY <3>1, NoDeliveryAssumption DEF Held, HeldInv, LoopInv, TypeOK, Delivery
    <3>3. PhaseOf[d.job] # "unsent" /\ PhaseOf' = PhaseOf
      BY <2>4, <3>2 DEF RunHandler, PhaseOf
    <3>4. Promise!Deliver(d.job)
      BY <3>1, <3>3 DEF Promise!Deliver
    <3>5. QED
      BY <3>2, <3>4 DEF Promise!Next
  <2>5. ASSUME NEW l \in Loops, ContextAck(l) \/ Ack(l) PROVE Promise!Next \/ UNCHANGED Promise!vars
    <3>1. /\ Busy(l) /\ AckJob(cur[l].job) /\ UNCHANGED runs /\ runs[cur[l].job] > 0
      BY <2>5 DEF ContextAck, Ack, Busy, HeldInv, LoopInv
    <3>2. QED
      BY <3>1, InHand, InHandAlone, AckImplements DEF LoopInv
  <2>6. ASSUME NEW l \in Loops, ContextTerm(l) \/ Term(l) PROVE Promise!Next \/ UNCHANGED Promise!vars
    <3>1. /\ Busy(l) /\ TermJob(cur[l].job) /\ UNCHANGED runs
      BY <2>6 DEF ContextTerm, Term, Busy
    <3>2. QED
      BY <3>1, InHand, InHandAlone, TermImplements DEF LoopInv
  <2>7. ASSUME NEW l \in Loops, ContextRetry(l) \/ Nak(l) PROVE UNCHANGED Promise!vars
    <3>1. /\ Busy(l) /\ NakJob(cur[l].job) /\ UNCHANGED runs
      BY <2>7 DEF ContextRetry, Nak, Busy
    <3>2. QED
      BY <3>1, InHand, NakImplements
  <2>8. ASSUME UNCHANGED <<stream, runs>> PROVE UNCHANGED Promise!vars
    BY <2>8, PhaseStutters DEF TypeOK
  <2>9. ASSUME NEW l \in Loops,
               \/ Undecodable(l) \/ ContextDeadLetter(l) \/ HandlerReturns(l) \/ HandlerThrows(l)
               \/ HandlerThrowsLate(l) \/ AckThrows(l) \/ PublishDeadLetter(l)
               \/ PublishDeadLetterThrows(l) \/ SettlementLost(l) \/ Stop(l) \/ Close(l)
               \/ Crash(l) \/ Restart(l)
        PROVE  UNCHANGED <<stream, runs>>
    BY <2>9 DEF Undecodable, ContextDeadLetter, HandlerReturns, HandlerThrows, HandlerThrowsLate,
                AckThrows, PublishDeadLetter, PublishDeadLetterThrows, SettlementLost, Stop, Close,
                Crash, Restart
  <2>10. CASE UNCHANGED vars
    BY <2>8, <2>10 DEF vars
  <2>11. QED
    BY <2>1, <2>2, <2>3, <2>4, <2>5, <2>6, <2>7, <2>8, <2>9, <2>10 DEF Next, Process, Context
<1>3. QED
  BY <1>1, <1>2, JobsInvariant, PTL DEF Spec, KeepsPromise, Promise!Spec

================================================================================
