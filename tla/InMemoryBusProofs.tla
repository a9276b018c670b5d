---------------------------- MODULE InMemoryBusProofs ----------------------------
(***************************************************************************)
(* Theorems about InMemoryMessageBus for any number of publications and    *)
(* subscriptions and every concurrency limit: the bookkeeping of the gates *)
(* and what a close() that returned promises.                              *)
(***************************************************************************)
EXTENDS InMemoryBus, FiniteSetTheorems, SequenceTheorems, TLAPS

\* Sets of messages are counted one by one.
LEMMA Counting ==
  ASSUME NEW S, S \subseteq Messages
  PROVE  /\ Cardinality(S) \in Nat
         /\ S = {} => Cardinality(S) = 0
         /\ \A m \in Messages \ S : Cardinality(S \cup {m}) = Cardinality(S) + 1
         /\ \A m \in S : Cardinality(S \ {m}) = Cardinality(S) - 1
<1>1. IsFiniteSet(S)
  BY BusAssumption, FS_Subset
<1>2. QED
  BY <1>1, FS_CardinalityType, FS_EmptySet, FS_AddElement, FS_RemoveElement

(* A queue holds no delivery twice, and just those that wait. *)
QueueOK(s) ==
  /\ \A i, j \in DOMAIN waiters[s] : waiters[s][i] = waiters[s][j] => i = j
  /\ \A m \in Messages : stage[m][s] = "waiting" <=> \E i \in DOMAIN waiters[s] : waiters[s][i] = m

CountsOK(s) ==
  /\ running[s] = Cardinality(Handlers(s))
  /\ waiters[s] # <<>> => running[s] + Cardinality(Granted(s)) >= Limit

\* A message is new until its deliveries are started, all at once.
Unstarted == \A m \in Messages : publisher[m] = "new" => \A s \in Subs : stage[m][s] = "none"

Shapes ==
  /\ running \in [Subs -> Nat]
  /\ waiters \in [Subs -> Seq(Messages)]
  /\ stage \in [Messages -> [Subs -> Stage]]
  /\ publisher \in [Messages -> {"new", "pending", "returned", "threw"}]

Flags ==
  /\ connected \in BOOLEAN /\ closing \in BOOLEAN
  /\ sub \in [Subs -> {"new", "open", "draining", "closed", "orphaned"}]
  /\ closer \in {"none", "subs", "wait", "closed", "failed", "timeout"}
  /\ toClose \subseteq Subs
  /\ current \in Subs \cup {NoSub}
  /\ awaited \subseteq Messages \X Subs
  /\ spoiled \in BOOLEAN
  /\ faults \in Nat /\ closes \in Nat

GateInv == Shapes /\ Flags /\ Unstarted /\ \A s \in Subs : QueueOK(s) /\ CountsOK(s)

LEMMA GateInvMeans == GateInv => GatesAccounted
BY DEF GateInv, Shapes, Flags, QueueOK, CountsOK, GatesAccounted, TypeOK, RunningCountsHandlers, NoIdleWaiters

\* A gate that nothing enters or leaves.
LEMMA SameGate ==
  ASSUME NEW s, QueueOK(s), CountsOK(s), running'[s] = running[s], waiters'[s] = waiters[s],
         \A m \in Messages : \/ stage'[m][s] = stage[m][s]
                             \/ {stage'[m][s], stage[m][s]} \subseteq Ended \cup {"none"}
  PROVE  QueueOK(s)' /\ CountsOK(s)'
<1>1. Handlers(s)' = Handlers(s) /\ Granted(s)' = Granted(s)
  BY DEF Handlers, Granted, Ended
<1>2. \A m \in Messages : stage'[m][s] = "waiting" <=> stage[m][s] = "waiting"
  BY DEF Ended
<1>3. QED
  BY <1>1, <1>2 DEF QueueOK, CountsOK

\* A delivery enters a gate that has capacity.
LEMMA EnterGate ==
  ASSUME NEW s, NEW m \in Messages, QueueOK(s), CountsOK(s), stage[m][s] = "none",
         stage'[m][s] = "handler", running'[s] = running[s] + 1, waiters'[s] = waiters[s],
         \A n \in Messages \ {m} : stage'[n][s] = stage[n][s]
  PROVE  QueueOK(s)' /\ CountsOK(s)'
<1>1. Handlers(s)' = Handlers(s) \cup {m} /\ m \notin Handlers(s) /\ Granted(s)' = Granted(s)
  BY DEF Handlers, Granted
<1>2. Cardinality(Handlers(s)') = Cardinality(Handlers(s)) + 1
  BY <1>1, Counting DEF Handlers
<1>3. Cardinality(Handlers(s)) \in Nat /\ Cardinality(Granted(s)) \in Nat /\ Limit \in Nat
  BY Counting, BusAssumption DEF Handlers, Granted
<1>4. CountsOK(s)'
  BY <1>1, <1>2, <1>3 DEF CountsOK
<1>5. \A n \in Messages : stage'[n][s] = "waiting" <=> stage[n][s] = "waiting"
  OBVIOUS
<1>6. QED
  BY <1>4, <1>5 DEF QueueOK

\* A delivery waits at a gate that has none.
LEMMA QueueUp ==
  ASSUME NEW s, NEW m \in Messages, QueueOK(s), CountsOK(s), waiters[s] \in Seq(Messages),
         stage[m][s] = "none", stage'[m][s] = "waiting", running[s] >= Limit,
         running'[s] = running[s], waiters'[s] = Append(waiters[s], m),
         \A n \in Messages \ {m} : stage'[n][s] = stage[n][s]
  PROVE  QueueOK(s)' /\ CountsOK(s)'
<1>1. Handlers(s)' = Handlers(s) /\ Granted(s)' = Granted(s)
  BY DEF Handlers, Granted
<1>2. Cardinality(Handlers(s)) \in Nat /\ Cardinality(Granted(s)) \in Nat /\ Limit \in Nat
  BY Counting, BusAssumption DEF Handlers, Granted
<1>3. CountsOK(s)'
  BY <1>1, <1>2 DEF CountsOK
<1>4. /\ Len(waiters'[s]) = Len(waiters[s]) + 1 /\ waiters'[s][Len(waiters[s]) + 1] = m
      /\ \A i \in 1..Len(waiters[s]) : waiters'[s][i] = waiters[s][i]
      /\ DOMAIN waiters'[s] = 1..(Len(waiters[s]) + 1) /\ DOMAIN waiters[s] = 1..Len(waiters[s])
      /\ Len(waiters[s]) \in Nat
  OBVIOUS
<1>5. \A i \in DOMAIN waiters[s] : waiters[s][i] # m
  BY DEF QueueOK
<1>6. \A i, j \in DOMAIN waiters'[s] : waiters'[s][i] = waiters'[s][j] => i = j
  BY <1>4, <1>5 DEF QueueOK
<1>7. ASSUME NEW n \in Messages
      PROVE  stage'[n][s] = "waiting" <=> \E i \in DOMAIN waiters'[s] : waiters'[s][i] = n
  <2>1. CASE n = m
    BY <1>4, <2>1
  <2>2. CASE n # m
    BY <1>4, <2>2 DEF QueueOK
  <2>3. QED
    BY <2>1, <2>2
<1>8. QED
  BY <1>3, <1>6, <1>7 DEF QueueOK

\* How a release moves the waiters on, seen from one gate.
MovesOn(s, m) ==
  \/ /\ waiters'[s] = <<>>
     /\ \A n \in Messages \ {m} : stage'[n][s] = stage[n][s]
  \/ \E h \in Messages \ {m} :
       /\ stage[h][s] = "waiting" /\ stage'[h][s] = "granted" /\ waiters[s] # <<>>
       /\ \A n \in Messages \ {m, h} : stage'[n][s] = stage[n][s]

\* A delivery ends: the queue moves on by one, and so does the first waiter.
LEMMA ReleaseGate ==
  ASSUME Shapes, NEW s \in Subs, NEW m \in Messages, NEW end \in Ended, QueueOK(s),
         stage[m][s] \in {"handler", "granted"}, Release(s, m, end)
  PROVE  /\ waiters' \in [Subs -> Seq(Messages)]
         /\ stage' \in [Messages -> [Subs -> Stage]]
         /\ QueueOK(s)' /\ stage'[m][s] = end
         /\ \A k \in Subs \ {s} : /\ waiters'[k] = waiters[k]
                                  /\ \A n \in Messages : stage'[n][k] = stage[n][k]
         /\ MovesOn(s, m)
<1>1. CASE waiters[s] = <<>> /\ stage' = [stage EXCEPT ![m][s] = end] /\ UNCHANGED waiters
  <2>1. /\ \A n \in Messages, k \in Subs : stage'[n][k] = IF n = m /\ k = s THEN end ELSE stage[n][k]
        /\ stage' \in [Messages -> [Subs -> Stage]]
    BY <1>1 DEF Shapes, Stage
  <2>2. QED
    BY <1>1, <2>1 DEF Shapes, QueueOK, Ended, MovesOn
<1>2. CASE /\ waiters[s] # <<>>
           /\ stage' = [stage EXCEPT ![m][s] = end, ![Head(waiters[s])][s] = "granted"]
           /\ waiters' = [waiters EXCEPT ![s] = Tail(@)]
  <2> DEFINE q == waiters[s]
             h == Head(waiters[s])
  <2>1. /\ q \in Seq(Messages) /\ q # <<>> /\ Len(q) \in Nat /\ Len(q) > 0
        /\ h \in Messages /\ h = q[1] /\ 1 \in DOMAIN q /\ DOMAIN q = 1..Len(q)
    BY <1>2 DEF Shapes
  <2>2. stage[h][s] = "waiting" /\ h # m
    BY <2>1 DEF QueueOK
  <2>3. /\ waiters' \in [Subs -> Seq(Messages)] /\ waiters'[s] = Tail(q)
        /\ \A k \in Subs \ {s} : waiters'[k] = waiters[k]
    BY <1>2, <2>1 DEF Shapes
  <2>4. /\ \A n \in Messages, k \in Subs :
             stage'[n][k] = IF k # s THEN stage[n][k] ELSE IF n = h THEN "granted"
                            ELSE IF n = m THEN end ELSE stage[n][k]
        /\ stage' \in [Messages -> [Subs -> Stage]]
    BY <1>2, <2>1, <2>2 DEF Shapes, Stage
  <2>5. /\ DOMAIN Tail(q) = 1..(Len(q) - 1)
        /\ \A i \in 1..(Len(q) - 1) : Tail(q)[i] = q[i + 1]
    BY <2>1
  <2>6. QueueOK(s)'
    <3>0. \A i \in DOMAIN Tail(q) : i \in Nat \ {0} /\ i + 1 \in DOMAIN q /\ Tail(q)[i] = q[i + 1]
      BY <2>1, <2>5
    <3>1. ASSUME NEW i \in DOMAIN Tail(q), NEW j \in DOMAIN Tail(q), Tail(q)[i] = Tail(q)[j]
          PROVE  i = j
      <4>1. i + 1 = j + 1
        BY <3>0, <3>1 DEF QueueOK
      <4>2. QED
        BY <3>0, <4>1
    <3>2. ASSUME NEW n \in Messages
          PROVE  stage'[n][s] = "waiting" <=> \E i \in DOMAIN Tail(q) : Tail(q)[i] = n
      <4>1. CASE n = h
        <5>1. ASSUME NEW i \in DOMAIN Tail(q), Tail(q)[i] = q[1] PROVE FALSE
          <6>1. i + 1 = 1
            BY <2>1, <3>0, <5>1 DEF QueueOK
          <6>2. QED
            BY <3>0, <6>1
        <5>2. QED
          BY <2>1, <2>4, <4>1, <5>1
      <4>2. CASE n # h
        <5>1. (\E i \in DOMAIN q : q[i] = n) <=> \E i \in DOMAIN Tail(q) : Tail(q)[i] = n
          <6>1. ASSUME NEW i \in DOMAIN q, q[i] = n PROVE \E j \in DOMAIN Tail(q) : Tail(q)[j] = n
            <7>0. i \in 1..Len(q) /\ i # 1
              BY <2>1, <4>2, <6>1
            <7>1. i - 1 \in 1..(Len(q) - 1) /\ (i - 1) + 1 = i
              BY <2>1, <7>0
            <7>2. QED
              BY <2>5, <6>1, <7>1
          <6>2. ASSUME NEW i \in DOMAIN Tail(q), Tail(q)[i] = n PROVE \E j \in DOMAIN q : q[j] = n
            BY <3>0, <6>2
          <6>3. QED
            BY <6>1, <6>2
        <5>2. stage'[n][s] = "waiting" <=> stage[n][s] = "waiting"
          BY <2>4, <4>2 DEF Ended
        <5>3. QED
          BY <5>1, <5>2 DEF QueueOK
      <4>3. QED
        BY <4>1, <4>2
    <3>3. QED
      BY <2>3, <3>1, <3>2 DEF QueueOK
  <2>7. QED
    BY <1>2, <2>1, <2>2, <2>3, <2>4, <2>6 DEF MovesOn
<1>3. QED
  BY <1>1, <1>2 DEF Release

\* The slot of a delivery that ended is idle, or promised to the waiter it woke.
LEMMA LeaveGate ==
  ASSUME NEW s, NEW m \in Messages, CountsOK(s), stage[m][s] = "handler", stage'[m][s] \in Ended,
         running'[s] = running[s] - 1, MovesOn(s, m)
  PROVE  CountsOK(s)'
<1>1. /\ Handlers(s)' = Handlers(s) \ {m} /\ m \in Handlers(s)
  BY DEF MovesOn, Handlers, Ended
<1>2. Cardinality(Handlers(s)') = Cardinality(Handlers(s)) - 1
  BY <1>1, Counting DEF Handlers
<1>3. Cardinality(Handlers(s)) \in Nat /\ Cardinality(Granted(s)) \in Nat /\ Limit \in Nat
  BY Counting, BusAssumption DEF Handlers, Granted
<1>4. CASE waiters'[s] = <<>>
  BY <1>1, <1>2, <1>3, <1>4 DEF CountsOK
<1>5. ASSUME NEW h \in Messages \ {m}, stage[h][s] = "waiting", stage'[h][s] = "granted",
             waiters[s] # <<>>, \A n \in Messages \ {m, h} : stage'[n][s] = stage[n][s]
      PROVE  CountsOK(s)'
  <2>1. Granted(s)' = Granted(s) \cup {h} /\ h \notin Granted(s)
    BY <1>5 DEF Granted, Ended
  <2>2. Cardinality(Granted(s)') = Cardinality(Granted(s)) + 1
    BY <2>1, Counting DEF Granted
  <2>3. QED
    BY <1>1, <1>2, <1>3, <1>5, <2>2 DEF CountsOK
<1>6. QED
  BY <1>4, <1>5 DEF MovesOn

\* The slot promised to a delivery that finds its subscription closed goes to the
\* next waiter.
LEMMA TurnAway ==
  ASSUME NEW s, NEW m \in Messages, CountsOK(s), stage[m][s] = "granted", stage'[m][s] \in Ended,
         running'[s] = running[s], MovesOn(s, m)
  PROVE  CountsOK(s)'
<1>1. Handlers(s)' = Handlers(s)
  BY DEF MovesOn, Handlers, Ended
<1>2. CASE waiters'[s] = <<>>
  BY <1>1, <1>2 DEF CountsOK
<1>3. ASSUME NEW h \in Messages \ {m}, stage[h][s] = "waiting", stage'[h][s] = "granted",
             waiters[s] # <<>>, \A n \in Messages \ {m, h} : stage'[n][s] = stage[n][s]
      PROVE  CountsOK(s)'
  <2>1. /\ Granted(s)' = (Granted(s) \ {m}) \cup {h}
        /\ m \in Granted(s) /\ h \notin Granted(s) /\ Granted(s) \subseteq Messages
    BY <1>3 DEF Granted, Ended
  <2>2. Cardinality(Granted(s) \ {m}) = Cardinality(Granted(s)) - 1
    BY <2>1, Counting
  <2>3. Cardinality(Granted(s)') = Cardinality(Granted(s) \ {m}) + 1
    <3>1. Granted(s) \ {m} \subseteq Messages /\ h \in Messages \ (Granted(s) \ {m})
      BY <2>1
    <3>2. QED
      BY <2>1, <3>1, Counting
  <2>4. Cardinality(Granted(s)) \in Nat
    BY <2>1, Counting
  <2>5. Cardinality(Granted(s)') = Cardinality(Granted(s))
    BY <2>2, <2>3, <2>4
  <2>6. QED
    BY <1>1, <1>3, <2>5 DEF CountsOK
<1>4. QED
  BY <1>2, <1>3 DEF MovesOn

\* A woken delivery takes the slot it was promised.
LEMMA TakeSlot ==
  ASSUME NEW s, NEW m \in Messages, QueueOK(s), CountsOK(s), stage[m][s] = "granted",
         stage'[m][s] = "handler", running'[s] = running[s] + 1, waiters'[s] = waiters[s],
         \A n \in Messages \ {m} : stage'[n][s] = stage[n][s]
  PROVE  QueueOK(s)' /\ CountsOK(s)'
<1>1. /\ Handlers(s)' = Handlers(s) \cup {m} /\ m \notin Handlers(s) /\ Handlers(s) \subseteq Messages
      /\ Granted(s)' = Granted(s) \ {m} /\ m \in Granted(s) /\ Granted(s) \subseteq Messages
  BY DEF Handlers, Granted
<1>2. Cardinality(Handlers(s)') = Cardinality(Handlers(s)) + 1
  BY <1>1, Counting
<1>3. Cardinality(Granted(s)') = Cardinality(Granted(s)) - 1
  BY <1>1, Counting
<1>4. Cardinality(Handlers(s)) \in Nat /\ Cardinality(Granted(s)) \in Nat /\ Limit \in Nat
  BY <1>1, Counting, BusAssumption
<1>5. CountsOK(s)'
  BY <1>2, <1>3, <1>4 DEF CountsOK
<1>6. \A n \in Messages : stage'[n][s] = "waiting" <=> stage[n][s] = "waiting"
  OBVIOUS
<1>7. QED
  BY <1>5, <1>6 DEF QueueOK

--------------------------------------------------------------------------------
(* The steps. *)

LEMMA InitGates == Init => GateInv
<1> SUFFICES ASSUME Init PROVE GateInv
  OBVIOUS
<1>0. waiters \in [Subs -> Seq(Messages)] /\ stage \in [Messages -> [Subs -> Stage]]
  <2>1. <<>> \in Seq(Messages) /\ "none" \in Stage
    BY DEF Stage
  <2>2. QED
    BY <2>1 DEF Init
<1>1. Shapes /\ Flags /\ Unstarted
  BY <1>0 DEF Init, Shapes, Flags, Unstarted
<1>2. ASSUME NEW s \in Subs PROVE QueueOK(s) /\ CountsOK(s)
  <2>1. Handlers(s) = {} /\ running[s] = 0 /\ waiters[s] = <<>>
    BY DEF Init, Handlers
  <2>2. QueueOK(s)
    BY <2>1 DEF Init, QueueOK
  <2>3. Cardinality({}) = 0
    BY FS_EmptySet
  <2>4. QED
    BY <2>1, <2>2, <2>3 DEF CountsOK
<1>3. QED
  BY <1>1, <1>2 DEF GateInv

\* Steps that leave the gates alone.
LEMMA OffTheGates ==
  ASSUME GateInv, UNCHANGED <<gateVars, publisher>>, Flags'
  PROVE  GateInv'
<1>1. Shapes' /\ Unstarted'
  BY DEF GateInv, gateVars, Shapes, Unstarted
<1>2. ASSUME NEW s \in Subs PROVE QueueOK(s)' /\ CountsOK(s)'
  BY SameGate DEF GateInv, gateVars
<1>3. QED
  BY <1>1, <1>2 DEF GateInv

\* A step of one delivery at one gate.
LEMMA AtOneGate ==
  ASSUME GateInv, NEW s \in Subs, NEW m \in Messages, UNCHANGED publisher, Flags',
         stage[m][s] # "none", running' \in [Subs -> Nat], waiters' \in [Subs -> Seq(Messages)],
         stage' \in [Messages -> [Subs -> Stage]], QueueOK(s)', CountsOK(s)',
         \A n \in Messages : stage[n][s] = "none" => stage'[n][s] = "none",
         \A k \in Subs \ {s} : /\ running'[k] = running[k] /\ waiters'[k] = waiters[k]
                               /\ \A n \in Messages : stage'[n][k] = stage[n][k]
  PROVE  GateInv'
<1>1. Shapes'
  BY DEF GateInv, Shapes
<1>2. Unstarted'
  BY DEF GateInv, Unstarted
<1>3. ASSUME NEW k \in Subs \ {s} PROVE QueueOK(k)' /\ CountsOK(k)'
  BY SameGate DEF GateInv
<1>4. QED
  BY <1>1, <1>2, <1>3 DEF GateInv

LEMMA GateStep ==
  ASSUME GateInv, [Next]_vars
  PROVE  GateInv'
<1> USE DEF busVars, gateVars
<1>0. Shapes /\ Flags /\ Unstarted /\ \A s \in Subs : QueueOK(s) /\ CountsOK(s)
  BY DEF GateInv
<1>1. ASSUME NEW m \in Messages, Publish(m) PROVE GateInv'
  <2>1. publisher[m] = "new" /\ \A s \in Subs : stage[m][s] = "none"
    BY <1>0, <1>1 DEF Publish, Unstarted
  <2>2. PICK targets \in Targets :
          /\ stage' = [stage EXCEPT ![m] =
                         [s \in Subs |-> IF s \notin targets THEN "none"
                                         ELSE IF running[s] < Limit THEN "handler" ELSE "waiting"]]
          /\ running' = [s \in Subs |-> IF s \in targets /\ running[s] < Limit
                                          THEN running[s] + 1 ELSE running[s]]
          /\ waiters' = [s \in Subs |-> IF s \in targets /\ ~(running[s] < Limit)
                                          THEN Append(waiters[s], m) ELSE waiters[s]]
    BY <1>1 DEF Publish
  <2>3. /\ stage' \in [Messages -> [Subs -> Stage]]
        /\ \A n \in Messages \ {m} : stage'[n] = stage[n]
        /\ \A s \in Subs : stage'[m][s] = IF s \notin targets THEN "none"
                                          ELSE IF running[s] < Limit THEN "handler" ELSE "waiting"
    BY <1>0, <2>2 DEF Shapes, Stage
  <2>4. running' \in [Subs -> Nat] /\ waiters' \in [Subs -> Seq(Messages)]
    BY <1>0, <2>2 DEF Shapes
  <2>5. /\ publisher' \in [Messages -> {"new", "pending", "returned", "threw"}]
        /\ publisher'[m] = "pending" /\ \A n \in Messages \ {m} : publisher'[n] = publisher[n]
    BY <1>0, <1>1 DEF Publish, Shapes
  <2>6. ASSUME NEW s \in Subs PROVE QueueOK(s)' /\ CountsOK(s)'
    <3>1. waiters[s] \in Seq(Messages) /\ running[s] \in Nat /\ Limit \in Nat
      BY <1>0, BusAssumption DEF Shapes
    <3>2. CASE s \notin targets
      BY <1>0, <2>1, <2>2, <2>3, <3>2, SameGate
    <3>3. CASE s \in targets /\ running[s] < Limit
      <4>1. stage'[m][s] = "handler" /\ running'[s] = running[s] + 1 /\ waiters'[s] = waiters[s]
        BY <2>2, <2>3, <3>3
      <4>2. QED
        BY <1>0, <2>1, <2>3, <4>1, EnterGate
    <3>4. CASE s \in targets /\ ~(running[s] < Limit)
      <4>1. stage'[m][s] = "waiting" /\ running'[s] = running[s] /\ waiters'[s] = Append(waiters[s], m)
        BY <2>2, <2>3, <3>4
      <4>2. running[s] >= Limit
        BY <3>1, <3>4
      <4>3. QED
        BY <1>0, <2>1, <2>3, <3>1, <4>1, <4>2, QueueUp
    <3>5. QED
      BY <3>2, <3>3, <3>4
  <2>7. Flags'
    BY <1>0, <1>1 DEF Publish, Flags
  <2>8. Unstarted'
    BY <1>0, <2>3, <2>5 DEF Unstarted
  <2>9. QED
    BY <2>3, <2>4, <2>5, <2>6, <2>7, <2>8 DEF GateInv, Shapes
<1>2. ASSUME NEW m \in Messages, PublishReturns(m) PROVE GateInv'
  <2>1. /\ \A s \in Subs : stage[m][s] \in Ended \cup {"none"} /\ stage'[m][s] = "none"
        /\ \A n \in Messages \ {m} : stage'[n] = stage[n]
        /\ stage' \in [Messages -> [Subs -> Stage]]
    BY <1>0, <1>2 DEF PublishReturns, Shapes, Stage
  <2>2. /\ publisher' \in [Messages -> {"new", "pending", "returned", "threw"}]
        /\ publisher'[m] # "new" /\ \A n \in Messages \ {m} : publisher'[n] = publisher[n]
    BY <1>0, <1>2 DEF PublishReturns, Shapes
  <2>3. \A s \in Subs : running'[s] = running[s] /\ waiters'[s] = waiters[s]
    BY <1>2 DEF PublishReturns
  <2>4. ASSUME NEW s \in Subs PROVE QueueOK(s)' /\ CountsOK(s)'
    <3>1. \A n \in Messages : \/ stage'[n][s] = stage[n][s]
                              \/ {stage'[n][s], stage[n][s]} \subseteq Ended \cup {"none"}
      BY <2>1
    <3>2. QED
      BY <1>0, <2>3, <3>1, SameGate
  <2>5. Flags' /\ Unstarted'
    BY <1>0, <1>2, <2>1, <2>2 DEF PublishReturns, Flags, Unstarted
  <2>6. QED
    BY <1>0, <1>2, <2>1, <2>2, <2>4, <2>5 DEF PublishReturns, GateInv, Shapes
<1>3. ASSUME NEW m \in Messages, NEW s \in Subs, NEW end \in Ended, Release(s, m, end),
             stage[m][s] = "handler", running' = [running EXCEPT ![s] = @ - 1],
             UNCHANGED publisher, Flags'
      PROVE  GateInv'
  <2>1. /\ waiters' \in [Subs -> Seq(Messages)] /\ stage' \in [Messages -> [Subs -> Stage]]
        /\ QueueOK(s)' /\ stage'[m][s] = end /\ MovesOn(s, m)
        /\ \A k \in Subs \ {s} : /\ waiters'[k] = waiters[k]
                                 /\ \A n \in Messages : stage'[n][k] = stage[n][k]
    BY <1>0, <1>3, ReleaseGate
  <2>2. running[s] \in Nat /\ running[s] > 0
    <3>1. Handlers(s) \subseteq Messages /\ m \in Handlers(s)
      BY <1>3 DEF Handlers
    <3>2. Cardinality(Handlers(s)) - 1 = Cardinality(Handlers(s) \ {m})
      BY <3>1, Counting
    <3>3. Cardinality(Handlers(s) \ {m}) \in Nat /\ Cardinality(Handlers(s)) \in Nat
      BY <3>1, Counting
    <3>4. QED
      BY <1>0, <3>2, <3>3 DEF CountsOK
  <2>3. /\ running' \in [Subs -> Nat] /\ running'[s] = running[s] - 1
        /\ \A k \in Subs \ {s} : running'[k] = running[k]
    BY <1>0, <1>3, <2>2 DEF Shapes
  <2>4. CountsOK(s)'
    BY <1>0, <1>3, <2>1, <2>3, LeaveGate
  <2>5. \A n \in Messages : stage[n][s] = "none" => stage'[n][s] = "none"
    BY <1>3, <2>1 DEF MovesOn
  <2>6. QED
    BY <1>3, <2>1, <2>3, <2>4, <2>5, AtOneGate
<1>4. ASSUME NEW m \in Messages, NEW s \in Subs, HandlerReturns(m, s) PROVE GateInv'
  <2>1. Flags' /\ "done" \in Ended
    BY <1>0, <1>4 DEF HandlerReturns, Flags, Ended
  <2>2. QED
    BY <1>3, <1>4, <2>1 DEF HandlerReturns
<1>5. ASSUME NEW m \in Messages, NEW s \in Subs, HandlerThrows(m, s) PROVE GateInv'
  <2>1. Flags' /\ "failed" \in Ended
    BY <1>0, <1>5 DEF HandlerThrows, Flags, Ended
  <2>2. QED
    BY <1>3, <1>5, <2>1 DEF HandlerThrows
<1>6. ASSUME NEW m \in Messages, NEW s \in Subs, Resume(m, s) PROVE GateInv'
  <2>1. Flags' /\ "done" \in Ended /\ UNCHANGED publisher /\ stage[m][s] = "granted"
    BY <1>0, <1>6 DEF Resume, Flags, Ended
  <2>2. CASE Release(s, m, "done") /\ UNCHANGED running
    <3>1. /\ waiters' \in [Subs -> Seq(Messages)] /\ stage' \in [Messages -> [Subs -> Stage]]
          /\ QueueOK(s)' /\ stage'[m][s] = "done" /\ MovesOn(s, m)
          /\ \A k \in Subs \ {s} : /\ waiters'[k] = waiters[k]
                                   /\ \A n \in Messages : stage'[n][k] = stage[n][k]
      BY <1>0, <2>1, <2>2, ReleaseGate
    <3>2. CountsOK(s)'
      BY <1>0, <2>1, <2>2, <3>1, TurnAway
    <3>3. \A n \in Messages : stage[n][s] = "none" => stage'[n][s] = "none"
      BY <2>1, <3>1 DEF MovesOn
    <3>4. running' \in [Subs -> Nat]
      BY <1>0, <2>2 DEF Shapes
    <3>5. QED
      BY <2>1, <2>2, <3>1, <3>2, <3>3, <3>4, AtOneGate
  <2>3. CASE /\ stage' = [stage EXCEPT ![m][s] = "handler"]
             /\ running' = [running EXCEPT ![s] = @ + 1] /\ UNCHANGED waiters
    <3>1. /\ stage' \in [Messages -> [Subs -> Stage]] /\ running' \in [Subs -> Nat]
          /\ waiters' \in [Subs -> Seq(Messages)]
          /\ \A n \in Messages, k \in Subs :
               stage'[n][k] = IF n = m /\ k = s THEN "handler" ELSE stage[n][k]
          /\ running'[s] = running[s] + 1 /\ \A k \in Subs \ {s} : running'[k] = running[k]
      BY <1>0, <2>3 DEF Shapes, Stage
    <3>2. QueueOK(s)' /\ CountsOK(s)'
      BY <1>0, <2>1, <2>3, <3>1, TakeSlot
    <3>3. QED
      BY <2>1, <2>3, <3>1, <3>2, AtOneGate
  <2>4. QED
    BY <1>6, <2>2, <2>3 DEF Resume
<1>7. ASSUME NEW s \in Subs, Drained(s) \/ Subscribe(s) \/ Unsubscribe(s) \/ CloseNext(s) PROVE GateInv'
  <2>1. Flags' /\ UNCHANGED <<gateVars, publisher>>
    BY <1>0, <1>7 DEF Drained, Subscribe, Unsubscribe, CloseNext, Flags
  <2>2. QED
    BY <2>1, OffTheGates
<1>8. CASE CloseStart \/ CloseDrained \/ CloseWait \/ CloseTimesOut \/ Connect
  <2>0. UNCHANGED <<gateVars, publisher>>
    BY <1>8 DEF CloseStart, CloseDrained, CloseWait, CloseTimesOut, Connect
  <2>1. Flags'
    <3>1. CASE CloseStart
      <4>1. toClose' \subseteq Subs /\ closes' \in Nat
        BY <1>0, <3>1 DEF CloseStart, Flags
      <4>2. /\ closing' = TRUE /\ connected' = FALSE /\ spoiled' = FALSE /\ closer' = "subs"
            /\ UNCHANGED <<current, awaited, sub, faults>>
        BY <3>1 DEF CloseStart
      <4>3. QED
        BY <1>0, <4>1, <4>2 DEF Flags
    <3>2. CASE CloseDrained
      BY <1>0, <3>2 DEF CloseDrained, Flags
    <3>3. CASE CloseWait \/ CloseTimesOut \/ Connect
      BY <1>0, <3>3 DEF CloseWait, CloseTimesOut, Connect, Flags, Active
    <3>4. QED
      BY <1>8, <3>1, <3>2, <3>3
  <2>2. QED
    BY <2>0, <2>1, OffTheGates
<1>9. CASE CloseEnds
  <2>1. sub' \in [Subs -> {"new", "open", "draining", "closed", "orphaned"}]
    BY <1>0, <1>9 DEF CloseEnds, Flags
  <2>2. Flags' /\ UNCHANGED <<gateVars, publisher>>
    BY <1>0, <1>9, <2>1 DEF CloseEnds, Flags
  <2>3. QED
    BY <2>2, OffTheGates
<1>10. CASE UNCHANGED vars
  BY <1>0, <1>10, OffTheGates DEF vars, Flags
<1>11. QED
  BY <1>1, <1>2, <1>4, <1>5, <1>6, <1>7, <1>8, <1>9, <1>10 DEF Next, Progress

\* The gates of _ConcurrencyGate keep their books for any number of deliveries, for
\* every limit and whatever fails or is closed meanwhile: a queue holds just the
\* deliveries that wait, the counter is the number of handlers that run, and no
\* slot is idle while somebody waits.
THEOREM GatesKeepAccount == Spec => []GatesAccounted
<1>1. GateInv => GatesAccounted
  BY GateInvMeans
<1>2. QED
  BY <1>1, InitGates, GateStep, PTL DEF Spec

--------------------------------------------------------------------------------
(* What close() promises. *)

\* While close() waits, the deliveries under way are those it found: none starts
\* before the bus is connected anew.
AllAwaited == closer = "wait" /\ ~connected => Active \subseteq awaited

LEMMA AwaitedStep ==
  ASSUME GateInv, AllAwaited, [Next]_vars
  PROVE  AllAwaited'
<1> USE DEF busVars, gateVars
<1>0. Shapes /\ \A s \in Subs : QueueOK(s)
  BY DEF GateInv
<1>1. ASSUME NEW m \in Messages, Publish(m) PROVE AllAwaited'
  BY <1>1 DEF Publish, Usable, AllAwaited
<1>2. ASSUME NEW m \in Messages, PublishReturns(m) PROVE AllAwaited'
  <2>1. \A n \in Messages, s \in Subs : stage'[n][s] = IF n = m THEN "none" ELSE stage[n][s]
    BY <1>0, <1>2 DEF PublishReturns, Shapes
  <2>2. Active' \subseteq Active
    BY <2>1 DEF Active
  <2>3. QED
    BY <1>2, <2>2 DEF PublishReturns, AllAwaited
<1>3. ASSUME NEW m \in Messages, NEW s \in Subs, NEW end \in Ended, Release(s, m, end),
             stage[m][s] \in {"handler", "granted"}, UNCHANGED busVars
      PROVE  AllAwaited'
  <2>1. /\ stage'[m][s] = end /\ MovesOn(s, m)
        /\ \A k \in Subs \ {s}, n \in Messages : stage'[n][k] = stage[n][k]
    BY <1>0, <1>3, ReleaseGate
  <2>2. Active' \subseteq Active
    BY <1>3, <2>1 DEF Active, MovesOn, Ended
  <2>3. QED
    BY <1>3, <2>2 DEF AllAwaited
<1>4. ASSUME NEW m \in Messages, NEW s \in Subs,
             HandlerReturns(m, s) \/ HandlerThrows(m, s) \/ Resume(m, s)
      PROVE  AllAwaited'
  <2>1. {"done", "failed"} \subseteq Ended
    BY DEF Ended
  <2>2. CASE HandlerReturns(m, s) \/ HandlerThrows(m, s)
    BY <1>3, <2>1, <2>2 DEF HandlerReturns, HandlerThrows
  <2>3. CASE Resume(m, s) /\ Closed(s)
    BY <1>3, <2>1, <2>3 DEF Resume
  <2>4. CASE Resume(m, s) /\ ~Closed(s)
    <3>1. /\ stage' = [stage EXCEPT ![m][s] = "handler"] /\ UNCHANGED busVars
          /\ stage[m][s] = "granted"
      BY <2>4 DEF Resume
    <3>2. Active' \subseteq Active
      BY <1>0, <3>1 DEF Active, Shapes
    <3>3. QED
      BY <3>1, <3>2 DEF AllAwaited
  <2>5. QED
    BY <1>4, <2>2, <2>3, <2>4
<1>5. ASSUME NEW s \in Subs, Drained(s) \/ Subscribe(s) \/ Unsubscribe(s) \/ CloseNext(s)
      PROVE  AllAwaited'
  BY <1>5 DEF Drained, Subscribe, Unsubscribe, CloseNext, AllAwaited, Active
<1>6. CASE CloseStart \/ CloseDrained \/ CloseWait \/ CloseEnds \/ CloseTimesOut \/ Connect
  BY <1>6 DEF CloseStart, CloseDrained, CloseWait, CloseEnds, CloseTimesOut, Connect,
     AllAwaited, Active
<1>7. CASE UNCHANGED vars
  BY <1>7 DEF vars, AllAwaited, Active
<1>8. QED
  BY <1>1, <1>2, <1>4, <1>5, <1>6, <1>7 DEF Next, Progress

\* What is closed gets no new delivery: the deliveries of this step that start or
\* move on are of open subscriptions, or were under way.
LEMMA QuietStep ==
  ASSUME GateInv, AllAwaited, ClosedIsQuiet, [Next]_vars
  PROVE  ClosedIsQuiet'
<1> USE DEF busVars, gateVars
<1>0. Shapes /\ Flags /\ Unstarted /\ (\A s \in Subs : QueueOK(s))
  BY DEF GateInv
<1>1. ASSUME NEW m \in Messages, Publish(m) PROVE ClosedIsQuiet'
  <2>1. PICK targets \in Targets :
          stage' = [stage EXCEPT ![m] =
                      [s \in Subs |-> IF s \notin targets THEN "none"
                                      ELSE IF running[s] < Limit THEN "handler" ELSE "waiting"]]
    BY <1>1 DEF Publish
  <2>2. \A s \in targets : s \in Subs /\ sub[s] = "open"
    BY DEF Targets
  <2>3. ASSUME NEW s \in Subs, sub[s] = "closed", NEW n \in Messages PROVE stage'[n][s] # "handler"
    BY <1>0, <2>1, <2>2, <2>3 DEF ClosedIsQuiet, ClosedSubscriptionIsQuiet, Handlers, Shapes
  <2>4. QED
    BY <1>1, <2>3 DEF Publish, Usable, ClosedIsQuiet, ClosedSubscriptionIsQuiet, ClosedBusIsQuiet, Handlers
<1>2. ASSUME NEW m \in Messages, PublishReturns(m) PROVE ClosedIsQuiet'
  <2>1. \A n \in Messages, s \in Subs : stage'[n][s] = IF n = m THEN "none" ELSE stage[n][s]
    BY <1>0, <1>2 DEF PublishReturns, Shapes
  <2>2. QED
    BY <1>2, <2>1 DEF PublishReturns, ClosedIsQuiet, ClosedSubscriptionIsQuiet, ClosedBusIsQuiet,
       Handlers, Active
<1>3. ASSUME NEW m \in Messages, NEW s \in Subs, NEW end \in Ended, Release(s, m, end),
             stage[m][s] \in {"handler", "granted"}, UNCHANGED <<busVars, sub>>
      PROVE  ClosedIsQuiet'
  <2>1. /\ stage'[m][s] = end /\ MovesOn(s, m)
        /\ \A k \in Subs \ {s}, n \in Messages : stage'[n][k] = stage[n][k]
    BY <1>0, <1>3, ReleaseGate
  <2>2. \A k \in Subs : Handlers(k)' \subseteq Handlers(k)
    BY <2>1 DEF Handlers, MovesOn, Ended
  <2>3. <<m, s>> \in Active
    BY <1>3 DEF Active
  <2>4. QED
    BY <1>3, <2>2, <2>3 DEF ClosedIsQuiet, ClosedSubscriptionIsQuiet, ClosedBusIsQuiet
<1>4. ASSUME NEW m \in Messages, NEW s \in Subs,
             HandlerReturns(m, s) \/ HandlerThrows(m, s) \/ Resume(m, s)
      PROVE  ClosedIsQuiet'
  <2>1. {"done", "failed"} \subseteq Ended
    BY DEF Ended
  <2>2. CASE HandlerReturns(m, s) \/ HandlerThrows(m, s)
    BY <1>3, <2>1, <2>2 DEF HandlerReturns, HandlerThrows
  <2>3. CASE Resume(m, s) /\ Closed(s)
    BY <1>3, <2>1, <2>3 DEF Resume
  <2>4. CASE Resume(m, s) /\ ~Closed(s)
    <3>1. /\ \A n \in Messages, k \in Subs \ {s} : stage'[n][k] = stage[n][k]
          /\ sub[s] # "closed" /\ sub' = sub /\ UNCHANGED busVars
      <4>1. stage' = [stage EXCEPT ![m][s] = "handler"] /\ UNCHANGED <<busVars, sub>>
        BY <2>4 DEF Resume
      <4>2. QED
        BY <1>0, <2>4, <4>1 DEF Closed, Shapes
    <3>2. <<m, s>> \in Active
      BY <2>4 DEF Resume, Active
    <3>3. QED
      BY <3>1, <3>2 DEF ClosedIsQuiet, ClosedSubscriptionIsQuiet, ClosedBusIsQuiet, Handlers
  <2>5. QED
    BY <1>4, <2>2, <2>3, <2>4
<1>5. ASSUME NEW s \in Subs, Drained(s) \/ Subscribe(s) \/ Unsubscribe(s) \/ CloseNext(s)
      PROVE  ClosedIsQuiet'
  <2>1. \A k \in Subs : sub'[k] = "closed" => sub[k] = "closed" \/ Handlers(k) = {}
    BY <1>0, <1>5 DEF Drained, Subscribe, Unsubscribe, CloseNext, Flags
  <2>2. UNCHANGED <<stage, connected, closer>>
    BY <1>5 DEF Drained, Subscribe, Unsubscribe, CloseNext
  <2>3. QED
    BY <2>1, <2>2 DEF ClosedIsQuiet, ClosedSubscriptionIsQuiet, ClosedBusIsQuiet, Handlers, Active
<1>6. CASE CloseStart \/ CloseDrained \/ CloseWait \/ CloseTimesOut \/ Connect
  BY <1>6 DEF CloseStart, CloseDrained, CloseWait, CloseTimesOut, Connect, ClosedIsQuiet,
     ClosedSubscriptionIsQuiet, ClosedBusIsQuiet, Handlers, Active
<1>7. CASE CloseEnds
  <2>1. \A k \in Subs : sub'[k] = "closed" => sub[k] = "closed"
    BY <1>0, <1>7 DEF CloseEnds, Flags
  <2>2. /\ stage' = stage /\ connected' = connected /\ closer = "wait"
        /\ awaited \cap Active = {}
    BY <1>7 DEF CloseEnds
  <2>3. ~connected => Active = {}
    BY <2>2 DEF AllAwaited
  <2>4. QED
    BY <2>1, <2>2, <2>3 DEF ClosedIsQuiet, ClosedSubscriptionIsQuiet, ClosedBusIsQuiet, Handlers, Active
<1>8. CASE UNCHANGED vars
  BY <1>8 DEF vars, ClosedIsQuiet, ClosedSubscriptionIsQuiet, ClosedBusIsQuiet, Handlers, Active
<1>9. QED
  BY <1>1, <1>2, <1>4, <1>5, <1>6, <1>7, <1>8 DEF Next, Progress

\* When Subscription.close has returned, no handler of the subscription runs any
\* more or again, although deliveries may wait at its gate; when MessageBus.close
\* has, no delivery is under way until the bus is connected anew.
THEOREM CloseIsQuiet == Spec => []ClosedIsQuiet
<1>1. Init => ClosedIsQuiet
  BY DEF Init, ClosedIsQuiet, ClosedSubscriptionIsQuiet, ClosedBusIsQuiet
<1>2. Init => AllAwaited
  BY DEF Init, AllAwaited
<1>3. QED
  BY <1>1, <1>2, InitGates, GateStep, AwaitedStep, QuietStep, PTL DEF Spec

================================================================================
