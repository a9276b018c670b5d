------------------------------ MODULE RabbitMqProofs ------------------------------
(***************************************************************************)
(* Theorems about RabbitMqJobs for any jobs, workers, concurrency,         *)
(* prefetch limit and policy, and any number of faults.                    *)
(***************************************************************************)
EXTENDS RabbitMqJobs, FiniteSetTheorems, TLAPS

(***************************************************************************)
(* The inductive invariant.                                                *)
(***************************************************************************)

\* What the broker has: no copy is in two places, and each is of an enqueued job.
BrokerInv ==
  /\ ready \subseteq Copy /\ delayed \subseteq Copy
  /\ IsFiniteSet(ready) /\ IsFiniteSet(delayed)
  /\ unacked \in [Workers -> SUBSET Copy]
  /\ \A w \in Workers : IsFiniteSet(unacked[w]) /\ Cardinality(unacked[w]) <= Prefetch
  /\ link \in [Workers -> BOOLEAN]
  /\ gone \subseteq enqueued /\ enqueued \subseteq Jobs
  /\ ready \cap delayed = {}
  /\ \A w \in Workers : unacked[w] \cap (ready \cup delayed) = {}
  /\ \A v, w \in Workers : v # w => unacked[v] \cap unacked[w] = {}
  /\ \A c \in ready \cup delayed : c.job \in enqueued
  /\ \A w \in Workers : \A c \in unacked[w] : c.job \in enqueued

\* What the workers have: a queue only behind busy tasks of an open worker, and
\* deliveries of enqueued jobs.
TaskInv ==
  /\ stage \in [Workers -> Stages]
  /\ pending \in [Workers -> Seq(Copy)]
  /\ unhealthy \in [Workers -> BOOLEAN]
  /\ pc \in [Tasks -> Pc]
  /\ hold \in [Tasks -> Copy \cup {NoCopy}]
  /\ completed \in [Tasks -> BOOLEAN]
  /\ \A t \in Tasks : hold[t] = NoCopy <=> pc[t] = "free"
  /\ \A w \in Workers : pending[w] # <<>> => \A t \in TasksOf(w) : pc[t] # "free"
  /\ \A w \in Workers : stage[w] # "open" => pending[w] = <<>>
  /\ \A t \in Tasks : pc[t] # "free" => hold[t].job \in enqueued
  /\ \A w \in Workers : \A i \in DOMAIN pending[w] : pending[w][i].job \in enqueued

TypeInv ==
  /\ BrokerInv
  /\ TaskInv
  /\ faults \in Nat /\ retries \in Nat /\ closes \in Nat

--------------------------------------------------------------------------------
(* Tasks and copies. *)

LEMMA TaskFacts ==
  /\ IsFiniteSet(Tasks)
  /\ \A t \in Tasks : t[1] \in Workers /\ t \in TasksOf(t[1])
  /\ \A w \in Workers : TasksOf(w) \subseteq Tasks /\ \A t \in TasksOf(w) : t[1] = w
<1>1. IsFiniteSet(1..Concurrency)
  BY RabbitMqAssumption, FS_Interval
<1>2. IsFiniteSet(Tasks)
  BY <1>1, RabbitMqAssumption, FS_Product DEF Tasks
<1>3. QED
  BY <1>2 DEF Tasks, TasksOf

LEMMA CopyFacts ==
  /\ NoCopy \notin Copy
  /\ \A c \in Copy : c.job \in Jobs /\ c.attempt \in Nat \ {0} /\ c.copy \in Nat \ {0}
BY RabbitMqAssumption DEF Copy

\* A finite set of numbered things leaves one of the first numbers unused.
LEMMA UnusedNumber ==
  ASSUME NEW K, IsFiniteSet(K)
  PROVE  \E n \in 1..(Cardinality(K) + 1) : \A d \in K : d.copy # n
<1> SUFFICES ASSUME \A n \in 1..(Cardinality(K) + 1) : \E d \in K : d.copy = n
             PROVE  FALSE
  OBVIOUS
<1> DEFINE N == 1..(Cardinality(K) + 1)
           bearer == [n \in N |-> CHOOSE d \in K : d.copy = n]
<1>1. Cardinality(K) \in Nat
  BY FS_CardinalityType
<1>2. IsFiniteSet(N) /\ Cardinality(N) = Cardinality(K) + 1
  BY <1>1, FS_Interval
<1>3. ASSUME NEW n \in N PROVE bearer[n] \in K /\ bearer[n].copy = n
  <2>1. bearer[n] = CHOOSE d \in K : d.copy = n
    OBVIOUS
  <2>2. \E d \in K : d.copy = n
    OBVIOUS
  <2>3. QED
    BY <2>1, <2>2
<1>4. bearer \in [N -> K]
  BY <1>3
<1> HIDE DEF N, bearer
<1>5. \E m, n \in N : m # n /\ bearer[m] = bearer[n]
  BY <1>1, <1>2, <1>4, FS_PigeonHole
<1>6. QED
  BY <1>3, <1>5

\* The copies of a job in the hands of workers are finitely many.
LEMMA KnownIsFinite ==
  ASSUME TypeInv, NEW j
  PROVE  IsFiniteSet(Known(j))
<1> DEFINE queued(w) == {pending[w][i] : i \in DOMAIN pending[w]}
           held(w) == {hold[t] : t \in TasksOf(w)}
           all == UNION {unacked[w] \cup InHand(w) : w \in Workers}
<1>1. ASSUME NEW w \in Workers PROVE IsFiniteSet(unacked[w] \cup InHand(w))
  <2>1. IsFiniteSet(queued(w))
    <3>1. pending[w] \in Seq(Copy)
      BY DEF TypeInv, TaskInv
    <3>2. PICK n \in Nat : DOMAIN pending[w] = 1..n
      BY <3>1
    <3>3. IsFiniteSet(1..n)
      BY FS_Interval
    <3>4. pending[w] \in Surjection(1..n, queued(w))
      BY <3>1, <3>2 DEF Surjection
    <3>5. QED
      BY <3>3, <3>4, FS_Surjection
  <2>2. IsFiniteSet(held(w))
    <3>1. IsFiniteSet(TasksOf(w))
      BY TaskFacts, FS_Subset
    <3>2. [t \in TasksOf(w) |-> hold[t]] \in Surjection(TasksOf(w), held(w))
      BY DEF Surjection
    <3>3. QED
      BY <3>1, <3>2, FS_Surjection
  <2>3. IsFiniteSet(unacked[w])
    BY DEF TypeInv, BrokerInv
  <2>4. InHand(w) = queued(w) \cup held(w)
    BY DEF InHand
  <2>5. QED
    BY <2>1, <2>2, <2>3, <2>4, FS_Union
<1>2. IsFiniteSet(all)
  <2> DEFINE f == [w \in Workers |-> unacked[w] \cup InHand(w)]
             parts == {unacked[w] \cup InHand(w) : w \in Workers}
  <2>1. f \in Surjection(Workers, parts)
    BY DEF Surjection
  <2>2. IsFiniteSet(parts)
    BY <2>1, RabbitMqAssumption, FS_Surjection
  <2>3. \A T \in parts : IsFiniteSet(T)
    BY <1>1
  <2> HIDE DEF parts
  <2>4. IsFiniteSet(UNION parts)
    BY <2>2, <2>3, FS_UNION
  <2>5. QED
    BY <2>4 DEF parts
<1>3. IsFiniteSet(ready) /\ IsFiniteSet(delayed)
  BY DEF TypeInv, BrokerInv
<1>4. IsFiniteSet((ready \cup delayed) \cup all)
  BY <1>2, <1>3, FS_Union
<1>5. Known(j) \subseteq (ready \cup delayed) \cup all
  BY DEF Known
<1> HIDE DEF all
<1>6. QED
  BY <1>4, <1>5, FS_Subset

LEMMA HeldIsKnown ==
  ASSUME NEW d, d # NoCopy,
         \/ d \in ready \cup delayed
         \/ \E w \in Workers : d \in unacked[w]
         \/ \E t \in Tasks : d = hold[t]
         \/ \E w \in Workers : \E i \in DOMAIN pending[w] : d = pending[w][i]
  PROVE  d \in Known(d.job)
<1>1. CASE \E t \in Tasks : d = hold[t]
  BY <1>1, TaskFacts DEF Known, InHand
<1>2. CASE \E w \in Workers : \E i \in DOMAIN pending[w] : d = pending[w][i]
  BY <1>2 DEF Known, InHand
<1>3. QED
  BY <1>1, <1>2 DEF Known

\* _rawHeadersWithAttempt makes a copy of the same job that nobody else has.
LEMMA NextCopyIsNew ==
  ASSUME TypeInv, NEW c \in Copy
  PROVE  /\ NextCopy(c) \in Copy
         /\ NextCopy(c).job = c.job
         /\ NextCopy(c).attempt = c.attempt + 1
         /\ NextCopy(c) \notin ready \cup delayed
         /\ \A w \in Workers : NextCopy(c) \notin unacked[w]
         /\ \A t \in Tasks : NextCopy(c) # hold[t]
         /\ \A w \in Workers : \A i \in DOMAIN pending[w] : NextCopy(c) # pending[w][i]
<1> DEFINE K == Known(c.job)
           n == CHOOSE n \in 1..(Cardinality(K) + 1) : \A d \in K : d.copy # n
<1>1. IsFiniteSet(K)
  BY KnownIsFinite
<1>2. n \in 1..(Cardinality(K) + 1) /\ \A d \in K : d.copy # n
  BY <1>1, UnusedNumber
<1>3. Cardinality(K) \in Nat
  BY <1>1, FS_CardinalityType
<1>4. n \in Nat \ {0}
  BY <1>2, <1>3
<1>5. NextCopy(c) = [job |-> c.job, attempt |-> c.attempt + 1, copy |-> n]
  BY DEF NextCopy
<1>6. /\ NextCopy(c) \in Copy /\ NextCopy(c).job = c.job
      /\ NextCopy(c).attempt = c.attempt + 1 /\ NextCopy(c).copy = n
  BY <1>4, <1>5, CopyFacts DEF Copy
<1>7. NextCopy(c) \notin K
  BY <1>2, <1>6
<1>8. NextCopy(c) # NoCopy
  BY <1>6, CopyFacts
<1>9. QED
  BY <1>6, <1>7, <1>8, HeldIsKnown

--------------------------------------------------------------------------------
(* What the operators of the broker keep. *)

\* A publication adds a new copy to the worker queue or to the retry queue.
Published(n) ==
  \/ ready' = ready \cup {n} /\ UNCHANGED delayed
  \/ delayed' = delayed \cup {n} /\ UNCHANGED ready

LEMMA BrokerPublishes ==
  ASSUME BrokerInv, NEW n \in Copy, Published(n), n.job \in enqueued,
         n \notin ready \cup delayed, \A w \in Workers : n \notin unacked[w],
         UNCHANGED <<unacked, link, enqueued, gone>>
  PROVE  BrokerInv'
<1>1. IsFiniteSet(ready') /\ IsFiniteSet(delayed')
  BY FS_AddElement DEF BrokerInv, Published
<1>2. QED
  BY <1>1 DEF BrokerInv, Published

\* Deliveries leave a channel, and some of them are back in the queue.
LEMMA BrokerTakesBack ==
  ASSUME BrokerInv, NEW w \in Workers, NEW left \in SUBSET unacked[w], NEW back \in SUBSET left,
         ready' = ready \cup back,
         unacked' = [unacked EXCEPT ![w] = @ \ left],
         link' \in [Workers -> BOOLEAN],
         gone' \subseteq enqueued,
         UNCHANGED <<delayed, enqueued>>
  PROVE  BrokerInv'
<1>1. IsFiniteSet(unacked[w]) /\ Cardinality(unacked[w]) <= Prefetch
  BY DEF BrokerInv
<1>2. IsFiniteSet(unacked[w] \ left) /\ Cardinality(unacked[w] \ left) <= Prefetch
  <2>1. /\ IsFiniteSet(unacked[w] \ left)
        /\ Cardinality(unacked[w] \ left) <= Cardinality(unacked[w])
    BY <1>1, FS_Subset
  <2>2. Cardinality(unacked[w] \ left) \in Nat /\ Cardinality(unacked[w]) \in Nat
    BY <1>1, <2>1, FS_CardinalityType
  <2>3. QED
    BY <1>1, <2>1, <2>2, RabbitMqAssumption
<1>3. IsFiniteSet(ready')
  <2>1. IsFiniteSet(back)
    <3>1. back \in SUBSET unacked[w]
      OBVIOUS
    <3>2. QED
      BY <1>1, <3>1, FS_Subset
  <2>2. IsFiniteSet(ready)
    BY DEF BrokerInv
  <2>3. QED
    BY <2>1, <2>2, FS_Union
<1>4. /\ unacked' \in [Workers -> SUBSET Copy]
      /\ \A v \in Workers : unacked'[v] = IF v = w THEN unacked[w] \ left ELSE unacked[v]
  BY DEF BrokerInv
<1>5. \A v \in Workers : IsFiniteSet(unacked'[v]) /\ Cardinality(unacked'[v]) <= Prefetch
  BY <1>2, <1>4 DEF BrokerInv
<1>6. QED
  BY <1>3, <1>4, <1>5 DEF BrokerInv

LEMMA BrokerChannelGone ==
  ASSUME BrokerInv, NEW w \in Workers, ChannelGone(w), gone' \subseteq enqueued,
         UNCHANGED <<delayed, enqueued>>
  PROVE  BrokerInv'
<1> DEFINE all == unacked[w]
<1>1. /\ ready' = ready \cup all
      /\ unacked' = [unacked EXCEPT ![w] = @ \ all]
      /\ link' \in [Workers -> BOOLEAN]
  BY DEF ChannelGone, BrokerInv
<1>2. all \in SUBSET unacked[w]
  OBVIOUS
<1> HIDE DEF all
<1>3. all \in SUBSET all
  OBVIOUS
<1>4. QED
  BY <1>1, <1>2, <1>3, BrokerTakesBack

LEMMA BrokerSettles ==
  ASSUME BrokerInv, NEW w \in Workers, NEW c, Settle(w, c), gone' \subseteq enqueued,
         UNCHANGED <<delayed, enqueued>>
  PROVE  BrokerInv'
<1>1. CASE c \notin unacked[w] /\ link[w]
  BY <1>1, BrokerChannelGone DEF Settle
<1>2. CASE ~(c \notin unacked[w] /\ link[w])
  <2> DEFINE left == unacked[w] \cap {c}
             back == {}
  <2>1. /\ unacked' = [unacked EXCEPT ![w] = @ \ left]
        /\ ready' = ready \cup back /\ UNCHANGED link
    BY <1>2 DEF Settle, BrokerInv
  <2>2. link' \in [Workers -> BOOLEAN]
    BY <2>1 DEF BrokerInv
  <2> HIDE DEF left
  <2>3. left \in SUBSET unacked[w]
    BY DEF left
  <2>4. back \in SUBSET left
    OBVIOUS
  <2> HIDE DEF back
  <2>5. QED
    BY <2>1, <2>2, <2>3, <2>4, BrokerTakesBack
<1>3. QED
  BY <1>1, <1>2

--------------------------------------------------------------------------------
(* What the operators of the workers keep. *)

LEMMA TasksRest ==
  ASSUME TaskInv, UNCHANGED <<stage, pending, pc, hold>>,
         completed' \in [Tasks -> BOOLEAN], unhealthy' \in [Workers -> BOOLEAN],
         enqueued \subseteq enqueued'
  PROVE  TaskInv'
BY DEF TaskInv

LEMMA TaskGoesOn ==
  ASSUME TaskInv, NEW t \in Tasks, pc[t] # "free", NEW step \in Pc \ {"free"}, GoTo(t, step),
         completed' \in [Tasks -> BOOLEAN], UNCHANGED <<stage, unhealthy, enqueued>>
  PROVE  TaskInv'
<1>1. /\ pc' \in [Tasks -> Pc]
      /\ \A u \in Tasks : pc'[u] = "free" <=> pc[u] = "free"
  BY DEF TaskInv, GoTo
<1>2. QED
  BY <1>1, TaskFacts DEF TaskInv, GoTo

\* What a task has in hand when it ended: the head of the queue, or nothing.
Ended(t) ==
  /\ pc' \in [Tasks -> Pc] /\ hold' \in [Tasks -> Copy \cup {NoCopy}]
  /\ completed' = [completed EXCEPT ![t] = FALSE]
  /\ pending' \in [Workers -> Seq(Copy)]
  /\ \A u \in Tasks \ {t} : pc'[u] = pc[u] /\ hold'[u] = hold[u]
  /\ \A w \in Workers \ {t[1]} : pending'[w] = pending[w]
  /\ \A i \in DOMAIN pending'[t[1]] :
       \E k \in DOMAIN pending[t[1]] :
          k # 1 /\ k = i + 1 /\ pending'[t[1]][i] = pending[t[1]][k]
  /\ \/ /\ pc'[t] = "free" /\ hold'[t] = NoCopy
        /\ pending[t[1]] = <<>> /\ pending'[t[1]] = <<>>
     \/ /\ pc'[t] = "decode" /\ stage[t[1]] = "open"
        /\ 1 \in DOMAIN pending[t[1]] /\ hold'[t] = pending[t[1]][1]
        /\ hold'[t] \in Copy
        /\ \A k \in DOMAIN pending[t[1]] :
             k # 1 => \E i \in DOMAIN pending'[t[1]] : pending'[t[1]][i] = pending[t[1]][k]

LEMMA TaskEndsFacts ==
  ASSUME TaskInv, NEW t \in Tasks, TaskEnds(t)
  PROVE  Ended(t)
<1> DEFINE w == t[1]
<1>1. w \in Workers /\ pending[w] \in Seq(Copy)
  BY TaskFacts DEF TaskInv
<1>2. pc \in [Tasks -> Pc] /\ hold \in [Tasks -> Copy \cup {NoCopy}]
      /\ pending \in [Workers -> Seq(Copy)] /\ completed' = [completed EXCEPT ![t] = FALSE]
  BY DEF TaskInv, TaskEnds
<1>3. CASE stage[w] = "open" /\ pending[w] # <<>>
  <2>1. /\ pc' = [pc EXCEPT ![t] = "decode"]
        /\ hold' = [hold EXCEPT ![t] = Head(pending[w])]
        /\ pending' = [pending EXCEPT ![w] = Tail(@)]
    BY <1>3 DEF TaskEnds
  <2> HIDE DEF w
  <2> DEFINE q == pending[w]
  <2>2. q \in Seq(Copy) /\ q # <<>>
    BY <1>1, <1>3
  <2> HIDE DEF q
  <2>3. /\ Head(q) = q[1] /\ 1 \in DOMAIN q /\ q[1] \in Copy /\ Tail(q) \in Seq(Copy)
        /\ \A i \in DOMAIN Tail(q) : i + 1 \in DOMAIN q /\ i + 1 # 1 /\ Tail(q)[i] = q[i + 1]
        /\ \A k \in DOMAIN q : k # 1 => k - 1 \in DOMAIN Tail(q) /\ Tail(q)[k - 1] = q[k]
    BY <2>2
  <2>4. pending'[w] = Tail(q) /\ hold'[t] = Head(q)
    BY <1>1, <1>2, <2>1 DEF q
  <2>a. \A i \in DOMAIN Tail(q) : \E k \in DOMAIN q : k # 1 /\ k = i + 1 /\ Tail(q)[i] = q[k]
    BY <2>3
  <2>b. ASSUME NEW k \in DOMAIN q, k # 1
        PROVE  \E i \in DOMAIN Tail(q) : Tail(q)[i] = q[k]
    <3>1. k - 1 \in DOMAIN Tail(q) /\ Tail(q)[k - 1] = q[k]
      BY <2>3, <2>b
    <3>2. QED
      BY <3>1
  <2>c. 1 \in DOMAIN q /\ hold'[t] = q[1] /\ hold'[t] \in Copy
    BY <2>3, <2>4
  <2>5. /\ \A i \in DOMAIN pending'[w] :
              \E k \in DOMAIN pending[w] : k # 1 /\ k = i + 1 /\ pending'[w][i] = pending[w][k]
        /\ \A k \in DOMAIN pending[w] :
              k # 1 => \E i \in DOMAIN pending'[w] : pending'[w][i] = pending[w][k]
        /\ 1 \in DOMAIN pending[w] /\ hold'[t] = pending[w][1] /\ hold'[t] \in Copy
    <3> DEFINE r == Tail(q)
    <3>1. pending'[w] = r /\ pending[w] = q
      BY <2>4 DEF q
    <3>2. \A i \in DOMAIN r : \E k \in DOMAIN q : k # 1 /\ k = i + 1 /\ r[i] = q[k]
      BY <2>a
    <3>3. \A k \in DOMAIN q : k # 1 => \E i \in DOMAIN r : r[i] = q[k]
      BY <2>b
    <3> HIDE DEF r
    <3>4. QED
      BY <2>c, <3>1, <3>2, <3>3, Zenon
  <2>6. pending' \in [Workers -> Seq(Copy)]
    BY <1>2, <2>1, <2>3 DEF q
  <2>7. pc'[t] = "decode" /\ pc' \in [Tasks -> Pc] /\ hold' \in [Tasks -> Copy \cup {NoCopy}]
    BY <1>2, <2>1, <2>5 DEF Pc
  <2>8. \A u \in Tasks \ {t} : pc'[u] = pc[u] /\ hold'[u] = hold[u]
    BY <1>2, <2>1
  <2>9. \A v \in Workers \ {w} : pending'[v] = pending[v]
    BY <1>2, <2>1
  <2>10. QED
    BY <1>2, <1>3, <2>5, <2>6, <2>7, <2>8, <2>9 DEF w, Ended
<1>4. CASE ~(stage[w] = "open" /\ pending[w] # <<>>)
  <2>1. /\ pc' = [pc EXCEPT ![t] = "free"]
        /\ hold' = [hold EXCEPT ![t] = NoCopy]
        /\ UNCHANGED pending
    BY <1>4 DEF TaskEnds
  <2>2. pending[w] = <<>>
    BY <1>1, <1>4 DEF TaskInv
  <2>3. QED
    BY <1>1, <1>2, <2>1, <2>2 DEF Pc, Ended
<1>5. QED
  BY <1>3, <1>4

LEMMA TaskEndsKeeps ==
  ASSUME TaskInv, NEW t \in Tasks, pc[t] # "free", TaskEnds(t),
         unhealthy' \in [Workers -> BOOLEAN], UNCHANGED <<stage, enqueued>>
  PROVE  TaskInv'
<1>0. Ended(t)
  BY TaskEndsFacts
<1>1. completed' \in [Tasks -> BOOLEAN]
  BY <1>0 DEF TaskInv, Ended
<1>2. ASSUME NEW u \in Tasks
      PROVE  /\ hold'[u] = NoCopy <=> pc'[u] = "free"
             /\ pc'[u] # "free" => hold'[u].job \in enqueued'
  <2>1. CASE u = t
    <3>1. CASE pc'[t] = "free"
      BY <1>0, <2>1, <3>1 DEF Ended
    <3>2. CASE pc'[t] # "free"
      <4>1. hold'[t] \in Copy /\ hold'[t] = pending[t[1]][1] /\ 1 \in DOMAIN pending[t[1]]
        BY <1>0, <3>2 DEF Ended
      <4>2. hold'[t] # NoCopy
        BY <4>1, CopyFacts
      <4>3. pending[t[1]][1].job \in enqueued
        BY <4>1, TaskFacts DEF TaskInv
      <4>4. QED
        BY <2>1, <3>2, <4>1, <4>2, <4>3
    <3>3. QED
      BY <3>1, <3>2
  <2>2. CASE u # t
    BY <1>0, <2>2 DEF TaskInv, Ended
  <2>3. QED
    BY <2>1, <2>2
<1>3. ASSUME NEW w \in Workers, NEW i \in DOMAIN pending'[w]
      PROVE  pending'[w][i].job \in enqueued'
  <2>1. CASE w = t[1]
    <3>1. PICK k \in DOMAIN pending[w] : pending'[w][i] = pending[w][k]
      BY <1>0, <1>3, <2>1 DEF Ended
    <3>2. QED
      BY <3>1 DEF TaskInv
  <2>2. CASE w # t[1]
    BY <1>0, <1>3, <2>2 DEF TaskInv, Ended
  <2>3. QED
    BY <2>1, <2>2
<1>4. \A w \in Workers : pending'[w] # <<>> => \A u \in TasksOf(w) : pc'[u] # "free"
  BY <1>0, TaskFacts DEF TaskInv, Ended
<1>5. \A w \in Workers : stage'[w] # "open" => pending'[w] = <<>>
  BY <1>0, TaskFacts DEF TaskInv, Ended
<1>6. QED
  BY <1>0, <1>1, <1>2, <1>3, <1>4, <1>5 DEF TaskInv, Ended

\* A worker that starts afresh, or is gone, has nothing in hand.
Reset(w) ==
  /\ pending' = [pending EXCEPT ![w] = <<>>]
  /\ pc' = [t \in Tasks |-> IF t[1] = w THEN "free" ELSE pc[t]]
  /\ hold' = [t \in Tasks |-> IF t[1] = w THEN NoCopy ELSE hold[t]]
  /\ completed' = [t \in Tasks |-> IF t[1] = w THEN FALSE ELSE completed[t]]

LEMMA ResetKeeps ==
  ASSUME TaskInv, NEW w \in Workers, Reset(w),
         \/ UNCHANGED stage
         \/ stage' = [stage EXCEPT ![w] = "open"],
         unhealthy' \in [Workers -> BOOLEAN], UNCHANGED enqueued
  PROVE  TaskInv'
<1>1. pending' \in [Workers -> Seq(Copy)]
  BY DEF TaskInv, Reset
<1>2. \A v \in Workers : pending'[v] = IF v = w THEN <<>> ELSE pending[v]
  BY DEF TaskInv, Reset
<1>3. \A t \in Tasks : pc'[t] \in Pc /\ hold'[t] \in Copy \cup {NoCopy} /\ completed'[t] \in BOOLEAN
  BY DEF TaskInv, Reset, Pc
<1>4. pc' \in [Tasks -> Pc] /\ hold' \in [Tasks -> Copy \cup {NoCopy}] /\ completed' \in [Tasks -> BOOLEAN]
  BY <1>3 DEF Reset
<1>5. \A t \in Tasks : /\ t[1] = w => pc'[t] = "free" /\ hold'[t] = NoCopy
                       /\ t[1] # w => pc'[t] = pc[t] /\ hold'[t] = hold[t]
  BY DEF Reset
<1>6. /\ stage' \in [Workers -> Stages]
      /\ \A v \in Workers : stage'[v] = stage[v] \/ v = w
  <2>1. "open" \in Stages
    BY DEF Stages
  <2>2. stage \in [Workers -> Stages]
    BY DEF TaskInv
  <2>3. CASE UNCHANGED stage
    BY <2>2, <2>3
  <2>4. CASE stage' = [stage EXCEPT ![w] = "open"]
    BY <2>1, <2>2, <2>4
  <2>5. QED
    BY <2>3, <2>4
<1>7. ASSUME NEW v \in Workers, pending'[v] # <<>>, NEW t \in TasksOf(v)
      PROVE  pc'[t] # "free"
  <2>1. v # w /\ pending[v] # <<>>
    BY <1>2, <1>7
  <2>2. t \in Tasks /\ t[1] # w
    BY <2>1, TaskFacts
  <2>3. pc[t] # "free"
    BY <2>1 DEF TaskInv
  <2>4. QED
    BY <1>5, <2>2, <2>3
<1>8. ASSUME NEW v \in Workers, NEW i \in DOMAIN pending'[v] PROVE pending'[v][i].job \in enqueued'
  <2>1. CASE v = w
    BY <1>2, <2>1
  <2>2. CASE v # w
    BY <1>2, <2>2 DEF TaskInv
  <2>3. QED
    BY <2>1, <2>2
<1>9. \A v \in Workers : stage'[v] # "open" => pending'[v] = <<>>
  BY <1>2, <1>6 DEF TaskInv
<1>10. \A t \in Tasks : /\ hold'[t] = NoCopy <=> pc'[t] = "free"
                        /\ pc'[t] # "free" => hold'[t].job \in enqueued'
  BY <1>5 DEF TaskInv
<1>11. QED
  BY <1>1, <1>4, <1>6, <1>7, <1>8, <1>9, <1>10 DEF TaskInv

--------------------------------------------------------------------------------
(* Every step keeps the types. *)

LEMMA HeldFacts ==
  ASSUME TypeInv, NEW t \in Tasks, pc[t] # "free"
  PROVE  /\ hold[t] \in Copy /\ hold[t] # NoCopy
         /\ hold[t].job \in enqueued /\ hold[t].job \in Jobs
         /\ t[1] \in Workers
BY TaskFacts DEF TypeInv, TaskInv, BrokerInv

LEMMA BrokerSame ==
  ASSUME TypeInv, UNCHANGED <<ready, delayed, unacked, link, enqueued>>,
         gone' \subseteq enqueued \/ gone' = gone
         \/ \E j \in enqueued : gone' = gone \cup {j}
  PROVE  BrokerInv'
BY DEF TypeInv, BrokerInv

LEMMA PublishKeeps ==
  ASSUME TypeInv, NEW t \in Tasks, pc[t] # "free", Published(NextCopy(hold[t])),
         UNCHANGED <<unacked, link, enqueued, gone>>
  PROVE  BrokerInv'
<1> DEFINE n == NextCopy(hold[t])
<1>1. /\ n \in Copy /\ n.job \in enqueued
      /\ n \notin ready \cup delayed /\ \A w \in Workers : n \notin unacked[w]
  BY HeldFacts, NextCopyIsNew
<1> HIDE DEF n
<1>2. Published(n)
  BY DEF n
<1>3. QED
  BY <1>1, <1>2, BrokerPublishes DEF TypeInv

LEMMA StepBroker ==
  ASSUME TypeInv, [Next]_vars
  PROVE  BrokerInv'
<1>1. ASSUME NEW j \in Jobs, Enqueue(j) PROVE BrokerInv'
  <2> DEFINE n == [job |-> j, attempt |-> 1, copy |-> 1]
  <2>1. n \in Copy /\ n.job = j
    BY DEF Copy
  <2>2. n \notin ready \cup delayed /\ \A w \in Workers : n \notin unacked[w]
    BY <1>1, <2>1 DEF Enqueue, TypeInv, BrokerInv
  <2> HIDE DEF n
  <2>3. /\ ready' = ready \cup {n} /\ enqueued' = enqueued \cup {j}
        /\ UNCHANGED <<delayed, unacked, link, gone>>
    BY <1>1 DEF Enqueue, n
  <2>4. IsFiniteSet(ready')
    BY <2>3, FS_AddElement DEF TypeInv, BrokerInv
  <2>5. QED
    BY <2>1, <2>2, <2>3, <2>4 DEF TypeInv, BrokerInv
<1>2. ASSUME RetryDue PROVE BrokerInv'
  <2>1. PICK c \in delayed : delayed' = delayed \ {c} /\ ready' = ready \cup {c}
    BY <1>2 DEF RetryDue
  <2>2. UNCHANGED <<unacked, link, enqueued, gone>>
    BY <1>2 DEF RetryDue
  <2>3. IsFiniteSet(ready') /\ IsFiniteSet(delayed')
    BY <2>1, FS_AddElement, FS_RemoveElement DEF TypeInv, BrokerInv
  <2>4. QED
    BY <2>1, <2>2, <2>3 DEF TypeInv, BrokerInv
<1>3. ASSUME NEW w \in Workers, Deliver(w) PROVE BrokerInv'
  <2>1. PICK c \in ready : ready' = ready \ {c} /\ unacked' = [unacked EXCEPT ![w] = @ \cup {c}]
    BY <1>3 DEF Deliver
  <2>2. UNCHANGED <<delayed, link, enqueued, gone>> /\ Cardinality(unacked[w]) < Prefetch
    BY <1>3 DEF Deliver
  <2>3. IsFiniteSet(ready')
    BY <2>1, FS_RemoveElement DEF TypeInv, BrokerInv
  <2>4. IsFiniteSet(unacked[w] \cup {c}) /\ Cardinality(unacked[w] \cup {c}) <= Prefetch
    <3>1. IsFiniteSet(unacked[w])
      BY DEF TypeInv, BrokerInv
    <3>2. Cardinality(unacked[w]) \in Nat
      BY <3>1, FS_CardinalityType
    <3>3. /\ IsFiniteSet(unacked[w] \cup {c})
          /\ \/ Cardinality(unacked[w] \cup {c}) = Cardinality(unacked[w])
             \/ Cardinality(unacked[w] \cup {c}) = Cardinality(unacked[w]) + 1
      BY <3>1, FS_AddElement
    <3>4. QED
      BY <2>2, <3>2, <3>3, RabbitMqAssumption
  <2>5. /\ unacked' \in [Workers -> SUBSET Copy]
        /\ \A v \in Workers : unacked'[v] = IF v = w THEN unacked[w] \cup {c} ELSE unacked[v]
    BY <2>1 DEF TypeInv, BrokerInv
  <2>6. \A v \in Workers : IsFiniteSet(unacked'[v]) /\ Cardinality(unacked'[v]) <= Prefetch
    BY <2>4, <2>5 DEF TypeInv, BrokerInv
  <2>7. /\ ready' \subseteq ready /\ c \notin ready' /\ c \in Copy /\ c.job \in enqueued
        /\ c \notin delayed /\ \A v \in Workers : c \notin unacked[v]
    BY <2>1 DEF TypeInv, BrokerInv
  <2>8. /\ ready' \cap delayed' = {}
        /\ \A v \in Workers : unacked'[v] \cap (ready' \cup delayed') = {}
        /\ \A u, v \in Workers : u # v => unacked'[u] \cap unacked'[v] = {}
    BY <2>2, <2>5, <2>7 DEF TypeInv, BrokerInv
  <2>9. /\ \A d \in ready' \cup delayed' : d.job \in enqueued'
        /\ \A v \in Workers : \A d \in unacked'[v] : d.job \in enqueued'
    BY <2>2, <2>5, <2>7 DEF TypeInv, BrokerInv
  <2>10. QED
    BY <2>2, <2>3, <2>5, <2>6, <2>7, <2>8, <2>9 DEF TypeInv, BrokerInv
<1>4. ASSUME NEW t \in Tasks, RunHandler(t) PROVE BrokerInv'
  BY <1>4, BrokerSame DEF RunHandler, brokerVars
<1>5. ASSUME NEW t \in Tasks, Undecodable(t) PROVE BrokerInv'
  BY <1>5, BrokerSame DEF Undecodable, brokerVars
<1>6. ASSUME NEW t \in Tasks, ContextAck(t) PROVE BrokerInv'
  <2>1. pc[t] # "free" /\ Settle(t[1], hold[t]) /\ UNCHANGED <<delayed, enqueued>>
    BY <1>6 DEF ContextAck, Conclude
  <2>2. gone' \subseteq enqueued
    BY <1>6, <2>1, HeldFacts DEF ContextAck, Conclude, TypeInv, BrokerInv
  <2>3. QED
    BY <2>1, <2>2, TaskFacts, BrokerSettles DEF TypeInv
<1>7. ASSUME NEW t \in Tasks, ContextRetry(t) PROVE BrokerInv'
  <2>1. pc[t] # "free" /\ Published(NextCopy(hold[t]))
    BY <1>7 DEF ContextRetry, Published
  <2>2. QED
    BY <1>7, <2>1, PublishKeeps DEF ContextRetry
<1>8. ASSUME NEW t \in Tasks, ContextDeadLetter(t) PROVE BrokerInv'
  <2>1. pc[t] # "free"
    BY <1>8 DEF ContextDeadLetter
  <2>2. QED
    BY <1>8, <2>1, HeldFacts, BrokerSame DEF ContextDeadLetter, brokerVars
<1>9. ASSUME NEW t \in Tasks, ContextSettles(t) PROVE BrokerInv'
  <2>1. pc[t] # "free" /\ Settle(t[1], hold[t]) /\ UNCHANGED <<delayed, enqueued>>
    BY <1>9 DEF ContextSettles
  <2>2. gone' \subseteq enqueued
    BY <1>9, <2>1, HeldFacts DEF ContextSettles, TypeInv, BrokerInv
  <2>3. QED
    BY <2>1, <2>2, TaskFacts, BrokerSettles DEF TypeInv
<1>10. ASSUME NEW t \in Tasks, HandlerReturns(t) PROVE BrokerInv'
  BY <1>10, BrokerSame DEF HandlerReturns, brokerVars
<1>11. ASSUME NEW t \in Tasks, HandlerThrows(t) PROVE BrokerInv'
  BY <1>11, BrokerSame DEF HandlerThrows, brokerVars
<1>12. ASSUME NEW t \in Tasks, HandlerThrowsLate(t) PROVE BrokerInv'
  BY <1>12, BrokerSame DEF HandlerThrowsLate, brokerVars
<1>13. ASSUME NEW t \in Tasks, Ack(t) PROVE BrokerInv'
  <2>1. pc[t] # "free" /\ Settle(t[1], hold[t]) /\ UNCHANGED <<delayed, enqueued>>
    BY <1>13 DEF Ack, Conclude
  <2>2. gone' \subseteq enqueued
    BY <1>13, <2>1, HeldFacts DEF Ack, Conclude, TypeInv, BrokerInv
  <2>3. QED
    BY <2>1, <2>2, TaskFacts, BrokerSettles DEF TypeInv
<1>14. ASSUME NEW t \in Tasks, AckThrows(t) PROVE BrokerInv'
  BY <1>14, BrokerSame DEF AckThrows, brokerVars
<1>15. ASSUME NEW t \in Tasks, PublishRetry(t) PROVE BrokerInv'
  <2>1. pc[t] # "free" /\ Published(NextCopy(hold[t]))
    BY <1>15 DEF PublishRetry, Published
  <2>2. QED
    BY <1>15, <2>1, PublishKeeps DEF PublishRetry
<1>16. ASSUME NEW t \in Tasks, PublishDeadLetter(t) PROVE BrokerInv'
  <2>1. pc[t] # "free"
    BY <1>16 DEF PublishDeadLetter
  <2>2. QED
    BY <1>16, <2>1, HeldFacts, BrokerSame DEF PublishDeadLetter, brokerVars
<1>17. ASSUME NEW t \in Tasks, PublishThrows(t) PROVE BrokerInv'
  <2>1. pc[t] # "free"
    BY <1>17 DEF PublishThrows
  <2>2. CASE UNCHANGED <<brokerVars, gone>>
    BY <2>2, BrokerSame DEF brokerVars
  <2>3. CASE /\ Published(NextCopy(hold[t]))
             /\ UNCHANGED <<unacked, link, enqueued, gone>>
    BY <2>1, <2>3, PublishKeeps
  <2>4. CASE gone' = gone \cup {hold[t].job} /\ UNCHANGED brokerVars
    BY <2>1, <2>4, HeldFacts, BrokerSame DEF brokerVars
  <2>5. QED
    BY <1>17, <2>2, <2>3, <2>4 DEF PublishThrows, Published
<1>18. ASSUME NEW t \in Tasks, SettleDelivery(t) PROVE BrokerInv'
  <2>1. pc[t] # "free" /\ Settle(t[1], hold[t]) /\ UNCHANGED <<delayed, enqueued>>
    BY <1>18 DEF SettleDelivery
  <2>2. gone' \subseteq enqueued
    BY <1>18, <2>1, HeldFacts DEF SettleDelivery, TypeInv, BrokerInv
  <2>3. QED
    BY <2>1, <2>2, TaskFacts, BrokerSettles DEF TypeInv
<1>19. ASSUME NEW t \in Tasks, Reject(t) PROVE BrokerInv'
  <2>1. pc[t] # "free" /\ Settle(t[1], hold[t]) /\ UNCHANGED <<delayed, enqueued>>
    BY <1>19 DEF Reject, Conclude
  <2>2. gone' \subseteq enqueued
    BY <1>19, <2>1, HeldFacts DEF Reject, Conclude, TypeInv, BrokerInv
  <2>3. QED
    BY <2>1, <2>2, TaskFacts, BrokerSettles DEF TypeInv
<1>20. ASSUME NEW t \in Tasks, SettleThrows(t) PROVE BrokerInv'
  BY <1>20, BrokerSame DEF SettleThrows, brokerVars
<1>21. ASSUME NEW w \in Workers, CloseEnds(w) PROVE BrokerInv'
  BY <1>21, BrokerSame DEF CloseEnds, brokerVars
<1>22. ASSUME NEW w \in Workers, AdapterCloses(w) PROVE BrokerInv'
  <2>1. ChannelGone(w) /\ UNCHANGED <<delayed, enqueued, gone>>
    BY <1>22 DEF AdapterCloses
  <2>2. QED
    BY <2>1, BrokerChannelGone DEF TypeInv, BrokerInv
<1>23. ASSUME NEW w \in Workers, Replace(w) PROVE BrokerInv'
  <2> DEFINE all == unacked[w]
  <2>1. /\ ready' = ready \cup all /\ unacked' = [unacked EXCEPT ![w] = @ \ all]
        /\ link' \in [Workers -> BOOLEAN] /\ gone' \subseteq enqueued
        /\ UNCHANGED <<delayed, enqueued>>
    BY <1>23 DEF Replace, TypeInv, BrokerInv
  <2>2. all \in SUBSET unacked[w]
    OBVIOUS
  <2> HIDE DEF all
  <2>3. all \in SUBSET all
    OBVIOUS
  <2>4. QED
    BY <2>1, <2>2, <2>3, BrokerTakesBack DEF TypeInv
<1>24. ASSUME NEW w \in Workers, CloseStart(w) PROVE BrokerInv'
  <2> DEFINE back == {pending[w][i] : i \in DOMAIN pending[w]} \cap unacked[w]
  <2>1. /\ ready' = ready \cup back /\ unacked' = [unacked EXCEPT ![w] = @ \ back]
        /\ UNCHANGED <<delayed, enqueued, link, gone>>
    BY <1>24 DEF CloseStart
  <2>2. link' \in [Workers -> BOOLEAN] /\ gone' \subseteq enqueued
    BY <2>1 DEF TypeInv, BrokerInv
  <2>3. back \in SUBSET unacked[w]
    OBVIOUS
  <2> HIDE DEF back
  <2>4. back \in SUBSET back
    OBVIOUS
  <2>5. QED
    BY <2>1, <2>2, <2>3, <2>4, BrokerTakesBack DEF TypeInv
<1>25. ASSUME NEW w \in Workers, CloseTimesOut(w) \/ BusClose(w) PROVE BrokerInv'
  BY <1>25, BrokerSame DEF CloseTimesOut, BusClose, brokerVars
<1>26. ASSUME NEW w \in Workers, ChannelLost(w) PROVE BrokerInv'
  <2>1. ChannelGone(w) /\ UNCHANGED <<delayed, enqueued, gone>>
    BY <1>26 DEF ChannelLost
  <2>2. QED
    BY <2>1, BrokerChannelGone DEF TypeInv, BrokerInv
<1>27. ASSUME NEW w \in Workers, Crash(w) PROVE BrokerInv'
  <2>1. ChannelGone(w) /\ UNCHANGED <<delayed, enqueued, gone>>
    BY <1>27 DEF Crash
  <2>2. QED
    BY <2>1, BrokerChannelGone DEF TypeInv, BrokerInv
<1>28. CASE UNCHANGED vars
  BY <1>28, BrokerSame DEF vars, brokerVars
<1>29. QED
  BY <1>1, <1>2, <1>3, <1>4, <1>5, <1>6, <1>7, <1>8, <1>9, <1>10, <1>11, <1>12, <1>13, <1>14, <1>15, <1>16, <1>17, <1>18, <1>19, <1>20, <1>21, <1>22, <1>23, <1>24, <1>25, <1>26, <1>27, <1>28
  DEF Next, Process, Shutdown

LEMMA StepTasks ==
  ASSUME TypeInv, [Next]_vars
  PROVE  TaskInv'
<1>1. ASSUME NEW j \in Jobs, Enqueue(j) PROVE TaskInv'
  BY <1>1, TasksRest DEF Enqueue, TypeInv, TaskInv, workerVars, taskVars, ReportError
<1>2. ASSUME RetryDue PROVE TaskInv'
  BY <1>2, TasksRest DEF RetryDue, TypeInv, TaskInv, workerVars, taskVars, ReportError
<1>3. ASSUME NEW w \in Workers, Deliver(w) PROVE TaskInv'
  <2>1. PICK c \in ready :
          \/ /\ stage[w] = "open"
             /\ \E t \in TasksOf(w) :
                  /\ pc[t] = "free"
                  /\ pc' = [pc EXCEPT ![t] = "decode"]
                  /\ hold' = [hold EXCEPT ![t] = c]
             /\ UNCHANGED pending
          \/ /\ stage[w] = "open"
             /\ \A t \in TasksOf(w) : pc[t] # "free"
             /\ pending' = [pending EXCEPT ![w] = Append(@, c)]
             /\ UNCHANGED <<pc, hold>>
          \/ UNCHANGED <<pending, pc, hold>>
    BY <1>3 DEF Deliver
  <2>2. UNCHANGED <<enqueued, stage, unhealthy, completed>>
    BY <1>3 DEF Deliver
  <2>3. c \in Copy /\ c.job \in enqueued /\ c # NoCopy
    BY CopyFacts DEF TypeInv, BrokerInv
  <2>4. ASSUME NEW t \in TasksOf(w), pc[t] = "free",
               pc' = [pc EXCEPT ![t] = "decode"], hold' = [hold EXCEPT ![t] = c],
               UNCHANGED pending
        PROVE  TaskInv'
    <3>1. t \in Tasks
      BY TaskFacts
    <3>2. /\ pc' \in [Tasks -> Pc] /\ hold' \in [Tasks -> Copy \cup {NoCopy}]
          /\ pc'[t] = "decode" /\ hold'[t] = c
          /\ \A u \in Tasks \ {t} : pc'[u] = pc[u] /\ hold'[u] = hold[u]
      BY <2>3, <2>4, <3>1 DEF TypeInv, TaskInv, Pc
    <3>3. \A u \in Tasks : /\ hold'[u] = NoCopy <=> pc'[u] = "free"
                           /\ pc'[u] # "free" => hold'[u].job \in enqueued
      BY <2>3, <3>2 DEF TypeInv, TaskInv
    <3>4. \A v \in Workers : pending[v] # <<>> => \A u \in TasksOf(v) : pc'[u] # "free"
      BY <3>2, TaskFacts DEF TypeInv, TaskInv
    <3>5. QED
      BY <2>2, <2>4, <3>2, <3>3, <3>4 DEF TypeInv, TaskInv
  <2>5. ASSUME stage[w] = "open", \A t \in TasksOf(w) : pc[t] # "free",
               pending' = [pending EXCEPT ![w] = Append(@, c)], UNCHANGED <<pc, hold>>
        PROVE  TaskInv'
    <3>1. pending \in [Workers -> Seq(Copy)] /\ pending[w] \in Seq(Copy)
      BY DEF TypeInv, TaskInv
    <3>2. \A v \in Workers : pending'[v] = IF v = w THEN Append(pending[w], c) ELSE pending[v]
      BY <2>5, <3>1
    <3>3. /\ Append(pending[w], c) \in Seq(Copy)
          /\ \A i \in DOMAIN Append(pending[w], c) :
               \/ Append(pending[w], c)[i] = c
               \/ i \in DOMAIN pending[w] /\ Append(pending[w], c)[i] = pending[w][i]
      BY <2>3, <3>1
    <3>4. pending' \in [Workers -> Seq(Copy)]
      BY <2>5, <3>1, <3>3
    <3>5. ASSUME NEW v \in Workers, NEW i \in DOMAIN pending'[v]
          PROVE  pending'[v][i].job \in enqueued
      BY <2>3, <3>2, <3>3 DEF TypeInv, TaskInv
    <3>6. QED
      BY <2>2, <2>5, <3>2, <3>4, <3>5 DEF TypeInv, TaskInv
  <2>6. CASE UNCHANGED <<pending, pc, hold>>
    BY <2>2, <2>6, TasksRest DEF TypeInv, TaskInv
  <2>7. QED
    BY <2>1, <2>4, <2>5, <2>6
<1>4. ASSUME NEW t \in Tasks, RunHandler(t) PROVE TaskInv'
  <2>1. pc[t] # "free" /\ GoTo(t, "handler")
    BY <1>4 DEF RunHandler
  <2>2. QED
    BY <1>4, <2>1, TaskGoesOn DEF RunHandler, Pc, brokerVars, TypeInv, TaskInv
<1>5. ASSUME NEW t \in Tasks, Undecodable(t) PROVE TaskInv'
  <2>1. pc[t] # "free" /\ GoTo(t, LastStep(t[1]))
    BY <1>5 DEF Undecodable
  <2>2. QED
    BY <1>5, <2>1, TaskGoesOn DEF Undecodable, Pc, brokerVars, TypeInv, TaskInv, LastStep
<1>6. ASSUME NEW t \in Tasks, ContextAck(t) PROVE TaskInv'
  BY <1>6, TasksRest DEF ContextAck, TypeInv, TaskInv, workerVars
<1>7. ASSUME NEW t \in Tasks, ContextRetry(t) PROVE TaskInv'
  <2>1. pc[t] # "free" /\ GoTo(t, "ctxAck")
    BY <1>7 DEF ContextRetry
  <2>2. QED
    BY <1>7, <2>1, TaskGoesOn DEF ContextRetry, Pc, brokerVars, TypeInv, TaskInv
<1>8. ASSUME NEW t \in Tasks, ContextDeadLetter(t) PROVE TaskInv'
  <2>1. pc[t] # "free" /\ GoTo(t, "ctxAck")
    BY <1>8 DEF ContextDeadLetter
  <2>2. QED
    BY <1>8, <2>1, TaskGoesOn DEF ContextDeadLetter, Pc, brokerVars, TypeInv, TaskInv
<1>9. ASSUME NEW t \in Tasks, ContextSettles(t) PROVE TaskInv'
  <2>1. pc[t] # "free" /\ GoTo(t, "handler")
    BY <1>9 DEF ContextSettles
  <2>2. QED
    BY <1>9, <2>1, TaskGoesOn DEF ContextSettles, Pc, brokerVars, TypeInv, TaskInv
<1>10. ASSUME NEW t \in Tasks, HandlerReturns(t) PROVE TaskInv'
  <2>1. pc[t] # "free" /\ UNCHANGED <<enqueued, stage, unhealthy>>
    BY <1>10 DEF HandlerReturns, brokerVars
  <2>2. CASE TaskEnds(t)
    BY <2>1, <2>2, TaskEndsKeeps DEF TypeInv, TaskInv
  <2>3. CASE GoTo(t, "ack") /\ UNCHANGED completed
    BY <2>1, <2>3, TaskGoesOn DEF Pc, TypeInv, TaskInv
  <2>4. QED
    BY <1>10, <2>2, <2>3 DEF HandlerReturns
<1>11. ASSUME NEW t \in Tasks, HandlerThrows(t) PROVE TaskInv'
  <2>1. PICK step \in FailureSteps(t) : GoTo(t, step)
    BY <1>11 DEF HandlerThrows
  <2>2. step \in Pc \ {"free"}
    BY DEF FailureSteps, LastStep, Pc
  <2>3. pc[t] # "free"
    BY <1>11 DEF HandlerThrows
  <2>4. QED
    BY <1>11, <2>1, <2>2, <2>3, TaskGoesOn DEF HandlerThrows, brokerVars, TypeInv, TaskInv
<1>12. ASSUME NEW t \in Tasks, HandlerThrowsLate(t) PROVE TaskInv'
  <2>1. PICK step \in FailureSteps(t) : GoTo(t, step)
    BY <1>12 DEF HandlerThrowsLate
  <2>2. step \in Pc \ {"free"}
    BY DEF FailureSteps, LastStep, Pc
  <2>3. pc[t] # "free"
    BY <1>12 DEF HandlerThrowsLate
  <2>4. QED
    BY <1>12, <2>1, <2>2, <2>3, TaskGoesOn DEF HandlerThrowsLate, brokerVars, TypeInv, TaskInv
<1>13. ASSUME NEW t \in Tasks, Ack(t) PROVE TaskInv'
  <2>1. pc[t] # "free" /\ TaskEnds(t) /\ UNCHANGED <<stage, enqueued>>
    BY <1>13 DEF Ack, brokerVars
  <2>2. unhealthy' \in [Workers -> BOOLEAN]
    BY <1>13 DEF Ack, ReportError, TypeInv, TaskInv
  <2>3. QED
    BY <2>1, <2>2, TaskEndsKeeps DEF TypeInv
<1>14. ASSUME NEW t \in Tasks, AckThrows(t) PROVE TaskInv'
  <2>1. PICK step \in FailureSteps(t) : GoTo(t, step)
    BY <1>14 DEF AckThrows
  <2>2. step \in Pc \ {"free"}
    BY DEF FailureSteps, LastStep, Pc
  <2>3. pc[t] # "free"
    BY <1>14 DEF AckThrows
  <2>4. QED
    BY <1>14, <2>1, <2>2, <2>3, TaskGoesOn DEF AckThrows, brokerVars, TypeInv, TaskInv
<1>15. ASSUME NEW t \in Tasks, PublishRetry(t) PROVE TaskInv'
  <2>1. pc[t] # "free" /\ GoTo(t, "settle")
    BY <1>15 DEF PublishRetry
  <2>2. QED
    BY <1>15, <2>1, TaskGoesOn DEF PublishRetry, Pc, brokerVars, TypeInv, TaskInv
<1>16. ASSUME NEW t \in Tasks, PublishDeadLetter(t) PROVE TaskInv'
  <2>1. pc[t] # "free" /\ GoTo(t, "settle")
    BY <1>16 DEF PublishDeadLetter
  <2>2. QED
    BY <1>16, <2>1, TaskGoesOn DEF PublishDeadLetter, Pc, brokerVars, TypeInv, TaskInv
<1>17. ASSUME NEW t \in Tasks, PublishThrows(t) PROVE TaskInv'
  <2>1. pc[t] # "free" /\ TaskEnds(t) /\ UNCHANGED <<stage, enqueued>>
    BY <1>17 DEF PublishThrows, brokerVars
  <2>2. unhealthy' \in [Workers -> BOOLEAN]
    BY <1>17 DEF PublishThrows, ReportError, TypeInv, TaskInv
  <2>3. QED
    BY <2>1, <2>2, TaskEndsKeeps DEF TypeInv
<1>18. ASSUME NEW t \in Tasks, SettleDelivery(t) PROVE TaskInv'
  <2>1. pc[t] # "free" /\ TaskEnds(t) /\ UNCHANGED <<stage, enqueued>>
    BY <1>18 DEF SettleDelivery, brokerVars
  <2>2. unhealthy' \in [Workers -> BOOLEAN]
    BY <1>18 DEF SettleDelivery, ReportError, TypeInv, TaskInv
  <2>3. QED
    BY <2>1, <2>2, TaskEndsKeeps DEF TypeInv
<1>19. ASSUME NEW t \in Tasks, Reject(t) PROVE TaskInv'
  <2>1. pc[t] # "free" /\ TaskEnds(t) /\ UNCHANGED <<stage, enqueued>>
    BY <1>19 DEF Reject, brokerVars
  <2>2. unhealthy' \in [Workers -> BOOLEAN]
    BY <1>19 DEF Reject, ReportError, TypeInv, TaskInv
  <2>3. QED
    BY <2>1, <2>2, TaskEndsKeeps DEF TypeInv
<1>20. ASSUME NEW t \in Tasks, SettleThrows(t) PROVE TaskInv'
  <2>1. pc[t] # "free" /\ TaskEnds(t) /\ UNCHANGED <<stage, enqueued>>
    BY <1>20 DEF SettleThrows, brokerVars
  <2>2. unhealthy' \in [Workers -> BOOLEAN]
    BY <1>20 DEF SettleThrows, ReportError, TypeInv, TaskInv
  <2>3. QED
    BY <2>1, <2>2, TaskEndsKeeps DEF TypeInv
<1>21. ASSUME NEW w \in Workers, CloseEnds(w) PROVE TaskInv'
  <2>1. /\ \E s \in {"closed", "left"} : stage' = [stage EXCEPT ![w] = s]
        /\ stage[w] # "open"
        /\ UNCHANGED <<enqueued, unhealthy, pending, pc, hold, completed>>
    BY <1>21 DEF CloseEnds, taskVars, brokerVars
  <2>2. /\ stage' \in [Workers -> Stages]
        /\ \A v \in Workers : stage'[v] # "open" => stage[v] # "open"
    BY <2>1 DEF TypeInv, TaskInv, Stages
  <2>3. QED
    BY <2>1, <2>2 DEF TypeInv, TaskInv
<1>22. ASSUME NEW w \in Workers, AdapterCloses(w) PROVE TaskInv'
  BY <1>22, TasksRest DEF AdapterCloses, TypeInv, TaskInv, workerVars, taskVars, ReportError
<1>23. ASSUME NEW w \in Workers, Replace(w) PROVE TaskInv'
  <2>1. Reset(w) /\ stage' = [stage EXCEPT ![w] = "open"] /\ UNCHANGED enqueued
    BY <1>23 DEF Replace, Reset
  <2>2. unhealthy' \in [Workers -> BOOLEAN]
    BY <1>23 DEF Replace, TypeInv, TaskInv
  <2>3. QED
    BY <2>1, <2>2, ResetKeeps DEF TypeInv
<1>24. ASSUME NEW w \in Workers, CloseStart(w) PROVE TaskInv'
  <2>1. PICK s \in {"closing", "leaving"} : stage' = [stage EXCEPT ![w] = s]
    BY <1>24 DEF CloseStart
  <2>0. /\ pending' = [pending EXCEPT ![w] = <<>>]
        /\ UNCHANGED <<enqueued, unhealthy, pc, hold, completed>>
    BY <1>24 DEF CloseStart, taskVars
  <2>2. /\ pending' \in [Workers -> Seq(Copy)]
        /\ \A v \in Workers : pending'[v] = IF v = w THEN <<>> ELSE pending[v]
    BY <2>0 DEF TypeInv, TaskInv
  <2>3. /\ stage' \in [Workers -> Stages]
        /\ \A v \in Workers : stage'[v] = IF v = w THEN s ELSE stage[v]
    BY <2>1 DEF TypeInv, TaskInv, Stages
  <2>4. QED
    BY <2>0, <2>2, <2>3 DEF TypeInv, TaskInv
<1>25. ASSUME NEW w \in Workers, CloseTimesOut(w) \/ BusClose(w) PROVE TaskInv'
  <2>1. /\ \E s \in {"closed", "failed", "abandoned"} : stage' = [stage EXCEPT ![w] = s]
        /\ stage[w] # "open"
        /\ UNCHANGED <<enqueued, unhealthy, pending, pc, hold, completed>>
    BY <1>25 DEF CloseTimesOut, BusClose, taskVars, brokerVars
  <2>2. /\ stage' \in [Workers -> Stages]
        /\ \A v \in Workers : stage'[v] # "open" => stage[v] # "open"
    BY <2>1 DEF TypeInv, TaskInv, Stages
  <2>3. QED
    BY <2>1, <2>2 DEF TypeInv, TaskInv
<1>26. ASSUME NEW w \in Workers, ChannelLost(w) PROVE TaskInv'
  BY <1>26, TasksRest DEF ChannelLost, TypeInv, TaskInv, workerVars, taskVars, ReportError
<1>27. ASSUME NEW w \in Workers, Crash(w) PROVE TaskInv'
  <2>1. Reset(w) /\ UNCHANGED <<stage, enqueued, unhealthy>>
    BY <1>27 DEF Crash, Reset
  <2>2. unhealthy' \in [Workers -> BOOLEAN]
    BY <2>1 DEF TypeInv, TaskInv
  <2>3. QED
    BY <2>1, <2>2, ResetKeeps DEF TypeInv
<1>28. CASE UNCHANGED vars
  BY <1>28, TasksRest DEF vars, brokerVars, workerVars, taskVars, TypeInv, TaskInv
<1>29. QED
  BY <1>1, <1>2, <1>3, <1>4, <1>5, <1>6, <1>7, <1>8, <1>9, <1>10, <1>11, <1>12, <1>13, <1>14, <1>15, <1>16, <1>17, <1>18, <1>19, <1>20, <1>21, <1>22, <1>23, <1>24, <1>25, <1>26, <1>27, <1>28
  DEF Next, Process, Shutdown

\* The counters and the histories only grow.
CountersGrow ==
  /\ faults' \in Nat /\ retries' \in Nat /\ closes' \in Nat
  /\ faults <= faults' /\ retries <= retries'
  /\ enqueued \subseteq enqueued' /\ gone \subseteq gone'

LEMMA StepCounters ==
  ASSUME TypeInv, [Next]_vars
  PROVE  CountersGrow
<1>1. ASSUME NEW j \in Jobs, Enqueue(j) PROVE CountersGrow
  BY <1>1 DEF Enqueue, CountersGrow, TypeInv, bounds, brokerVars
<1>2. ASSUME RetryDue PROVE CountersGrow
  BY <1>2 DEF RetryDue, CountersGrow, TypeInv, bounds, brokerVars
<1>3. ASSUME NEW w \in Workers, Deliver(w) PROVE CountersGrow
  BY <1>3 DEF Deliver, CountersGrow, TypeInv, bounds, brokerVars
<1>4. ASSUME NEW t \in Tasks, RunHandler(t) PROVE CountersGrow
  BY <1>4 DEF RunHandler, CountersGrow, TypeInv, bounds, brokerVars
<1>5. ASSUME NEW t \in Tasks, Undecodable(t) PROVE CountersGrow
  BY <1>5 DEF Undecodable, CountersGrow, TypeInv, bounds, brokerVars
<1>6. ASSUME NEW t \in Tasks, ContextAck(t) PROVE CountersGrow
  BY <1>6 DEF ContextAck, CountersGrow, TypeInv, bounds, brokerVars, Conclude
<1>7. ASSUME NEW t \in Tasks, ContextRetry(t) PROVE CountersGrow
  BY <1>7 DEF ContextRetry, CountersGrow, TypeInv, bounds, brokerVars
<1>8. ASSUME NEW t \in Tasks, ContextDeadLetter(t) PROVE CountersGrow
  BY <1>8 DEF ContextDeadLetter, CountersGrow, TypeInv, bounds, brokerVars
<1>9. ASSUME NEW t \in Tasks, ContextSettles(t) PROVE CountersGrow
  BY <1>9 DEF ContextSettles, CountersGrow, TypeInv, bounds, brokerVars
<1>10. ASSUME NEW t \in Tasks, HandlerReturns(t) PROVE CountersGrow
  BY <1>10 DEF HandlerReturns, CountersGrow, TypeInv, bounds, brokerVars
<1>11. ASSUME NEW t \in Tasks, HandlerThrows(t) PROVE CountersGrow
  BY <1>11 DEF HandlerThrows, CountersGrow, TypeInv, bounds, brokerVars
<1>12. ASSUME NEW t \in Tasks, HandlerThrowsLate(t) PROVE CountersGrow
  BY <1>12 DEF HandlerThrowsLate, CountersGrow, TypeInv, bounds, brokerVars, Fault
<1>13. ASSUME NEW t \in Tasks, Ack(t) PROVE CountersGrow
  BY <1>13 DEF Ack, CountersGrow, TypeInv, bounds, brokerVars, Conclude
<1>14. ASSUME NEW t \in Tasks, AckThrows(t) PROVE CountersGrow
  BY <1>14 DEF AckThrows, CountersGrow, TypeInv, bounds, brokerVars, Fault, CallFails
<1>15. ASSUME NEW t \in Tasks, PublishRetry(t) PROVE CountersGrow
  BY <1>15 DEF PublishRetry, CountersGrow, TypeInv, bounds, brokerVars
<1>16. ASSUME NEW t \in Tasks, PublishDeadLetter(t) PROVE CountersGrow
  BY <1>16 DEF PublishDeadLetter, CountersGrow, TypeInv, bounds, brokerVars
<1>17. ASSUME NEW t \in Tasks, PublishThrows(t) PROVE CountersGrow
  BY <1>17 DEF PublishThrows, CountersGrow, TypeInv, bounds, brokerVars, Fault, CallFails
<1>18. ASSUME NEW t \in Tasks, SettleDelivery(t) PROVE CountersGrow
  BY <1>18 DEF SettleDelivery, CountersGrow, TypeInv, bounds, brokerVars
<1>19. ASSUME NEW t \in Tasks, Reject(t) PROVE CountersGrow
  BY <1>19 DEF Reject, CountersGrow, TypeInv, bounds, brokerVars, Conclude
<1>20. ASSUME NEW t \in Tasks, SettleThrows(t) PROVE CountersGrow
  BY <1>20 DEF SettleThrows, CountersGrow, TypeInv, bounds, brokerVars, Fault, CallFails
<1>21. ASSUME NEW w \in Workers, CloseEnds(w) PROVE CountersGrow
  BY <1>21 DEF CloseEnds, CountersGrow, TypeInv, bounds, brokerVars
<1>22. ASSUME NEW w \in Workers, AdapterCloses(w) PROVE CountersGrow
  BY <1>22 DEF AdapterCloses, CountersGrow, TypeInv, bounds, brokerVars
<1>23. ASSUME NEW w \in Workers, Replace(w) PROVE CountersGrow
  BY <1>23 DEF Replace, CountersGrow, TypeInv, bounds, brokerVars
<1>24. ASSUME NEW w \in Workers, CloseStart(w) PROVE CountersGrow
  BY <1>24 DEF CloseStart, CountersGrow, TypeInv, bounds, brokerVars
<1>25. ASSUME NEW w \in Workers, CloseTimesOut(w) \/ BusClose(w) PROVE CountersGrow
  BY <1>25 DEF CloseTimesOut, BusClose, CountersGrow, TypeInv, bounds, brokerVars, Fault
<1>26. ASSUME NEW w \in Workers, ChannelLost(w) PROVE CountersGrow
  BY <1>26 DEF ChannelLost, CountersGrow, TypeInv, bounds, brokerVars, Fault
<1>27. ASSUME NEW w \in Workers, Crash(w) PROVE CountersGrow
  BY <1>27 DEF Crash, CountersGrow, TypeInv, bounds, brokerVars, Fault
<1>28. CASE UNCHANGED vars
  BY <1>28 DEF vars, bounds, brokerVars, CountersGrow, TypeInv
<1>29. QED
  BY <1>1, <1>2, <1>3, <1>4, <1>5, <1>6, <1>7, <1>8, <1>9, <1>10, <1>11, <1>12, <1>13, <1>14, <1>15, <1>16, <1>17, <1>18, <1>19, <1>20, <1>21, <1>22, <1>23, <1>24, <1>25, <1>26, <1>27, <1>28
  DEF Next, Process, Shutdown

LEMMA InitTypes == Init => TypeInv
<1> SUFFICES ASSUME Init PROVE TypeInv
  OBVIOUS
<1>1. IsFiniteSet({}) /\ Cardinality({}) <= Prefetch
  BY FS_EmptySet, RabbitMqAssumption
<1>2. BrokerInv
  BY <1>1 DEF Init, BrokerInv
<1>3. TaskInv
  BY CopyFacts DEF Init, TaskInv, Pc, Stages
<1>4. QED
  BY <1>2, <1>3 DEF Init, TypeInv

LEMMA StepTypes == TypeInv /\ [Next]_vars => TypeInv'
BY StepBroker, StepTasks, StepCounters DEF TypeInv, CountersGrow

LEMMA TypeInvariant == Spec => []TypeInv
BY InitTypes, StepTypes, PTL DEF Spec

\* No copy is in two places of the broker, every copy and every delivery in the hands
\* of a worker is of an enqueued job, a task is free exactly when it holds no delivery,
\* and deliveries wait only behind busy tasks (_drain, rabbitmq_message_bus.dart).
THEOREM TypeCorrect == Spec => []TypeOK
<1>1. TypeInv => TypeOK
  BY DEF TypeInv, BrokerInv, TaskInv, TypeOK
<1>2. QED
  BY <1>1, TypeInvariant, PTL

--------------------------------------------------------------------------------
(* No job vanishes. *)

AllLive == ready \cup delayed \cup UNION {unacked[w] : w \in Workers}

Counted(t) == pc[t] \in {"settle", "ctxAck"}

\* What is published has a follower: the copy that was stored, its followers, or the
\* job's fate.  The delivery it came from may be acked.
Followed(t) ==
  \/ hold[t].job \in gone
  \/ \E c \in AllLive : c.job = hold[t].job /\ c.attempt > hold[t].attempt

KeptInv ==
  /\ \A t \in Tasks : Counted(t) => Followed(t)
  /\ \A j \in enqueued : (\E c \in AllLive : c.job = j) \/ j \in gone

LEMMA LiveSame ==
  ASSUME UNCHANGED <<ready, delayed, unacked>>
  PROVE  AllLive' = AllLive
BY DEF AllLive

LEMMA LivePublished ==
  ASSUME NEW n, Published(n), UNCHANGED unacked
  PROVE  AllLive' = AllLive \cup {n}
BY DEF AllLive, Published

LEMMA LiveTakenBack ==
  ASSUME BrokerInv, NEW w \in Workers, NEW back \in SUBSET unacked[w],
         ready' = ready \cup back, unacked' = [unacked EXCEPT ![w] = @ \ back],
         UNCHANGED delayed
  PROVE  AllLive' = AllLive
<1>1. \A v \in Workers : unacked'[v] = IF v = w THEN unacked[w] \ back ELSE unacked[v]
  BY DEF BrokerInv
<1>2. QED
  BY <1>1 DEF AllLive

LEMMA LiveChannelGone ==
  ASSUME BrokerInv, NEW w \in Workers,
         ready' = ready \cup unacked[w], unacked' = [unacked EXCEPT ![w] = {}],
         UNCHANGED delayed
  PROVE  AllLive' = AllLive
<1>1. \A v \in Workers : unacked'[v] = IF v = w THEN {} ELSE unacked[v]
  BY DEF BrokerInv
<1>2. QED
  BY <1>1 DEF AllLive

LEMMA LiveSettled ==
  ASSUME BrokerInv, NEW w \in Workers, NEW c, Settle(w, c), UNCHANGED delayed
  PROVE  AllLive' = IF c \in unacked[w] THEN AllLive \ {c} ELSE AllLive
<1>1. CASE c \notin unacked[w] /\ link[w]
  BY <1>1, LiveChannelGone DEF Settle, ChannelGone
<1>2. CASE ~(c \notin unacked[w] /\ link[w])
  <2>1. UNCHANGED ready /\ \A v \in Workers : unacked'[v] = IF v = w THEN unacked[w] \ {c} ELSE unacked[v]
    BY <1>2 DEF Settle, BrokerInv
  <2>2. c \in unacked[w] => /\ c \notin ready \cup delayed
                            /\ \A v \in Workers \ {w} : c \notin unacked[v]
    BY DEF BrokerInv
  <2>3. QED
    BY <2>1, <2>2 DEF AllLive
<1>3. QED
  BY <1>1, <1>2

LEMMA LiveDelivered ==
  ASSUME BrokerInv, NEW w \in Workers, Deliver(w)
  PROVE  AllLive' = AllLive
<1>1. PICK c \in ready : ready' = ready \ {c} /\ unacked' = [unacked EXCEPT ![w] = @ \cup {c}]
  BY DEF Deliver
<1>2. \A v \in Workers : unacked'[v] = IF v = w THEN unacked[w] \cup {c} ELSE unacked[v]
  BY <1>1 DEF BrokerInv
<1>3. UNCHANGED delayed
  BY DEF Deliver
<1>4. QED
  BY <1>1, <1>2, <1>3 DEF AllLive

LEMMA LiveGivenBack ==
  ASSUME BrokerInv, NEW w \in Workers, CloseStart(w)
  PROVE  AllLive' = AllLive
<1> DEFINE back == {pending[w][i] : i \in DOMAIN pending[w]} \cap unacked[w]
<1>1. /\ ready' = ready \cup back /\ unacked' = [unacked EXCEPT ![w] = @ \ back]
      /\ UNCHANGED delayed
  BY DEF CloseStart
<1>2. back \in SUBSET unacked[w]
  OBVIOUS
<1> HIDE DEF back
<1>3. QED
  BY <1>1, <1>2, LiveTakenBack

\* A step loses no copy but one that is acked behind its follower or with its fate.
NoneLost ==
  \/ AllLive \subseteq AllLive'
  \/ \E t \in Tasks : /\ hold[t] \in Copy /\ AllLive \ {hold[t]} \subseteq AllLive'
                      /\ Counted(t) \/ hold[t].job \in gone'

LEMMA StepLosesNone ==
  ASSUME TypeInv, [Next]_vars
  PROVE  NoneLost
<1>1. ASSUME NEW j \in Jobs, Enqueue(j) PROVE NoneLost
  BY <1>1 DEF Enqueue, NoneLost, AllLive
<1>2. ASSUME RetryDue PROVE NoneLost
  BY <1>2 DEF RetryDue, NoneLost, AllLive
<1>3. ASSUME NEW w \in Workers, Deliver(w) PROVE NoneLost
  BY <1>3, LiveDelivered DEF NoneLost, TypeInv
<1>4. ASSUME NEW t \in Tasks, RunHandler(t) PROVE NoneLost
  BY <1>4, LiveSame DEF RunHandler, NoneLost, brokerVars
<1>5. ASSUME NEW t \in Tasks, Undecodable(t) PROVE NoneLost
  BY <1>5, LiveSame DEF Undecodable, NoneLost, brokerVars
<1>6. ASSUME NEW t \in Tasks, ContextAck(t) PROVE NoneLost
  <2>1. /\ pc[t] # "free" /\ Settle(t[1], hold[t]) /\ UNCHANGED delayed
        /\ hold[t] \in unacked[t[1]] => hold[t].job \in gone'
    BY <1>6 DEF ContextAck, Conclude
  <2>2. QED
    BY <2>1, HeldFacts, LiveSettled DEF NoneLost, TypeInv
<1>7. ASSUME NEW t \in Tasks, ContextRetry(t) PROVE NoneLost
  <2>1. Published(NextCopy(hold[t])) /\ UNCHANGED unacked
    BY <1>7 DEF ContextRetry, Published
  <2>2. QED
    BY <2>1, LivePublished DEF NoneLost
<1>8. ASSUME NEW t \in Tasks, ContextDeadLetter(t) PROVE NoneLost
  BY <1>8, LiveSame DEF ContextDeadLetter, NoneLost, brokerVars
<1>9. ASSUME NEW t \in Tasks, ContextSettles(t) PROVE NoneLost
  <2>1. pc[t] # "free" /\ Settle(t[1], hold[t]) /\ UNCHANGED delayed /\ Counted(t)
    BY <1>9 DEF ContextSettles, Counted
  <2>2. QED
    BY <2>1, HeldFacts, LiveSettled DEF NoneLost, TypeInv
<1>10. ASSUME NEW t \in Tasks, HandlerReturns(t) PROVE NoneLost
  BY <1>10, LiveSame DEF HandlerReturns, NoneLost, brokerVars
<1>11. ASSUME NEW t \in Tasks, HandlerThrows(t) PROVE NoneLost
  BY <1>11, LiveSame DEF HandlerThrows, NoneLost, brokerVars
<1>12. ASSUME NEW t \in Tasks, HandlerThrowsLate(t) PROVE NoneLost
  BY <1>12, LiveSame DEF HandlerThrowsLate, NoneLost, brokerVars
<1>13. ASSUME NEW t \in Tasks, Ack(t) PROVE NoneLost
  <2>1. /\ pc[t] # "free" /\ Settle(t[1], hold[t]) /\ UNCHANGED delayed
        /\ hold[t] \in unacked[t[1]] => hold[t].job \in gone'
    BY <1>13 DEF Ack, Conclude
  <2>2. QED
    BY <2>1, HeldFacts, LiveSettled DEF NoneLost, TypeInv
<1>14. ASSUME NEW t \in Tasks, AckThrows(t) PROVE NoneLost
  BY <1>14, LiveSame DEF AckThrows, NoneLost, brokerVars
<1>15. ASSUME NEW t \in Tasks, PublishRetry(t) PROVE NoneLost
  <2>1. Published(NextCopy(hold[t])) /\ UNCHANGED unacked
    BY <1>15 DEF PublishRetry, Published
  <2>2. QED
    BY <2>1, LivePublished DEF NoneLost
<1>16. ASSUME NEW t \in Tasks, PublishDeadLetter(t) PROVE NoneLost
  BY <1>16, LiveSame DEF PublishDeadLetter, NoneLost, brokerVars
<1>17. ASSUME NEW t \in Tasks, PublishThrows(t) PROVE NoneLost
  <2>1. CASE UNCHANGED brokerVars
    BY <2>1, LiveSame DEF NoneLost, brokerVars
  <2>2. CASE Published(NextCopy(hold[t])) /\ UNCHANGED unacked
    BY <2>2, LivePublished DEF NoneLost
  <2>3. QED
    BY <1>17, <2>1, <2>2 DEF PublishThrows, Published
<1>18. ASSUME NEW t \in Tasks, SettleDelivery(t) PROVE NoneLost
  <2>1. pc[t] # "free" /\ Settle(t[1], hold[t]) /\ UNCHANGED delayed /\ Counted(t)
    BY <1>18 DEF SettleDelivery, Counted
  <2>2. QED
    BY <2>1, HeldFacts, LiveSettled DEF NoneLost, TypeInv
<1>19. ASSUME NEW t \in Tasks, Reject(t) PROVE NoneLost
  <2>1. /\ pc[t] # "free" /\ Settle(t[1], hold[t]) /\ UNCHANGED delayed
        /\ hold[t] \in unacked[t[1]] => hold[t].job \in gone'
    BY <1>19 DEF Reject, Conclude
  <2>2. QED
    BY <2>1, HeldFacts, LiveSettled DEF NoneLost, TypeInv
<1>20. ASSUME NEW t \in Tasks, SettleThrows(t) PROVE NoneLost
  BY <1>20, LiveSame DEF SettleThrows, NoneLost, brokerVars
<1>21. ASSUME NEW w \in Workers, CloseEnds(w) PROVE NoneLost
  BY <1>21, LiveSame DEF CloseEnds, NoneLost, brokerVars
<1>22. ASSUME NEW w \in Workers, AdapterCloses(w) PROVE NoneLost
  <2>1. /\ ready' = ready \cup unacked[w] /\ unacked' = [unacked EXCEPT ![w] = {}]
        /\ UNCHANGED delayed
    BY <1>22 DEF AdapterCloses, ChannelGone
  <2>2. QED
    BY <2>1, LiveChannelGone DEF NoneLost, TypeInv
<1>23. ASSUME NEW w \in Workers, Replace(w) PROVE NoneLost
  <2>1. /\ ready' = ready \cup unacked[w] /\ unacked' = [unacked EXCEPT ![w] = {}]
        /\ UNCHANGED delayed
    BY <1>23 DEF Replace, ChannelGone
  <2>2. QED
    BY <2>1, LiveChannelGone DEF NoneLost, TypeInv
<1>24. ASSUME NEW w \in Workers, CloseStart(w) PROVE NoneLost
  BY <1>24, LiveGivenBack DEF NoneLost, TypeInv
<1>25. ASSUME NEW w \in Workers, CloseTimesOut(w) \/ BusClose(w) PROVE NoneLost
  BY <1>25, LiveSame DEF CloseTimesOut, BusClose, NoneLost, brokerVars
<1>26. ASSUME NEW w \in Workers, ChannelLost(w) PROVE NoneLost
  <2>1. /\ ready' = ready \cup unacked[w] /\ unacked' = [unacked EXCEPT ![w] = {}]
        /\ UNCHANGED delayed
    BY <1>26 DEF ChannelLost, ChannelGone
  <2>2. QED
    BY <2>1, LiveChannelGone DEF NoneLost, TypeInv
<1>27. ASSUME NEW w \in Workers, Crash(w) PROVE NoneLost
  <2>1. /\ ready' = ready \cup unacked[w] /\ unacked' = [unacked EXCEPT ![w] = {}]
        /\ UNCHANGED delayed
    BY <1>27 DEF Crash, ChannelGone
  <2>2. QED
    BY <2>1, LiveChannelGone DEF NoneLost, TypeInv
<1>28. CASE UNCHANGED vars
  BY <1>28, LiveSame DEF vars, brokerVars, NoneLost
<1>29. QED
  BY <1>1, <1>2, <1>3, <1>4, <1>5, <1>6, <1>7, <1>8, <1>9, <1>10, <1>11, <1>12, <1>13, <1>14, <1>15, <1>16, <1>17, <1>18, <1>19, <1>20, <1>21, <1>22, <1>23, <1>24, <1>25, <1>26, <1>27, <1>28
  DEF Next, Process, Shutdown

\* A task whose job is published or buried has not been so before, or is as it was.
CountedStep ==
  \A t \in Tasks :
    Counted(t)' =>
      \/ Counted(t) /\ hold'[t] = hold[t]
      \/ /\ pc[t] # "free" /\ hold'[t] = hold[t]
         /\ hold[t].job \in gone' \/ AllLive' = AllLive \cup {NextCopy(hold[t])}

LEMMA StepCounted ==
  ASSUME TypeInv, [Next]_vars
  PROVE  CountedStep
<1>1. ASSUME NEW j \in Jobs, Enqueue(j) PROVE CountedStep
  BY <1>1 DEF Enqueue, CountedStep, Counted, taskVars
<1>2. ASSUME RetryDue PROVE CountedStep
  BY <1>2 DEF RetryDue, CountedStep, Counted, taskVars
<1>3. ASSUME NEW w \in Workers, Deliver(w) PROVE CountedStep
  <2>1. \/ UNCHANGED <<pc, hold>>
        \/ \E t \in TasksOf(w), d \in ready : /\ pc[t] = "free" /\ pc' = [pc EXCEPT ![t] = "decode"]
                                           /\ hold' = [hold EXCEPT ![t] = d]
    BY <1>3 DEF Deliver
  <2>2. QED
    BY <2>1, TaskFacts DEF CountedStep, Counted, TypeInv, TaskInv
<1>4. ASSUME NEW t \in Tasks, RunHandler(t) PROVE CountedStep
  BY <1>4 DEF RunHandler, GoTo, CountedStep, Counted, TypeInv, TaskInv
<1>5. ASSUME NEW t \in Tasks, Undecodable(t) PROVE CountedStep
  BY <1>5 DEF Undecodable, GoTo, CountedStep, Counted, TypeInv, TaskInv, LastStep
<1>6. ASSUME NEW t \in Tasks, ContextAck(t) PROVE CountedStep
  BY <1>6 DEF ContextAck, CountedStep, Counted, taskVars
<1>7. ASSUME NEW t \in Tasks, ContextRetry(t) PROVE CountedStep
  <2>1. Published(NextCopy(hold[t])) /\ UNCHANGED unacked
    BY <1>7 DEF ContextRetry, Published
  <2>2. AllLive' = AllLive \cup {NextCopy(hold[t])}
    BY <2>1, LivePublished
  <2>3. QED
    BY <1>7, <2>2 DEF ContextRetry, GoTo, CountedStep, Counted, TypeInv, TaskInv
<1>8. ASSUME NEW t \in Tasks, ContextDeadLetter(t) PROVE CountedStep
  BY <1>8 DEF ContextDeadLetter, GoTo, CountedStep, Counted, TypeInv, TaskInv
<1>9. ASSUME NEW t \in Tasks, ContextSettles(t) PROVE CountedStep
  BY <1>9 DEF ContextSettles, GoTo, CountedStep, Counted, TypeInv, TaskInv
<1>10. ASSUME NEW t \in Tasks, HandlerReturns(t) PROVE CountedStep
  <2>1. CASE TaskEnds(t)
    <3>1. Ended(t)
      BY <2>1, TaskEndsFacts DEF TypeInv
    <3>2. QED
      BY <3>1 DEF Ended, CountedStep, Counted
  <2>2. CASE GoTo(t, "ack")
    BY <2>2 DEF GoTo, CountedStep, Counted, TypeInv, TaskInv
  <2>3. QED
    BY <1>10, <2>1, <2>2 DEF HandlerReturns
<1>11. ASSUME NEW t \in Tasks, HandlerThrows(t) PROVE CountedStep
  BY <1>11 DEF HandlerThrows, GoTo, FailureSteps, LastStep, CountedStep, Counted, TypeInv, TaskInv
<1>12. ASSUME NEW t \in Tasks, HandlerThrowsLate(t) PROVE CountedStep
  BY <1>12 DEF HandlerThrowsLate, GoTo, FailureSteps, LastStep, CountedStep, Counted, TypeInv, TaskInv
<1>13. ASSUME NEW t \in Tasks, Ack(t) PROVE CountedStep
  <2>1. Ended(t)
    BY <1>13, TaskEndsFacts DEF Ack, TypeInv
  <2>2. QED
    BY <2>1 DEF Ended, CountedStep, Counted
<1>14. ASSUME NEW t \in Tasks, AckThrows(t) PROVE CountedStep
  BY <1>14 DEF AckThrows, GoTo, FailureSteps, LastStep, CountedStep, Counted, TypeInv, TaskInv
<1>15. ASSUME NEW t \in Tasks, PublishRetry(t) PROVE CountedStep
  <2>1. Published(NextCopy(hold[t])) /\ UNCHANGED unacked
    BY <1>15 DEF PublishRetry, Published
  <2>2. AllLive' = AllLive \cup {NextCopy(hold[t])}
    BY <2>1, LivePublished
  <2>3. QED
    BY <1>15, <2>2 DEF PublishRetry, GoTo, CountedStep, Counted, TypeInv, TaskInv
<1>16. ASSUME NEW t \in Tasks, PublishDeadLetter(t) PROVE CountedStep
  BY <1>16 DEF PublishDeadLetter, GoTo, CountedStep, Counted, TypeInv, TaskInv
<1>17. ASSUME NEW t \in Tasks, PublishThrows(t) PROVE CountedStep
  <2>1. Ended(t)
    BY <1>17, TaskEndsFacts DEF PublishThrows, TypeInv
  <2>2. QED
    BY <2>1 DEF Ended, CountedStep, Counted
<1>18. ASSUME NEW t \in Tasks, SettleDelivery(t) PROVE CountedStep
  <2>1. Ended(t)
    BY <1>18, TaskEndsFacts DEF SettleDelivery, TypeInv
  <2>2. QED
    BY <2>1 DEF Ended, CountedStep, Counted
<1>19. ASSUME NEW t \in Tasks, Reject(t) PROVE CountedStep
  <2>1. Ended(t)
    BY <1>19, TaskEndsFacts DEF Reject, TypeInv
  <2>2. QED
    BY <2>1 DEF Ended, CountedStep, Counted
<1>20. ASSUME NEW t \in Tasks, SettleThrows(t) PROVE CountedStep
  <2>1. Ended(t)
    BY <1>20, TaskEndsFacts DEF SettleThrows, TypeInv
  <2>2. QED
    BY <2>1 DEF Ended, CountedStep, Counted
<1>21. ASSUME NEW w \in Workers, CloseEnds(w) PROVE CountedStep
  BY <1>21 DEF CloseEnds, CountedStep, Counted, taskVars
<1>22. ASSUME NEW w \in Workers, AdapterCloses(w) PROVE CountedStep
  BY <1>22 DEF AdapterCloses, CountedStep, Counted, taskVars
<1>23. ASSUME NEW w \in Workers, Replace(w) PROVE CountedStep
  BY <1>23 DEF Replace, CountedStep, Counted
<1>24. ASSUME NEW w \in Workers, CloseStart(w) PROVE CountedStep
  BY <1>24 DEF CloseStart, CountedStep, Counted, taskVars
<1>25. ASSUME NEW w \in Workers, CloseTimesOut(w) \/ BusClose(w) PROVE CountedStep
  BY <1>25 DEF CloseTimesOut, BusClose, CountedStep, Counted, taskVars
<1>26. ASSUME NEW w \in Workers, ChannelLost(w) PROVE CountedStep
  BY <1>26 DEF ChannelLost, CountedStep, Counted, taskVars
<1>27. ASSUME NEW w \in Workers, Crash(w) PROVE CountedStep
  BY <1>27 DEF Crash, CountedStep, Counted
<1>28. CASE UNCHANGED vars
  BY <1>28 DEF vars, taskVars, CountedStep, Counted
<1>29. QED
  BY <1>1, <1>2, <1>3, <1>4, <1>5, <1>6, <1>7, <1>8, <1>9, <1>10, <1>11, <1>12, <1>13, <1>14, <1>15, <1>16, <1>17, <1>18, <1>19, <1>20, <1>21, <1>22, <1>23, <1>24, <1>25, <1>26, <1>27, <1>28
  DEF Next, Process, Shutdown

LEMMA StepEnqueued ==
  ASSUME TypeInv, [Next]_vars, NEW j \in enqueued', j \notin enqueued
  PROVE  \E c \in AllLive' : c.job = j
<1>1. ASSUME NEW i \in Jobs, Enqueue(i) PROVE \E c \in AllLive' : c.job = j
  <2>1. i = j
    BY <1>1 DEF Enqueue
  <2>2. [job |-> j, attempt |-> 1, copy |-> 1] \in AllLive'
    BY <1>1, <2>1 DEF Enqueue, AllLive
  <2>3. QED
    BY <2>2
<1>2. CASE UNCHANGED enqueued
  BY <1>2
<1>3. QED
  BY <1>1, <1>2 DEF Next, vars, brokerVars, Process, Shutdown,
       RetryDue, Deliver, RunHandler, Undecodable, ContextAck, ContextRetry,
       ContextDeadLetter, ContextSettles, HandlerReturns, HandlerThrows, HandlerThrowsLate,
       Ack, AckThrows, PublishRetry, PublishDeadLetter, PublishThrows, SettleDelivery, Reject,
       SettleThrows, CloseEnds, AdapterCloses, Replace, CloseStart, CloseTimesOut, BusClose,
       ChannelLost, Crash

LEMMA LiveIsCopy ==
  ASSUME TypeInv
  PROVE  AllLive \subseteq Copy
BY DEF AllLive, TypeInv, BrokerInv

LEMMA LiveIsCopyAfter ==
  ASSUME TypeInv'
  PROVE  AllLive' \subseteq Copy
BY DEF AllLive, TypeInv, BrokerInv

LEMMA InitKept == Init => KeptInv
BY DEF Init, KeptInv, Counted

LEMMA StepKept ==
  ASSUME TypeInv, KeptInv, [Next]_vars
  PROVE  KeptInv'
<1> USE DEF KeptInv
<1>0. TypeInv' /\ NoneLost /\ CountedStep /\ gone \subseteq gone'
  BY StepTypes, StepLosesNone, StepCounted, StepCounters DEF CountersGrow
<1>1. ASSUME NEW c \in AllLive
      PROVE  \/ c.job \in gone'
             \/ \E d \in AllLive' : d.job = c.job /\ d.attempt >= c.attempt
  <2>1. c \in Copy /\ c.attempt \in Nat
    BY LiveIsCopy, CopyFacts
  <2>2. CASE c \in AllLive'
    BY <2>1, <2>2
  <2>3. CASE c \notin AllLive'
    <3>1. PICK t \in Tasks : /\ hold[t] = c /\ AllLive \ {c} \subseteq AllLive'
                             /\ Counted(t) \/ c.job \in gone'
      BY <1>0, <2>3 DEF NoneLost
    <3>2. CASE c.job \in gone'
      BY <3>2
    <3>3. CASE Counted(t)
      <4>1. Followed(t)
        BY <3>3
      <4>2. CASE \E d \in AllLive : d.job = c.job /\ d.attempt > c.attempt
        <5>1. PICK d \in AllLive : d.job = c.job /\ d.attempt > c.attempt
          BY <4>2
        <5>2. d.attempt \in Nat
          BY LiveIsCopy, CopyFacts
        <5>3. d # c /\ d.attempt >= c.attempt
          BY <2>1, <5>1, <5>2
        <5>4. QED
          BY <3>1, <5>1, <5>3
      <4>3. QED
        BY <1>0, <3>1, <4>1, <4>2 DEF Followed
    <3>4. QED
      BY <3>1, <3>2, <3>3
  <2>4. QED
    BY <2>2, <2>3
<1>2. ASSUME NEW t \in Tasks, Counted(t)'
      PROVE  Followed(t)'
  <2>1. CASE Counted(t) /\ hold'[t] = hold[t]
    <3>1. Followed(t)
      BY <2>1
    <3>2. CASE hold[t].job \in gone
      BY <1>0, <2>1, <3>2 DEF Followed
    <3>3. CASE \E c \in AllLive : c.job = hold[t].job /\ c.attempt > hold[t].attempt
      <4>1. PICK c \in AllLive : c.job = hold[t].job /\ c.attempt > hold[t].attempt
        BY <3>3
      <4>2. CASE c.job \in gone'
        BY <2>1, <4>1, <4>2 DEF Followed
      <4>3. CASE \E d \in AllLive' : d.job = c.job /\ d.attempt >= c.attempt
        <5>1. PICK d \in AllLive' : d.job = c.job /\ d.attempt >= c.attempt
          BY <4>3
        <5>2. c.attempt \in Nat
          BY LiveIsCopy, CopyFacts
        <5>3. d.attempt \in Nat
          BY <1>0, LiveIsCopyAfter, CopyFacts
        <5>4. hold[t].attempt \in Nat
          BY <2>1, HeldFacts, CopyFacts DEF Counted
        <5>5. d.job = hold'[t].job /\ d.attempt > hold'[t].attempt
          BY <2>1, <4>1, <5>1, <5>2, <5>3, <5>4
        <5>6. QED
          BY <5>5 DEF Followed
      <4>4. QED
        BY <1>1, <4>2, <4>3
    <3>4. QED
      BY <3>1, <3>2, <3>3 DEF Followed
  <2>2. CASE /\ pc[t] # "free" /\ hold'[t] = hold[t]
             /\ hold[t].job \in gone' \/ AllLive' = AllLive \cup {NextCopy(hold[t])}
    <3>1. hold[t] \in Copy
      BY <2>2, HeldFacts
    <3>2. /\ NextCopy(hold[t]).job = hold[t].job
          /\ NextCopy(hold[t]).attempt > hold[t].attempt
      BY <3>1, NextCopyIsNew, CopyFacts
    <3>3. QED
      BY <2>2, <3>2 DEF Followed
  <2>3. QED
    BY <1>0, <1>2, <2>1, <2>2 DEF CountedStep
<1>3. ASSUME NEW j \in enqueued'
      PROVE  (\E c \in AllLive' : c.job = j) \/ j \in gone'
  <2>1. CASE j \notin enqueued
    BY <2>1, StepEnqueued
  <2>2. CASE j \in enqueued
    BY <1>0, <1>1, <2>2
  <2>3. QED
    BY <2>1, <2>2
<1>4. QED
  BY <1>2, <1>3

--------------------------------------------------------------------------------
(* Attempts stay within the policy. *)

\* The copies that are queued or in hand at a worker.
AllHeld ==
  {hold[t] : t \in {u \in Tasks : pc[u] # "free"}}
    \cup UNION {{pending[w][i] : i \in DOMAIN pending[w]} : w \in Workers}

AttemptsInv ==
  /\ \A c \in AllLive \cup AllHeld : c.attempt <= MaxAttempts + retries
  /\ \A t \in Tasks : pc[t] = "retry" => hold[t].attempt < MaxAttempts

\* A copy in the broker was there before, is the first of its job, or is the next of
\* a delivery whose task had an attempt left or whose handler asked for it.
CopiesStep ==
  \A c \in AllLive' :
    \/ c \in AllLive
    \/ c.attempt = 1 /\ c.job \notin enqueued
    \/ \E t \in Tasks : /\ pc[t] # "free" /\ c = NextCopy(hold[t])
                        /\ pc[t] = "retry" \/ retries' = retries + 1

LEMMA StepCopies ==
  ASSUME TypeInv, [Next]_vars
  PROVE  CopiesStep
<1>1. ASSUME NEW j \in Jobs, Enqueue(j) PROVE CopiesStep
  BY <1>1 DEF Enqueue, CopiesStep, AllLive
<1>2. ASSUME RetryDue PROVE CopiesStep
  BY <1>2 DEF RetryDue, CopiesStep, AllLive
<1>3. ASSUME NEW w \in Workers, Deliver(w) PROVE CopiesStep
  BY <1>3, LiveDelivered DEF CopiesStep, TypeInv
<1>4. ASSUME NEW t \in Tasks, RunHandler(t) PROVE CopiesStep
  BY <1>4, LiveSame DEF RunHandler, CopiesStep, brokerVars
<1>5. ASSUME NEW t \in Tasks, Undecodable(t) PROVE CopiesStep
  BY <1>5, LiveSame DEF Undecodable, CopiesStep, brokerVars
<1>6. ASSUME NEW t \in Tasks, ContextAck(t) PROVE CopiesStep
  <2>1. Settle(t[1], hold[t]) /\ UNCHANGED delayed
    BY <1>6 DEF ContextAck, Conclude
  <2>2. QED
    BY <2>1, TaskFacts, LiveSettled DEF CopiesStep, TypeInv
<1>7. ASSUME NEW t \in Tasks, ContextRetry(t) PROVE CopiesStep
  <2>1. Published(NextCopy(hold[t])) /\ UNCHANGED unacked
    BY <1>7 DEF ContextRetry, Published
  <2>2. QED
    BY <1>7, <2>1, LivePublished DEF ContextRetry, CopiesStep
<1>8. ASSUME NEW t \in Tasks, ContextDeadLetter(t) PROVE CopiesStep
  BY <1>8, LiveSame DEF ContextDeadLetter, CopiesStep, brokerVars
<1>9. ASSUME NEW t \in Tasks, ContextSettles(t) PROVE CopiesStep
  <2>1. Settle(t[1], hold[t]) /\ UNCHANGED delayed
    BY <1>9 DEF ContextSettles, Conclude
  <2>2. QED
    BY <2>1, TaskFacts, LiveSettled DEF CopiesStep, TypeInv
<1>10. ASSUME NEW t \in Tasks, HandlerReturns(t) PROVE CopiesStep
  BY <1>10, LiveSame DEF HandlerReturns, CopiesStep, brokerVars
<1>11. ASSUME NEW t \in Tasks, HandlerThrows(t) PROVE CopiesStep
  BY <1>11, LiveSame DEF HandlerThrows, CopiesStep, brokerVars
<1>12. ASSUME NEW t \in Tasks, HandlerThrowsLate(t) PROVE CopiesStep
  BY <1>12, LiveSame DEF HandlerThrowsLate, CopiesStep, brokerVars
<1>13. ASSUME NEW t \in Tasks, Ack(t) PROVE CopiesStep
  <2>1. Settle(t[1], hold[t]) /\ UNCHANGED delayed
    BY <1>13 DEF Ack, Conclude
  <2>2. QED
    BY <2>1, TaskFacts, LiveSettled DEF CopiesStep, TypeInv
<1>14. ASSUME NEW t \in Tasks, AckThrows(t) PROVE CopiesStep
  BY <1>14, LiveSame DEF AckThrows, CopiesStep, brokerVars
<1>15. ASSUME NEW t \in Tasks, PublishRetry(t) PROVE CopiesStep
  <2>1. Published(NextCopy(hold[t])) /\ UNCHANGED unacked
    BY <1>15 DEF PublishRetry, Published
  <2>2. QED
    BY <1>15, <2>1, LivePublished DEF PublishRetry, CopiesStep
<1>16. ASSUME NEW t \in Tasks, PublishDeadLetter(t) PROVE CopiesStep
  BY <1>16, LiveSame DEF PublishDeadLetter, CopiesStep, brokerVars
<1>17. ASSUME NEW t \in Tasks, PublishThrows(t) PROVE CopiesStep
  <2>1. CASE UNCHANGED brokerVars
    BY <2>1, LiveSame DEF CopiesStep, brokerVars
  <2>2. CASE pc[t] = "retry" /\ Published(NextCopy(hold[t])) /\ UNCHANGED unacked
    BY <2>2, LivePublished DEF CopiesStep
  <2>3. QED
    BY <1>17, <2>1, <2>2 DEF PublishThrows, Published
<1>18. ASSUME NEW t \in Tasks, SettleDelivery(t) PROVE CopiesStep
  <2>1. Settle(t[1], hold[t]) /\ UNCHANGED delayed
    BY <1>18 DEF SettleDelivery, Conclude
  <2>2. QED
    BY <2>1, TaskFacts, LiveSettled DEF CopiesStep, TypeInv
<1>19. ASSUME NEW t \in Tasks, Reject(t) PROVE CopiesStep
  <2>1. Settle(t[1], hold[t]) /\ UNCHANGED delayed
    BY <1>19 DEF Reject, Conclude
  <2>2. QED
    BY <2>1, TaskFacts, LiveSettled DEF CopiesStep, TypeInv
<1>20. ASSUME NEW t \in Tasks, SettleThrows(t) PROVE CopiesStep
  BY <1>20, LiveSame DEF SettleThrows, CopiesStep, brokerVars
<1>21. ASSUME NEW w \in Workers, CloseEnds(w) PROVE CopiesStep
  BY <1>21, LiveSame DEF CloseEnds, CopiesStep, brokerVars
<1>22. ASSUME NEW w \in Workers, AdapterCloses(w) PROVE CopiesStep
  <2>1. /\ ready' = ready \cup unacked[w] /\ unacked' = [unacked EXCEPT ![w] = {}]
        /\ UNCHANGED delayed
    BY <1>22 DEF AdapterCloses, ChannelGone
  <2>2. QED
    BY <2>1, LiveChannelGone DEF CopiesStep, TypeInv
<1>23. ASSUME NEW w \in Workers, Replace(w) PROVE CopiesStep
  <2>1. /\ ready' = ready \cup unacked[w] /\ unacked' = [unacked EXCEPT ![w] = {}]
        /\ UNCHANGED delayed
    BY <1>23 DEF Replace, ChannelGone
  <2>2. QED
    BY <2>1, LiveChannelGone DEF CopiesStep, TypeInv
<1>24. ASSUME NEW w \in Workers, CloseStart(w) PROVE CopiesStep
  BY <1>24, LiveGivenBack DEF CopiesStep, TypeInv
<1>25. ASSUME NEW w \in Workers, CloseTimesOut(w) \/ BusClose(w) PROVE CopiesStep
  BY <1>25, LiveSame DEF CloseTimesOut, BusClose, CopiesStep, brokerVars
<1>26. ASSUME NEW w \in Workers, ChannelLost(w) PROVE CopiesStep
  <2>1. /\ ready' = ready \cup unacked[w] /\ unacked' = [unacked EXCEPT ![w] = {}]
        /\ UNCHANGED delayed
    BY <1>26 DEF ChannelLost, ChannelGone
  <2>2. QED
    BY <2>1, LiveChannelGone DEF CopiesStep, TypeInv
<1>27. ASSUME NEW w \in Workers, Crash(w) PROVE CopiesStep
  <2>1. /\ ready' = ready \cup unacked[w] /\ unacked' = [unacked EXCEPT ![w] = {}]
        /\ UNCHANGED delayed
    BY <1>27 DEF Crash, ChannelGone
  <2>2. QED
    BY <2>1, LiveChannelGone DEF CopiesStep, TypeInv
<1>28. CASE UNCHANGED vars
  BY <1>28, LiveSame DEF vars, brokerVars, CopiesStep
<1>29. QED
  BY <1>1, <1>2, <1>3, <1>4, <1>5, <1>6, <1>7, <1>8, <1>9, <1>10, <1>11, <1>12, <1>13, <1>14, <1>15, <1>16, <1>17, <1>18, <1>19, <1>20, <1>21, <1>22, <1>23, <1>24, <1>25, <1>26, <1>27, <1>28
  DEF Next, Process, Shutdown

\* What a worker holds it held before, or got from the broker; and a task is about to
\* publish a retry only if the policy has an attempt left.
HeldStep ==
  /\ AllHeld' \subseteq AllHeld \cup AllLive
  /\ \A t \in Tasks :
       pc'[t] = "retry" =>
         /\ pc[t] # "free" /\ hold'[t] = hold[t]
         /\ pc[t] = "retry" \/ hold[t].attempt < MaxAttempts

LEMMA HeldSame ==
  ASSUME UNCHANGED <<pending, pc, hold>>
  PROVE  HeldStep
BY DEF HeldStep, AllHeld

LEMMA HeldGoTo ==
  ASSUME TypeInv, NEW t \in Tasks, pc[t] # "free", NEW step \in Pc, GoTo(t, step),
         step = "retry" => hold[t].attempt < MaxAttempts
  PROVE  HeldStep
<1>1. /\ pending' = pending /\ hold' = hold
      /\ \A u \in Tasks : pc'[u] = IF u = t THEN step ELSE pc[u]
  BY DEF GoTo, TypeInv, TaskInv
<1>2. QED
  BY <1>1 DEF HeldStep, AllHeld

LEMMA HeldEnded ==
  ASSUME TypeInv, NEW t \in Tasks, Ended(t)
  PROVE  HeldStep
<1>1. ASSUME NEW u \in Tasks, pc'[u] # "free" PROVE hold'[u] \in AllHeld
  <2>1. CASE u = t
    <3>1. 1 \in DOMAIN pending[t[1]] /\ hold'[u] = pending[t[1]][1]
      BY <1>1, <2>1 DEF Ended
    <3>2. QED
      BY <3>1, TaskFacts DEF AllHeld
  <2>2. CASE u # t
    BY <1>1, <2>2 DEF Ended, AllHeld
  <2>3. QED
    BY <2>1, <2>2
<1>2. ASSUME NEW w \in Workers, NEW i \in DOMAIN pending'[w] PROVE pending'[w][i] \in AllHeld
  <2>1. \E k \in DOMAIN pending[w] : pending'[w][i] = pending[w][k]
    <3>1. CASE w = t[1]
      BY <1>2, <3>1 DEF Ended
    <3>2. CASE w # t[1]
      BY <1>2, <3>2 DEF Ended
    <3>3. QED
      BY <3>1, <3>2
  <2>2. QED
    BY <2>1 DEF AllHeld
<1>3. AllHeld' \subseteq AllHeld
  BY <1>1, <1>2 DEF AllHeld
<1>4. ASSUME NEW u \in Tasks, pc'[u] = "retry" PROVE pc[u] = "retry" /\ hold'[u] = hold[u]
  BY <1>4 DEF Ended
<1>5. QED
  BY <1>3, <1>4 DEF HeldStep

LEMMA HeldReset ==
  ASSUME TypeInv, NEW w \in Workers, Reset(w)
  PROVE  HeldStep
<1>1. \A v \in Workers : pending'[v] = IF v = w THEN <<>> ELSE pending[v]
  BY DEF Reset, TypeInv, TaskInv
<1>2. \A t \in Tasks : pc'[t] # "free" => pc'[t] = pc[t] /\ hold'[t] = hold[t]
  BY DEF Reset
<1>3. QED
  BY <1>1, <1>2 DEF HeldStep, AllHeld

LEMMA StepHeld ==
  ASSUME TypeInv, [Next]_vars
  PROVE  HeldStep
<1>1. ASSUME NEW j \in Jobs, Enqueue(j) PROVE HeldStep
  BY <1>1, HeldSame DEF Enqueue, taskVars, workerVars
<1>2. ASSUME RetryDue PROVE HeldStep
  BY <1>2, HeldSame DEF RetryDue, taskVars, workerVars
<1>3. ASSUME NEW w \in Workers, Deliver(w) PROVE HeldStep
  <2>1. PICK d \in ready :
          \/ /\ \E t \in TasksOf(w) :
                  /\ pc[t] = "free"
                  /\ pc' = [pc EXCEPT ![t] = "decode"]
                  /\ hold' = [hold EXCEPT ![t] = d]
             /\ UNCHANGED pending
          \/ /\ pending' = [pending EXCEPT ![w] = Append(@, d)]
             /\ UNCHANGED <<pc, hold>>
          \/ UNCHANGED <<pending, pc, hold>>
    BY <1>3 DEF Deliver
  <2>2. d \in AllLive
    BY DEF AllLive
  <2>3. ASSUME NEW t \in TasksOf(w), pc[t] = "free", pc' = [pc EXCEPT ![t] = "decode"],
               hold' = [hold EXCEPT ![t] = d], UNCHANGED pending
        PROVE  HeldStep
    <3>1. t \in Tasks
      BY TaskFacts
    <3>2. /\ pc'[t] = "decode" /\ hold'[t] = d
          /\ \A u \in Tasks \ {t} : pc'[u] = pc[u] /\ hold'[u] = hold[u]
      BY <2>3, <3>1 DEF TypeInv, TaskInv
    <3>3. QED
      BY <2>2, <2>3, <3>2 DEF HeldStep, AllHeld
  <2>4. ASSUME pending' = [pending EXCEPT ![w] = Append(@, d)], UNCHANGED <<pc, hold>>
        PROVE  HeldStep
    <3>1. pending \in [Workers -> Seq(Copy)] /\ pending[w] \in Seq(Copy)
      BY DEF TypeInv, TaskInv
    <3>2. \A v \in Workers : pending'[v] = IF v = w THEN Append(pending[w], d) ELSE pending[v]
      BY <2>4, <3>1
    <3>3. \A i \in DOMAIN Append(pending[w], d) :
               \/ Append(pending[w], d)[i] = d
               \/ i \in DOMAIN pending[w] /\ Append(pending[w], d)[i] = pending[w][i]
      BY <3>1
    <3>4. ASSUME NEW v \in Workers, NEW i \in DOMAIN pending'[v]
          PROVE  pending'[v][i] \in AllHeld \cup AllLive
      <4>1. CASE v = w
        <5>1. \/ pending'[v][i] = d
              \/ i \in DOMAIN pending[w] /\ pending'[v][i] = pending[w][i]
          BY <3>2, <3>3, <3>4, <4>1
        <5>2. QED
          BY <2>2, <5>1 DEF AllHeld
      <4>2. CASE v # w
        BY <3>2, <3>4, <4>2 DEF AllHeld
      <4>3. QED
        BY <4>1, <4>2
    <3>5. \A t \in Tasks : pc'[t] # "free" => hold'[t] \in AllHeld
      BY <2>4 DEF AllHeld
    <3>6. AllHeld' \subseteq AllHeld \cup AllLive
      BY <3>4, <3>5 DEF AllHeld
    <3>7. QED
      BY <2>4, <3>6 DEF HeldStep
  <2>5. CASE UNCHANGED <<pending, pc, hold>>
    BY <2>5, HeldSame
  <2>6. QED
    BY <2>1, <2>3, <2>4, <2>5
<1>4. ASSUME NEW t \in Tasks, RunHandler(t) PROVE HeldStep
  <2>1. pc[t] # "free" /\ GoTo(t, "handler")
    BY <1>4 DEF RunHandler
  <2>2. "handler" \in Pc /\ "handler" # "retry"
    BY DEF Pc
  <2>3. QED
    BY <2>1, <2>2, HeldGoTo
<1>5. ASSUME NEW t \in Tasks, Undecodable(t) PROVE HeldStep
  <2>1. pc[t] # "free" /\ GoTo(t, LastStep(t[1]))
    BY <1>5 DEF Undecodable
  <2>2. LastStep(t[1]) \in Pc /\ LastStep(t[1]) # "retry"
    BY DEF Pc, LastStep
  <2>3. QED
    BY <2>1, <2>2, HeldGoTo
<1>6. ASSUME NEW t \in Tasks, ContextAck(t) PROVE HeldStep
  BY <1>6, HeldSame DEF ContextAck, taskVars, workerVars
<1>7. ASSUME NEW t \in Tasks, ContextRetry(t) PROVE HeldStep
  <2>1. pc[t] # "free" /\ GoTo(t, "ctxAck")
    BY <1>7 DEF ContextRetry
  <2>2. "ctxAck" \in Pc /\ "ctxAck" # "retry"
    BY DEF Pc
  <2>3. QED
    BY <2>1, <2>2, HeldGoTo
<1>8. ASSUME NEW t \in Tasks, ContextDeadLetter(t) PROVE HeldStep
  <2>1. pc[t] # "free" /\ GoTo(t, "ctxAck")
    BY <1>8 DEF ContextDeadLetter
  <2>2. "ctxAck" \in Pc /\ "ctxAck" # "retry"
    BY DEF Pc
  <2>3. QED
    BY <2>1, <2>2, HeldGoTo
<1>9. ASSUME NEW t \in Tasks, ContextSettles(t) PROVE HeldStep
  <2>1. pc[t] # "free" /\ GoTo(t, "handler")
    BY <1>9 DEF ContextSettles
  <2>2. "handler" \in Pc /\ "handler" # "retry"
    BY DEF Pc
  <2>3. QED
    BY <2>1, <2>2, HeldGoTo
<1>10. ASSUME NEW t \in Tasks, HandlerReturns(t) PROVE HeldStep
  <2>1. CASE TaskEnds(t)
    BY <2>1, TaskEndsFacts, HeldEnded DEF TypeInv
  <2>2. CASE GoTo(t, "ack")
    <3>1. pc[t] # "free" /\ "ack" \in Pc
      BY <1>10 DEF HandlerReturns, Pc
    <3>2. QED
      BY <2>2, <3>1, HeldGoTo
  <2>3. QED
    BY <1>10, <2>1, <2>2 DEF HandlerReturns
<1>11. ASSUME NEW t \in Tasks, HandlerThrows(t) PROVE HeldStep
  <2>1. PICK step \in FailureSteps(t) : GoTo(t, step)
    BY <1>11 DEF HandlerThrows
  <2>2. step \in Pc /\ (step = "retry" => hold[t].attempt < MaxAttempts)
    BY DEF FailureSteps, LastStep, Pc
  <2>3. pc[t] # "free"
    BY <1>11 DEF HandlerThrows
  <2>4. QED
    BY <2>1, <2>2, <2>3, HeldGoTo
<1>12. ASSUME NEW t \in Tasks, HandlerThrowsLate(t) PROVE HeldStep
  <2>1. PICK step \in FailureSteps(t) : GoTo(t, step)
    BY <1>12 DEF HandlerThrowsLate
  <2>2. step \in Pc /\ (step = "retry" => hold[t].attempt < MaxAttempts)
    BY DEF FailureSteps, LastStep, Pc
  <2>3. pc[t] # "free"
    BY <1>12 DEF HandlerThrowsLate
  <2>4. QED
    BY <2>1, <2>2, <2>3, HeldGoTo
<1>13. ASSUME NEW t \in Tasks, Ack(t) PROVE HeldStep
  BY <1>13, TaskEndsFacts, HeldEnded DEF Ack, TypeInv
<1>14. ASSUME NEW t \in Tasks, AckThrows(t) PROVE HeldStep
  <2>1. PICK step \in FailureSteps(t) : GoTo(t, step)
    BY <1>14 DEF AckThrows
  <2>2. step \in Pc /\ (step = "retry" => hold[t].attempt < MaxAttempts)
    BY DEF FailureSteps, LastStep, Pc
  <2>3. pc[t] # "free"
    BY <1>14 DEF AckThrows
  <2>4. QED
    BY <2>1, <2>2, <2>3, HeldGoTo
<1>15. ASSUME NEW t \in Tasks, PublishRetry(t) PROVE HeldStep
  <2>1. pc[t] # "free" /\ GoTo(t, "settle")
    BY <1>15 DEF PublishRetry
  <2>2. "settle" \in Pc /\ "settle" # "retry"
    BY DEF Pc
  <2>3. QED
    BY <2>1, <2>2, HeldGoTo
<1>16. ASSUME NEW t \in Tasks, PublishDeadLetter(t) PROVE HeldStep
  <2>1. pc[t] # "free" /\ GoTo(t, "settle")
    BY <1>16 DEF PublishDeadLetter
  <2>2. "settle" \in Pc /\ "settle" # "retry"
    BY DEF Pc
  <2>3. QED
    BY <2>1, <2>2, HeldGoTo
<1>17. ASSUME NEW t \in Tasks, PublishThrows(t) PROVE HeldStep
  BY <1>17, TaskEndsFacts, HeldEnded DEF PublishThrows, TypeInv
<1>18. ASSUME NEW t \in Tasks, SettleDelivery(t) PROVE HeldStep
  BY <1>18, TaskEndsFacts, HeldEnded DEF SettleDelivery, TypeInv
<1>19. ASSUME NEW t \in Tasks, Reject(t) PROVE HeldStep
  BY <1>19, TaskEndsFacts, HeldEnded DEF Reject, TypeInv
<1>20. ASSUME NEW t \in Tasks, SettleThrows(t) PROVE HeldStep
  BY <1>20, TaskEndsFacts, HeldEnded DEF SettleThrows, TypeInv
<1>21. ASSUME NEW w \in Workers, CloseEnds(w) PROVE HeldStep
  BY <1>21, HeldSame DEF CloseEnds, taskVars, workerVars
<1>22. ASSUME NEW w \in Workers, AdapterCloses(w) PROVE HeldStep
  BY <1>22, HeldSame DEF AdapterCloses, taskVars, workerVars
<1>23. ASSUME NEW w \in Workers, Replace(w) PROVE HeldStep
  BY <1>23, HeldReset DEF Replace, Reset
<1>24. ASSUME NEW w \in Workers, CloseStart(w) PROVE HeldStep
  <2>1. UNCHANGED <<pc, hold>> /\ pending' = [pending EXCEPT ![w] = <<>>]
    BY <1>24 DEF CloseStart, taskVars
  <2>2. \A v \in Workers : pending'[v] = IF v = w THEN <<>> ELSE pending[v]
    BY <2>1 DEF TypeInv, TaskInv
  <2>3. QED
    BY <2>1, <2>2 DEF HeldStep, AllHeld
<1>25. ASSUME NEW w \in Workers, CloseTimesOut(w) \/ BusClose(w) PROVE HeldStep
  BY <1>25, HeldSame DEF CloseTimesOut, BusClose, taskVars, workerVars
<1>26. ASSUME NEW w \in Workers, ChannelLost(w) PROVE HeldStep
  BY <1>26, HeldSame DEF ChannelLost, taskVars, workerVars
<1>27. ASSUME NEW w \in Workers, Crash(w) PROVE HeldStep
  BY <1>27, HeldReset DEF Crash, Reset
<1>28. CASE UNCHANGED vars
  BY <1>28, HeldSame DEF vars, taskVars, workerVars
<1>29. QED
  BY <1>1, <1>2, <1>3, <1>4, <1>5, <1>6, <1>7, <1>8, <1>9, <1>10, <1>11, <1>12, <1>13, <1>14, <1>15, <1>16, <1>17, <1>18, <1>19, <1>20, <1>21, <1>22, <1>23, <1>24, <1>25, <1>26, <1>27, <1>28
  DEF Next, Process, Shutdown

LEMMA HeldIsCopy ==
  ASSUME TypeInv
  PROVE  AllHeld \subseteq Copy
<1>1. \A t \in Tasks : pc[t] # "free" => hold[t] \in Copy
  BY HeldFacts
<1>2. \A w \in Workers : \A i \in DOMAIN pending[w] : pending[w][i] \in Copy
  <2> SUFFICES ASSUME NEW w \in Workers, NEW i \in DOMAIN pending[w]
               PROVE  pending[w][i] \in Copy
    OBVIOUS
  <2>1. pending[w] \in Seq(Copy)
    BY DEF TypeInv, TaskInv
  <2>2. QED
    BY <2>1
<1>3. QED
  BY <1>1, <1>2 DEF AllHeld

LEMMA InitAttempts == Init => AttemptsInv
BY DEF Init, AttemptsInv, AllLive, AllHeld

LEMMA StepAttempts ==
  ASSUME TypeInv, AttemptsInv, [Next]_vars
  PROVE  AttemptsInv'
<1>0. /\ CopiesStep /\ HeldStep
      /\ retries \in Nat /\ retries' \in Nat /\ retries <= retries'
      /\ MaxAttempts \in Nat \ {0}
  BY StepCopies, StepHeld, StepCounters, RabbitMqAssumption DEF CountersGrow, TypeInv
<1>1. ASSUME NEW c \in AllLive \cup AllHeld PROVE c.attempt <= MaxAttempts + retries'
  <2>1. c.attempt \in Nat
    BY LiveIsCopy, HeldIsCopy, CopyFacts
  <2>2. c.attempt <= MaxAttempts + retries
    BY DEF AttemptsInv
  <2>3. QED
    BY <1>0, <2>1, <2>2
<1>2. ASSUME NEW c \in AllLive' PROVE c.attempt <= MaxAttempts + retries'
  <2>1. ASSUME NEW t \in Tasks, pc[t] # "free", c = NextCopy(hold[t]),
               pc[t] = "retry" \/ retries' = retries + 1
        PROVE  c.attempt <= MaxAttempts + retries'
    <3>1. hold[t] \in Copy /\ hold[t] \in AllHeld /\ hold[t].attempt \in Nat
      BY <2>1, HeldFacts, CopyFacts DEF AllHeld
    <3>2. c.attempt = hold[t].attempt + 1
      BY <2>1, <3>1, NextCopyIsNew
    <3>3. CASE pc[t] = "retry"
      <4>1. hold[t].attempt < MaxAttempts
        BY <3>3 DEF AttemptsInv
      <4>2. QED
        BY <1>0, <3>1, <3>2, <4>1
    <3>4. CASE retries' = retries + 1
      <4>1. hold[t].attempt <= MaxAttempts + retries
        BY <3>1 DEF AttemptsInv
      <4>2. QED
        BY <1>0, <3>1, <3>2, <3>4, <4>1
    <3>5. QED
      BY <2>1, <3>3, <3>4
  <2>2. CASE c.attempt = 1
    <3>1. PICK q \in Nat : q = retries'
      BY <1>0
    <3>2. 1 <= MaxAttempts + q
      BY <1>0
    <3>3. QED
      BY <2>2, <3>1, <3>2
  <2>3. CASE c \in AllLive
    BY <1>1, <2>3
  <2>4. \/ c \in AllLive
        \/ c.attempt = 1
        \/ \E t \in Tasks : /\ pc[t] # "free" /\ c = NextCopy(hold[t])
                            /\ pc[t] = "retry" \/ retries' = retries + 1
    BY <1>0, <1>2 DEF CopiesStep
  <2>5. CASE \E t \in Tasks : /\ pc[t] # "free" /\ c = NextCopy(hold[t])
                              /\ pc[t] = "retry" \/ retries' = retries + 1
    <3>1. PICK t \in Tasks : /\ pc[t] # "free" /\ c = NextCopy(hold[t])
                             /\ pc[t] = "retry" \/ retries' = retries + 1
      BY <2>5
    <3>2. QED
      BY <2>1, <3>1
  <2>6. QED
    BY <2>2, <2>3, <2>4, <2>5
<1>3. \A c \in AllHeld' : c.attempt <= MaxAttempts + retries'
  BY <1>0, <1>1 DEF HeldStep
<1>4. \A t \in Tasks : pc'[t] = "retry" => hold'[t].attempt < MaxAttempts
  BY <1>0 DEF HeldStep, AttemptsInv
<1>5. QED
  BY <1>2, <1>3, <1>4 DEF AttemptsInv

--------------------------------------------------------------------------------
(* What a worker holds at the broker, and what it has in hand. *)

FlagInv ==
  /\ \A t \in Tasks : hold[t] = NoCopy => ~completed[t]
  /\ \A w \in Workers :
       stage[w] \in {"closed", "left"} => \A t \in TasksOf(w) : hold[t] = NoCopy

LEMMA InitFlags == Init => FlagInv
BY DEF Init, FlagInv

LEMMA FlagEnded ==
  ASSUME TypeInv, FlagInv, NEW t \in Tasks, TaskEnds(t), pc[t] # "free", UNCHANGED stage
  PROVE  FlagInv'
<1>1. Ended(t)
  BY TaskEndsFacts DEF TypeInv
<1>2. completed'[t] = FALSE /\ \A u \in Tasks \ {t} : completed'[u] = completed[u]
  BY <1>1 DEF Ended, TypeInv, TaskInv
<1>3. \A u \in Tasks : hold'[u] = NoCopy => ~completed'[u]
  BY <1>1, <1>2 DEF Ended, FlagInv
<1>4. hold[t] # NoCopy
  BY DEF TypeInv, TaskInv
<1>5. stage[t[1]] \notin {"closed", "left"}
  BY <1>4, TaskFacts DEF FlagInv
<1>6. ASSUME NEW w \in Workers, stage'[w] \in {"closed", "left"}, NEW u \in TasksOf(w)
      PROVE  hold'[u] = NoCopy
  <2>1. stage[w] \in {"closed", "left"} /\ w # t[1]
    BY <1>5, <1>6
  <2>2. u \in Tasks \ {t}
    BY <2>1, TaskFacts
  <2>3. hold'[u] = hold[u]
    BY <1>1, <2>2 DEF Ended
  <2>4. QED
    BY <2>1, <2>3 DEF FlagInv
<1>7. QED
  BY <1>3, <1>6 DEF FlagInv

LEMMA StepFlags ==
  ASSUME TypeInv, FlagInv, [Next]_vars
  PROVE  FlagInv'
<1>1. ASSUME NEW j \in Jobs, Enqueue(j) PROVE FlagInv'
  BY <1>1 DEF Enqueue, FlagInv, taskVars, workerVars, TypeInv, TaskInv
<1>2. ASSUME RetryDue PROVE FlagInv'
  BY <1>2 DEF RetryDue, FlagInv, taskVars, workerVars, TypeInv, TaskInv
<1>3. ASSUME NEW w \in Workers, Deliver(w) PROVE FlagInv'
  <2>1. PICK d \in ready : \/ UNCHANGED hold
                           \/ stage[w] = "open" /\ \E t \in TasksOf(w) : hold' = [hold EXCEPT ![t] = d]
    BY <1>3 DEF Deliver
  <2>2. UNCHANGED <<stage, completed>>
    BY <1>3 DEF Deliver
  <2>3. CASE UNCHANGED hold
    BY <2>2, <2>3 DEF FlagInv
  <2>4. ASSUME stage[w] = "open", NEW t \in TasksOf(w), hold' = [hold EXCEPT ![t] = d] PROVE FlagInv'
    <3>1. d # NoCopy /\ t \in Tasks /\ t[1] = w
      BY CopyFacts, TaskFacts DEF TypeInv, BrokerInv
    <3>2. \A u \in Tasks : hold'[u] = IF u = t THEN d ELSE hold[u]
      BY <2>4, <3>1 DEF TypeInv, TaskInv
    <3>3. QED
      BY <2>2, <2>4, <3>1, <3>2, TaskFacts DEF FlagInv
  <2>5. QED
    BY <2>1, <2>3, <2>4
<1>4. ASSUME NEW t \in Tasks, RunHandler(t) PROVE FlagInv'
  BY <1>4 DEF RunHandler, GoTo, FlagInv
<1>5. ASSUME NEW t \in Tasks, Undecodable(t) PROVE FlagInv'
  BY <1>5 DEF Undecodable, GoTo, FlagInv
<1>6. ASSUME NEW t \in Tasks, ContextAck(t) PROVE FlagInv'
  <2>1. /\ UNCHANGED <<stage, hold>> /\ completed' = [completed EXCEPT ![t] = TRUE]
        /\ pc[t] # "free"
    BY <1>6 DEF ContextAck, GoTo, workerVars
  <2>2. hold[t] # NoCopy /\ \A u \in Tasks : u # t => completed'[u] = completed[u]
    BY <2>1 DEF TypeInv, TaskInv
  <2>3. QED
    BY <2>1, <2>2 DEF FlagInv
<1>7. ASSUME NEW t \in Tasks, ContextRetry(t) PROVE FlagInv'
  BY <1>7 DEF ContextRetry, GoTo, FlagInv
<1>8. ASSUME NEW t \in Tasks, ContextDeadLetter(t) PROVE FlagInv'
  BY <1>8 DEF ContextDeadLetter, GoTo, FlagInv
<1>9. ASSUME NEW t \in Tasks, ContextSettles(t) PROVE FlagInv'
  <2>1. /\ UNCHANGED <<stage, hold>> /\ completed' = [completed EXCEPT ![t] = TRUE]
        /\ pc[t] # "free"
    BY <1>9 DEF ContextSettles, GoTo, workerVars
  <2>2. hold[t] # NoCopy /\ \A u \in Tasks : u # t => completed'[u] = completed[u]
    BY <2>1 DEF TypeInv, TaskInv
  <2>3. QED
    BY <2>1, <2>2 DEF FlagInv
<1>10. ASSUME NEW t \in Tasks, HandlerReturns(t) PROVE FlagInv'
  <2>1. CASE TaskEnds(t)
    BY <1>10, <2>1, FlagEnded DEF HandlerReturns
  <2>2. CASE GoTo(t, "ack") /\ UNCHANGED completed
    BY <1>10, <2>2 DEF HandlerReturns, GoTo, FlagInv
  <2>3. QED
    BY <1>10, <2>1, <2>2 DEF HandlerReturns
<1>11. ASSUME NEW t \in Tasks, HandlerThrows(t) PROVE FlagInv'
  BY <1>11 DEF HandlerThrows, GoTo, FlagInv
<1>12. ASSUME NEW t \in Tasks, HandlerThrowsLate(t) PROVE FlagInv'
  BY <1>12 DEF HandlerThrowsLate, GoTo, FlagInv
<1>13. ASSUME NEW t \in Tasks, Ack(t) PROVE FlagInv'
  BY <1>13, FlagEnded DEF Ack
<1>14. ASSUME NEW t \in Tasks, AckThrows(t) PROVE FlagInv'
  BY <1>14 DEF AckThrows, GoTo, FlagInv
<1>15. ASSUME NEW t \in Tasks, PublishRetry(t) PROVE FlagInv'
  BY <1>15 DEF PublishRetry, GoTo, FlagInv
<1>16. ASSUME NEW t \in Tasks, PublishDeadLetter(t) PROVE FlagInv'
  BY <1>16 DEF PublishDeadLetter, GoTo, FlagInv
<1>17. ASSUME NEW t \in Tasks, PublishThrows(t) PROVE FlagInv'
  BY <1>17, FlagEnded DEF PublishThrows
<1>18. ASSUME NEW t \in Tasks, SettleDelivery(t) PROVE FlagInv'
  BY <1>18, FlagEnded DEF SettleDelivery
<1>19. ASSUME NEW t \in Tasks, Reject(t) PROVE FlagInv'
  BY <1>19, FlagEnded DEF Reject
<1>20. ASSUME NEW t \in Tasks, SettleThrows(t) PROVE FlagInv'
  BY <1>20, FlagEnded DEF SettleThrows
<1>21. ASSUME NEW w \in Workers, CloseEnds(w) PROVE FlagInv'
  <2>1. \A t \in TasksOf(w) : hold'[t] = NoCopy
    BY <1>21, TaskFacts DEF CloseEnds, taskVars, TypeInv, TaskInv
  <2>2. /\ \A v \in Workers : v # w => stage'[v] = stage[v]
        /\ UNCHANGED <<hold, completed>>
    BY <1>21 DEF CloseEnds, taskVars, TypeInv, TaskInv
  <2>3. QED
    BY <2>1, <2>2 DEF FlagInv
<1>22. ASSUME NEW w \in Workers, AdapterCloses(w) PROVE FlagInv'
  BY <1>22 DEF AdapterCloses, FlagInv, taskVars, workerVars, TypeInv, TaskInv
<1>23. ASSUME NEW w \in Workers, Replace(w) PROVE FlagInv'
  <2>1. Reset(w) /\ \A v \in Workers : v # w => stage'[v] = stage[v]
    BY <1>23 DEF Replace, Reset, TypeInv, TaskInv
  <2>2. \A t \in Tasks : IF t[1] = w THEN hold'[t] = NoCopy /\ completed'[t] = FALSE
                                   ELSE hold'[t] = hold[t] /\ completed'[t] = completed[t]
    BY <2>1 DEF Reset
  <2>3. \A v \in Workers : stage'[v] \in {"closed", "left"} => \A t \in TasksOf(v) : hold'[t] = NoCopy
    BY <2>1, <2>2, TaskFacts DEF FlagInv
  <2>4. QED
    BY <2>2, <2>3 DEF FlagInv
<1>24. ASSUME NEW w \in Workers, CloseStart(w) PROVE FlagInv'
  BY <1>24 DEF CloseStart, FlagInv, taskVars, workerVars, TypeInv, TaskInv
<1>25. ASSUME NEW w \in Workers, CloseTimesOut(w) \/ BusClose(w) PROVE FlagInv'
  BY <1>25 DEF CloseTimesOut, BusClose, FlagInv, taskVars, workerVars, TypeInv, TaskInv
<1>26. ASSUME NEW w \in Workers, ChannelLost(w) PROVE FlagInv'
  BY <1>26 DEF ChannelLost, FlagInv, taskVars, workerVars, TypeInv, TaskInv
<1>27. ASSUME NEW w \in Workers, Crash(w) PROVE FlagInv'
  <2>1. Reset(w) /\ \A v \in Workers : v # w => stage'[v] = stage[v]
    BY <1>27 DEF Crash, Reset, TypeInv, TaskInv
  <2>2. \A t \in Tasks : IF t[1] = w THEN hold'[t] = NoCopy /\ completed'[t] = FALSE
                                   ELSE hold'[t] = hold[t] /\ completed'[t] = completed[t]
    BY <2>1 DEF Reset
  <2>3. \A v \in Workers : stage'[v] \in {"closed", "left"} => \A t \in TasksOf(v) : hold'[t] = NoCopy
    BY <2>1, <2>2, TaskFacts DEF FlagInv
  <2>4. QED
    BY <2>2, <2>3 DEF FlagInv
<1>28. CASE UNCHANGED vars
  BY <1>28 DEF vars, taskVars, workerVars, FlagInv
<1>29. QED
  BY <1>1, <1>2, <1>3, <1>4, <1>5, <1>6, <1>7, <1>8, <1>9, <1>10, <1>11, <1>12, <1>13, <1>14, <1>15, <1>16, <1>17, <1>18, <1>19, <1>20, <1>21, <1>22, <1>23, <1>24, <1>25, <1>26, <1>27, <1>28
  DEF Next, Process, Shutdown

\* The ways in which a step can touch what worker v holds at the broker and has in hand.
HandsKept(v) == pending'[v] = pending[v] /\ \A t \in TasksOf(v) : hold'[t] = hold[t]

FlagsKept(v) == \A t \in TasksOf(v) : completed'[t] = completed[t]

HandsLeft(v, t) ==
  /\ \A u \in TasksOf(v) : u # t => hold'[u] = hold[u] /\ completed'[u] = completed[u]
  /\ ~completed'[t]
  /\ \A i \in DOMAIN pending'[v] :
       \E k \in DOMAIN pending[v] : k # 1 /\ k = i + 1 /\ pending'[v][i] = pending[v][k]
  /\ \/ hold'[t] = NoCopy /\ pending[v] = <<>>
     \/ /\ 1 \in DOMAIN pending[v] /\ hold'[t] = pending[v][1]
        /\ \A k \in DOMAIN pending[v] :
             k # 1 => \E i \in DOMAIN pending'[v] : pending'[v][i] = pending[v][k]

Away(v)  == ~link'[v]

Fresh(v) ==
  /\ unacked'[v] = {} /\ pending'[v] = <<>>
  /\ \A t \in TasksOf(v) : hold'[t] = NoCopy /\ ~completed'[t]

Rests(v) == unacked'[v] = unacked[v] /\ HandsKept(v) /\ FlagsKept(v)

Takes(v) ==
  \E d \in ready :
    /\ unacked'[v] = unacked[v] \cup {d}
    /\ FlagsKept(v)
    /\ \/ stage'[v] # "open" /\ HandsKept(v)
       \/ /\ pending'[v] = pending[v]
          /\ \E t \in TasksOf(v) :
               /\ hold[t] = NoCopy /\ hold'[t] = d
               /\ \A u \in TasksOf(v) : u # t => hold'[u] = hold[u]
       \/ /\ pending'[v] = Append(pending[v], d)
          /\ \A t \in TasksOf(v) : hold'[t] = hold[t]

Acks(v, t) ==
  hold[t] \in unacked[v] /\ unacked'[v] = unacked[v] \ {hold[t]} /\ AllLive' = AllLive \ {hold[t]}

Settles(v) ==
  \E t \in TasksOf(v) :
    /\ Acks(v, t) /\ HandsKept(v)
    /\ completed'[t] /\ \A u \in TasksOf(v) : u # t => completed'[u] = completed[u]

Finishes(v) == \E t \in TasksOf(v) : Acks(v, t) /\ HandsLeft(v, t)

Leaves(v) ==
  \E t \in TasksOf(v) :
    unacked'[v] = unacked[v] /\ HandsLeft(v, t) /\ (completed[t] \/ unhealthy'[v])

Closes(v) ==
  /\ stage'[v] # "open"
  /\ unacked'[v] = unacked[v] \ {pending[v][i] : i \in DOMAIN pending[v]}
  /\ pending'[v] = <<>>
  /\ \A t \in TasksOf(v) : hold'[t] = hold[t] /\ completed'[t] = completed[t]

Goes(v) ==
  /\ link[v] = TRUE
  /\ stage'[v] = "open" => stage[v] = "open"
  /\ unhealthy[v] => unhealthy'[v]

WorkerStep(v) ==
  \/ Away(v)
  \/ Fresh(v)
  \/ Goes(v) /\ (Rests(v) \/ Takes(v) \/ Settles(v) \/ Finishes(v) \/ Leaves(v) \/ Closes(v))

LEMMA AllRest ==
  ASSUME TypeInv, UNCHANGED <<unacked, link, pending, hold, completed>>,
         NEW v \in Workers,
         stage'[v] = "open" => stage[v] = "open", unhealthy[v] => unhealthy'[v]
  PROVE  WorkerStep(v)
<1>1. link[v] \in BOOLEAN
  BY DEF TypeInv, BrokerInv
<1>2. CASE link[v] = TRUE
  BY <1>2 DEF WorkerStep, Goes, Rests, HandsKept, FlagsKept
<1>3. CASE link[v] = FALSE
  BY <1>3 DEF WorkerStep, Away
<1>4. QED
  BY <1>1, <1>2, <1>3

LEMMA OthersRest ==
  ASSUME TypeInv, NEW v \in Workers, NEW w \in Workers, v # w,
         unacked'[v] = unacked[v], link'[v] = link[v], stage'[v] = stage[v],
         unhealthy'[v] = unhealthy[v], pending'[v] = pending[v],
         \A t \in Tasks : t[1] # w => hold'[t] = hold[t] /\ completed'[t] = completed[t]
  PROVE  WorkerStep(v)
<1>1. link[v] \in BOOLEAN
  BY DEF TypeInv, BrokerInv
<1>2. HandsKept(v) /\ FlagsKept(v)
  BY TaskFacts DEF HandsKept, FlagsKept
<1>3. CASE link[v] = TRUE
  BY <1>2, <1>3 DEF WorkerStep, Goes, Rests
<1>4. CASE link[v] = FALSE
  BY <1>4 DEF WorkerStep, Away
<1>5. QED
  BY <1>1, <1>3, <1>4

LEMMA SettleFacts ==
  ASSUME TypeInv, NEW t \in Tasks, Settle(t[1], hold[t]), UNCHANGED delayed
  PROVE  /\ \A v \in Workers : v # t[1] => unacked'[v] = unacked[v] /\ link'[v] = link[v]
         /\ Away(t[1]) \/ (link[t[1]] = TRUE /\ Acks(t[1], t))
<1> DEFINE w == t[1]
           c == hold[t]
<1>0. w \in Workers
  BY TaskFacts
<1>1. AllLive' = IF c \in unacked[w] THEN AllLive \ {c} ELSE AllLive
  BY <1>0, LiveSettled DEF TypeInv
<1>2. unacked \in [Workers -> SUBSET Copy] /\ link \in [Workers -> BOOLEAN]
  BY DEF TypeInv, BrokerInv
<1>3. Settle(w, c)
  OBVIOUS
<1> HIDE DEF w, c
<1>4. CASE c \notin unacked[w] /\ link[w]
  BY <1>0, <1>2, <1>3, <1>4 DEF Settle, ChannelGone, Away, w
<1>5. CASE ~(c \notin unacked[w] /\ link[w])
  <2>1. /\ \A v \in Workers : unacked'[v] = IF v = w THEN unacked[w] \ {c} ELSE unacked[v]
        /\ UNCHANGED link
    BY <1>0, <1>2, <1>3, <1>5 DEF Settle
  <2>2. CASE link[w] = FALSE
    BY <2>1, <2>2 DEF Away, w
  <2>3. CASE link[w] = TRUE
    BY <1>0, <1>1, <1>5, <2>1, <2>3 DEF Acks, w, c
  <2>4. QED
    BY <1>0, <1>2, <2>2, <2>3
<1>6. QED
  BY <1>4, <1>5

LEMMA EndedHands ==
  ASSUME TypeInv, NEW t \in Tasks, TaskEnds(t)
  PROVE  /\ HandsLeft(t[1], t)
         /\ \A v \in Workers : v # t[1] => pending'[v] = pending[v]
         /\ \A u \in Tasks : u # t => hold'[u] = hold[u] /\ completed'[u] = completed[u]
<1>1. Ended(t)
  BY TaskEndsFacts DEF TypeInv
<1>2. completed'[t] = FALSE /\ \A u \in Tasks \ {t} : completed'[u] = completed[u]
  BY <1>1 DEF Ended, TypeInv, TaskInv
<1>3. \A u \in TasksOf(t[1]) : u \in Tasks
  BY TaskFacts
<1>4. HandsLeft(t[1], t)
  BY <1>1, <1>2, <1>3 DEF Ended, HandsLeft
<1>5. QED
  BY <1>1, <1>2, <1>4 DEF Ended

LEMMA OneLeaves ==
  ASSUME TypeInv, NEW t \in Tasks, HandsLeft(t[1], t), UNCHANGED <<unacked, link, stage>>,
         completed[t] \/ unhealthy'[t[1]], unhealthy[t[1]] => unhealthy'[t[1]]
  PROVE  WorkerStep(t[1])
<1>1. link[t[1]] \in BOOLEAN /\ t \in TasksOf(t[1])
  BY TaskFacts DEF TypeInv, BrokerInv
<1>2. Leaves(t[1])
  BY <1>1 DEF Leaves
<1>3. CASE link[t[1]] = TRUE
  BY <1>2, <1>3 DEF WorkerStep, Goes
<1>4. CASE link[t[1]] = FALSE
  BY <1>4 DEF WorkerStep, Away
<1>5. QED
  BY <1>1, <1>3, <1>4

LEMMA StepWorkers ==
  ASSUME TypeInv, [Next]_vars
  PROVE  \A v \in Workers : WorkerStep(v)
<1>1. ASSUME NEW j \in Jobs, Enqueue(j) PROVE \A v \in Workers : WorkerStep(v)
  BY <1>1, AllRest DEF Enqueue, GoTo, brokerVars, taskVars, workerVars
<1>2. ASSUME RetryDue PROVE \A v \in Workers : WorkerStep(v)
  BY <1>2, AllRest DEF RetryDue, GoTo, brokerVars, taskVars, workerVars
<1>3. ASSUME NEW w \in Workers, Deliver(w) PROVE \A v \in Workers : WorkerStep(v)
  <2>1. /\ link[w] = TRUE /\ link' = link /\ UNCHANGED <<stage, unhealthy, completed>>
    BY <1>3 DEF Deliver, TypeInv, BrokerInv
  <2>2. PICK d \in ready :
          /\ unacked' = [unacked EXCEPT ![w] = @ \cup {d}]
          /\ \/ /\ \E t \in TasksOf(w) :
                     /\ pc[t] = "free"
                     /\ hold' = [hold EXCEPT ![t] = d]
                /\ UNCHANGED pending
             \/ /\ pending' = [pending EXCEPT ![w] = Append(@, d)]
                /\ UNCHANGED hold
             \/ /\ stage[w] # "open"
                /\ UNCHANGED <<pending, hold>>
    BY <1>3 DEF Deliver
  <2>3. \A v \in Workers : unacked'[v] = IF v = w THEN unacked[w] \cup {d} ELSE unacked[v]
    BY <2>2 DEF TypeInv, BrokerInv
  <2>4. /\ pending'[w] \in {pending[w], Append(pending[w], d)}
        /\ \A v \in Workers : v # w => pending'[v] = pending[v]
    BY <2>2 DEF TypeInv, TaskInv
  <2>5. \A t \in Tasks : t[1] # w => hold'[t] = hold[t]
    BY <2>2, TaskFacts DEF TypeInv, TaskInv
  <2>6. ASSUME NEW v \in Workers, v # w PROVE WorkerStep(v)
    BY <2>1, <2>3, <2>4, <2>5, <2>6, OthersRest
  <2>7. Goes(w) /\ FlagsKept(w)
    BY <2>1 DEF Goes, FlagsKept
  <2>8. Takes(w)
    <3>1. ASSUME NEW t \in TasksOf(w), pc[t] = "free", hold' = [hold EXCEPT ![t] = d], UNCHANGED pending
          PROVE  Takes(w)
      <4>1. hold[t] = NoCopy /\ hold'[t] = d /\ \A u \in TasksOf(w) : u # t => hold'[u] = hold[u]
        BY <3>1, TaskFacts DEF TypeInv, TaskInv
      <4>2. QED
        BY <2>3, <2>7, <3>1, <4>1 DEF Takes
    <3>2. CASE pending' = [pending EXCEPT ![w] = Append(@, d)] /\ UNCHANGED hold
      <4>1. pending'[w] = Append(pending[w], d)
        BY <3>2 DEF TypeInv, TaskInv
      <4>2. QED
        BY <2>3, <2>7, <3>2, <4>1 DEF Takes
    <3>3. CASE stage[w] # "open" /\ UNCHANGED <<pending, hold>>
      BY <2>1, <2>3, <2>7, <3>3 DEF Takes, HandsKept
    <3>4. QED
      BY <2>2, <3>1, <3>2, <3>3
  <2>9. QED
    BY <2>6, <2>7, <2>8 DEF WorkerStep
<1>4. ASSUME NEW t \in Tasks, RunHandler(t) PROVE \A v \in Workers : WorkerStep(v)
  BY <1>4, AllRest DEF RunHandler, GoTo, brokerVars, taskVars, workerVars
<1>5. ASSUME NEW t \in Tasks, Undecodable(t) PROVE \A v \in Workers : WorkerStep(v)
  BY <1>5, AllRest DEF Undecodable, GoTo, brokerVars, taskVars, workerVars
<1>6. ASSUME NEW t \in Tasks, ContextAck(t) PROVE \A v \in Workers : WorkerStep(v)
  <2>1. /\ Settle(t[1], hold[t]) /\ UNCHANGED <<delayed, stage, unhealthy, pending, hold>>
        /\ completed' = [completed EXCEPT ![t] = TRUE]
    BY <1>6 DEF ContextAck, Conclude, GoTo, workerVars
  <2>2. completed'[t] = TRUE /\ \A u \in Tasks : u # t => completed'[u] = completed[u]
    BY <2>1 DEF TypeInv, TaskInv
  <2>3. /\ \A v \in Workers : v # t[1] => unacked'[v] = unacked[v] /\ link'[v] = link[v]
        /\ Away(t[1]) \/ (link[t[1]] = TRUE /\ Acks(t[1], t))
    BY <2>1, SettleFacts
  <2>4. ASSUME NEW v \in Workers, v # t[1] PROVE WorkerStep(v)
    <3>1. \A u \in Tasks : u[1] # t[1] => hold'[u] = hold[u] /\ completed'[u] = completed[u]
      BY <2>1, <2>2, <2>3
    <3>2. /\ unacked'[v] = unacked[v] /\ link'[v] = link[v] /\ stage'[v] = stage[v]
          /\ unhealthy'[v] = unhealthy[v] /\ pending'[v] = pending[v]
      BY <2>1, <2>2, <2>3, <2>4
    <3>3. QED
      BY <2>4, <3>1, <3>2, TaskFacts, OthersRest
  <2>5. WorkerStep(t[1])
    <3>1. CASE Away(t[1])
      BY <3>1 DEF WorkerStep
    <3>2. CASE link[t[1]] = TRUE /\ Acks(t[1], t)
      <4>1. Goes(t[1])
        BY <2>1, <3>2 DEF Goes
      <4>2. HandsKept(t[1])
        BY <2>1 DEF HandsKept
      <4>3. Settles(t[1])
        BY <2>2, <3>2, <4>2, TaskFacts DEF Settles
      <4>4. QED
        BY <4>1, <4>3 DEF WorkerStep
    <3>3. QED
      BY <2>3, <3>1, <3>2
  <2>6. QED
    BY <2>4, <2>5
<1>7. ASSUME NEW t \in Tasks, ContextRetry(t) PROVE \A v \in Workers : WorkerStep(v)
  BY <1>7, AllRest DEF ContextRetry, GoTo, brokerVars, taskVars, workerVars
<1>8. ASSUME NEW t \in Tasks, ContextDeadLetter(t) PROVE \A v \in Workers : WorkerStep(v)
  BY <1>8, AllRest DEF ContextDeadLetter, GoTo, brokerVars, taskVars, workerVars
<1>9. ASSUME NEW t \in Tasks, ContextSettles(t) PROVE \A v \in Workers : WorkerStep(v)
  <2>1. /\ Settle(t[1], hold[t]) /\ UNCHANGED <<delayed, stage, unhealthy, pending, hold>>
        /\ completed' = [completed EXCEPT ![t] = TRUE]
    BY <1>9 DEF ContextSettles, Conclude, GoTo, workerVars
  <2>2. completed'[t] = TRUE /\ \A u \in Tasks : u # t => completed'[u] = completed[u]
    BY <2>1 DEF TypeInv, TaskInv
  <2>3. /\ \A v \in Workers : v # t[1] => unacked'[v] = unacked[v] /\ link'[v] = link[v]
        /\ Away(t[1]) \/ (link[t[1]] = TRUE /\ Acks(t[1], t))
    BY <2>1, SettleFacts
  <2>4. ASSUME NEW v \in Workers, v # t[1] PROVE WorkerStep(v)
    <3>1. \A u \in Tasks : u[1] # t[1] => hold'[u] = hold[u] /\ completed'[u] = completed[u]
      BY <2>1, <2>2, <2>3
    <3>2. /\ unacked'[v] = unacked[v] /\ link'[v] = link[v] /\ stage'[v] = stage[v]
          /\ unhealthy'[v] = unhealthy[v] /\ pending'[v] = pending[v]
      BY <2>1, <2>2, <2>3, <2>4
    <3>3. QED
      BY <2>4, <3>1, <3>2, TaskFacts, OthersRest
  <2>5. WorkerStep(t[1])
    <3>1. CASE Away(t[1])
      BY <3>1 DEF WorkerStep
    <3>2. CASE link[t[1]] = TRUE /\ Acks(t[1], t)
      <4>1. Goes(t[1])
        BY <2>1, <3>2 DEF Goes
      <4>2. HandsKept(t[1])
        BY <2>1 DEF HandsKept
      <4>3. Settles(t[1])
        BY <2>2, <3>2, <4>2, TaskFacts DEF Settles
      <4>4. QED
        BY <4>1, <4>3 DEF WorkerStep
    <3>3. QED
      BY <2>3, <3>1, <3>2
  <2>6. QED
    BY <2>4, <2>5
<1>10. ASSUME NEW t \in Tasks, HandlerReturns(t) PROVE \A v \in Workers : WorkerStep(v)
  <2>1. UNCHANGED <<unacked, link, stage, unhealthy>>
    BY <1>10 DEF HandlerReturns, brokerVars
  <2>2. CASE completed[t] /\ TaskEnds(t)
    <3>1. /\ HandsLeft(t[1], t)
          /\ \A v \in Workers : v # t[1] => pending'[v] = pending[v]
          /\ \A u \in Tasks : u # t => hold'[u] = hold[u] /\ completed'[u] = completed[u]
      BY <2>2, EndedHands
    <3>2. ASSUME NEW v \in Workers, v # t[1] PROVE WorkerStep(v)
      BY <2>1, <3>1, <3>2, TaskFacts, OthersRest
    <3>3. WorkerStep(t[1])
      BY <2>1, <2>2, <3>1, TaskFacts, OneLeaves
    <3>4. QED
      BY <3>2, <3>3
  <2>3. CASE GoTo(t, "ack") /\ UNCHANGED completed
    BY <2>1, <2>3, AllRest DEF GoTo
  <2>4. QED
    BY <1>10, <2>2, <2>3 DEF HandlerReturns
<1>11. ASSUME NEW t \in Tasks, HandlerThrows(t) PROVE \A v \in Workers : WorkerStep(v)
  BY <1>11, AllRest DEF HandlerThrows, GoTo, brokerVars, taskVars, workerVars
<1>12. ASSUME NEW t \in Tasks, HandlerThrowsLate(t) PROVE \A v \in Workers : WorkerStep(v)
  BY <1>12, AllRest DEF HandlerThrowsLate, GoTo, brokerVars, taskVars, workerVars
<1>13. ASSUME NEW t \in Tasks, Ack(t) PROVE \A v \in Workers : WorkerStep(v)
  <2>1. /\ Settle(t[1], hold[t]) /\ TaskEnds(t) /\ UNCHANGED <<delayed, stage, unhealthy>>
    BY <1>13 DEF Ack, Conclude
  <2>2. /\ HandsLeft(t[1], t)
        /\ \A v \in Workers : v # t[1] => pending'[v] = pending[v]
        /\ \A u \in Tasks : u # t => hold'[u] = hold[u] /\ completed'[u] = completed[u]
    BY <2>1, EndedHands
  <2>3. /\ \A v \in Workers : v # t[1] => unacked'[v] = unacked[v] /\ link'[v] = link[v]
        /\ Away(t[1]) \/ (link[t[1]] = TRUE /\ Acks(t[1], t))
    BY <2>1, SettleFacts
  <2>4. ASSUME NEW v \in Workers, v # t[1] PROVE WorkerStep(v)
    <3>1. \A u \in Tasks : u[1] # t[1] => hold'[u] = hold[u] /\ completed'[u] = completed[u]
      BY <2>1, <2>2, <2>3
    <3>2. /\ unacked'[v] = unacked[v] /\ link'[v] = link[v] /\ stage'[v] = stage[v]
          /\ unhealthy'[v] = unhealthy[v] /\ pending'[v] = pending[v]
      BY <2>1, <2>2, <2>3, <2>4
    <3>3. QED
      BY <2>4, <3>1, <3>2, TaskFacts, OthersRest
  <2>5. WorkerStep(t[1])
    BY <2>1, <2>2, <2>3, TaskFacts DEF WorkerStep, Goes, Finishes
  <2>6. QED
    BY <2>4, <2>5
<1>14. ASSUME NEW t \in Tasks, AckThrows(t) PROVE \A v \in Workers : WorkerStep(v)
  BY <1>14, AllRest DEF AckThrows, GoTo, brokerVars, taskVars, workerVars
<1>15. ASSUME NEW t \in Tasks, PublishRetry(t) PROVE \A v \in Workers : WorkerStep(v)
  BY <1>15, AllRest DEF PublishRetry, GoTo, brokerVars, taskVars, workerVars
<1>16. ASSUME NEW t \in Tasks, PublishDeadLetter(t) PROVE \A v \in Workers : WorkerStep(v)
  BY <1>16, AllRest DEF PublishDeadLetter, GoTo, brokerVars, taskVars, workerVars
<1>17. ASSUME NEW t \in Tasks, PublishThrows(t) PROVE \A v \in Workers : WorkerStep(v)
  <2>1. /\ UNCHANGED <<unacked, link, stage>> /\ TaskEnds(t)
        /\ unhealthy' = [unhealthy EXCEPT ![t[1]] = TRUE]
    BY <1>17 DEF PublishThrows, brokerVars, ReportError
  <2>2. /\ unhealthy'[t[1]] = TRUE
        /\ \A v \in Workers : v # t[1] => unhealthy'[v] = unhealthy[v]
    BY <2>1, TaskFacts DEF TypeInv, TaskInv
  <2>3. /\ HandsLeft(t[1], t)
        /\ \A v \in Workers : v # t[1] => pending'[v] = pending[v]
        /\ \A u \in Tasks : u # t => hold'[u] = hold[u] /\ completed'[u] = completed[u]
    BY <2>1, EndedHands
  <2>4. ASSUME NEW v \in Workers, v # t[1] PROVE WorkerStep(v)
    <3>1. \A u \in Tasks : u[1] # t[1] => hold'[u] = hold[u] /\ completed'[u] = completed[u]
      BY <2>1, <2>2, <2>3
    <3>2. /\ unacked'[v] = unacked[v] /\ link'[v] = link[v] /\ stage'[v] = stage[v]
          /\ unhealthy'[v] = unhealthy[v] /\ pending'[v] = pending[v]
      BY <2>1, <2>2, <2>3, <2>4
    <3>3. QED
      BY <2>4, <3>1, <3>2, TaskFacts, OthersRest
  <2>5. WorkerStep(t[1])
    BY <2>1, <2>2, <2>3, TaskFacts, OneLeaves
  <2>6. QED
    BY <2>4, <2>5
<1>18. ASSUME NEW t \in Tasks, SettleDelivery(t) PROVE \A v \in Workers : WorkerStep(v)
  <2>1. /\ Settle(t[1], hold[t]) /\ TaskEnds(t) /\ UNCHANGED <<delayed, stage, unhealthy>>
    BY <1>18 DEF SettleDelivery, Conclude
  <2>2. /\ HandsLeft(t[1], t)
        /\ \A v \in Workers : v # t[1] => pending'[v] = pending[v]
        /\ \A u \in Tasks : u # t => hold'[u] = hold[u] /\ completed'[u] = completed[u]
    BY <2>1, EndedHands
  <2>3. /\ \A v \in Workers : v # t[1] => unacked'[v] = unacked[v] /\ link'[v] = link[v]
        /\ Away(t[1]) \/ (link[t[1]] = TRUE /\ Acks(t[1], t))
    BY <2>1, SettleFacts
  <2>4. ASSUME NEW v \in Workers, v # t[1] PROVE WorkerStep(v)
    <3>1. \A u \in Tasks : u[1] # t[1] => hold'[u] = hold[u] /\ completed'[u] = completed[u]
      BY <2>1, <2>2, <2>3
    <3>2. /\ unacked'[v] = unacked[v] /\ link'[v] = link[v] /\ stage'[v] = stage[v]
          /\ unhealthy'[v] = unhealthy[v] /\ pending'[v] = pending[v]
      BY <2>1, <2>2, <2>3, <2>4
    <3>3. QED
      BY <2>4, <3>1, <3>2, TaskFacts, OthersRest
  <2>5. WorkerStep(t[1])
    BY <2>1, <2>2, <2>3, TaskFacts DEF WorkerStep, Goes, Finishes
  <2>6. QED
    BY <2>4, <2>5
<1>19. ASSUME NEW t \in Tasks, Reject(t) PROVE \A v \in Workers : WorkerStep(v)
  <2>1. /\ Settle(t[1], hold[t]) /\ TaskEnds(t) /\ UNCHANGED <<delayed, stage, unhealthy>>
    BY <1>19 DEF Reject, Conclude
  <2>2. /\ HandsLeft(t[1], t)
        /\ \A v \in Workers : v # t[1] => pending'[v] = pending[v]
        /\ \A u \in Tasks : u # t => hold'[u] = hold[u] /\ completed'[u] = completed[u]
    BY <2>1, EndedHands
  <2>3. /\ \A v \in Workers : v # t[1] => unacked'[v] = unacked[v] /\ link'[v] = link[v]
        /\ Away(t[1]) \/ (link[t[1]] = TRUE /\ Acks(t[1], t))
    BY <2>1, SettleFacts
  <2>4. ASSUME NEW v \in Workers, v # t[1] PROVE WorkerStep(v)
    <3>1. \A u \in Tasks : u[1] # t[1] => hold'[u] = hold[u] /\ completed'[u] = completed[u]
      BY <2>1, <2>2, <2>3
    <3>2. /\ unacked'[v] = unacked[v] /\ link'[v] = link[v] /\ stage'[v] = stage[v]
          /\ unhealthy'[v] = unhealthy[v] /\ pending'[v] = pending[v]
      BY <2>1, <2>2, <2>3, <2>4
    <3>3. QED
      BY <2>4, <3>1, <3>2, TaskFacts, OthersRest
  <2>5. WorkerStep(t[1])
    BY <2>1, <2>2, <2>3, TaskFacts DEF WorkerStep, Goes, Finishes
  <2>6. QED
    BY <2>4, <2>5
<1>20. ASSUME NEW t \in Tasks, SettleThrows(t) PROVE \A v \in Workers : WorkerStep(v)
  <2>1. /\ UNCHANGED <<unacked, link, stage>> /\ TaskEnds(t)
        /\ unhealthy' = [unhealthy EXCEPT ![t[1]] = TRUE]
    BY <1>20 DEF SettleThrows, brokerVars, ReportError
  <2>2. /\ unhealthy'[t[1]] = TRUE
        /\ \A v \in Workers : v # t[1] => unhealthy'[v] = unhealthy[v]
    BY <2>1, TaskFacts DEF TypeInv, TaskInv
  <2>3. /\ HandsLeft(t[1], t)
        /\ \A v \in Workers : v # t[1] => pending'[v] = pending[v]
        /\ \A u \in Tasks : u # t => hold'[u] = hold[u] /\ completed'[u] = completed[u]
    BY <2>1, EndedHands
  <2>4. ASSUME NEW v \in Workers, v # t[1] PROVE WorkerStep(v)
    <3>1. \A u \in Tasks : u[1] # t[1] => hold'[u] = hold[u] /\ completed'[u] = completed[u]
      BY <2>1, <2>2, <2>3
    <3>2. /\ unacked'[v] = unacked[v] /\ link'[v] = link[v] /\ stage'[v] = stage[v]
          /\ unhealthy'[v] = unhealthy[v] /\ pending'[v] = pending[v]
      BY <2>1, <2>2, <2>3, <2>4
    <3>3. QED
      BY <2>4, <3>1, <3>2, TaskFacts, OthersRest
  <2>5. WorkerStep(t[1])
    BY <2>1, <2>2, <2>3, TaskFacts, OneLeaves
  <2>6. QED
    BY <2>4, <2>5
<1>21. ASSUME NEW w \in Workers, CloseEnds(w) PROVE \A v \in Workers : WorkerStep(v)
  <2>1. \A v \in Workers : stage'[v] = "open" => stage[v] = "open"
    BY <1>21 DEF CloseEnds, TypeInv, TaskInv
  <2>2. QED
    BY <1>21, <2>1, AllRest DEF CloseEnds, brokerVars, taskVars
<1>22. ASSUME NEW w \in Workers, AdapterCloses(w) PROVE \A v \in Workers : WorkerStep(v)
  <2>1. /\ unacked' = [unacked EXCEPT ![w] = {}] /\ link' = [link EXCEPT ![w] = FALSE]
        /\ UNCHANGED stage /\ UNCHANGED pending
        /\ \A v \in Workers : v # w => unhealthy'[v] = unhealthy[v]
        /\ \A t \in Tasks : t[1] # w => hold'[t] = hold[t] /\ completed'[t] = completed[t]
    BY <1>22 DEF AdapterCloses, ChannelGone, ReportError, taskVars, workerVars, TypeInv, TaskInv
  <2>2. /\ link'[w] = FALSE
        /\ \A v \in Workers : v # w => /\ unacked'[v] = unacked[v] /\ link'[v] = link[v]
                                     /\ pending'[v] = pending[v]
    BY <2>1 DEF TypeInv, BrokerInv, TaskInv
  <2>3. ASSUME NEW v \in Workers, v # w PROVE WorkerStep(v)
    BY <2>1, <2>2, <2>3, OthersRest
  <2>4. WorkerStep(w)
    BY <2>2 DEF WorkerStep, Away
  <2>5. QED
    BY <2>3, <2>4
<1>23. ASSUME NEW w \in Workers, Replace(w) PROVE \A v \in Workers : WorkerStep(v)
  <2>1. /\ unacked' = [unacked EXCEPT ![w] = {}] /\ link' = [link EXCEPT ![w] = TRUE]
        /\ stage' = [stage EXCEPT ![w] = "open"] /\ unhealthy' = [unhealthy EXCEPT ![w] = FALSE]
        /\ pending' = [pending EXCEPT ![w] = <<>>]
        /\ \A t \in Tasks : t[1] # w => hold'[t] = hold[t] /\ completed'[t] = completed[t]
        /\ \A t \in Tasks : t[1] = w => hold'[t] = NoCopy /\ completed'[t] = FALSE
    BY <1>23 DEF Replace
  <2>2. /\ unacked'[w] = {} /\ pending'[w] = <<>>
        /\ \A v \in Workers : v # w => /\ unacked'[v] = unacked[v] /\ link'[v] = link[v]
                                     /\ stage'[v] = stage[v] /\ unhealthy'[v] = unhealthy[v]
                                     /\ pending'[v] = pending[v]
    BY <2>1 DEF TypeInv, BrokerInv, TaskInv
  <2>3. ASSUME NEW v \in Workers, v # w PROVE WorkerStep(v)
    BY <2>1, <2>2, <2>3, OthersRest
  <2>4. Fresh(w)
    BY <2>1, <2>2, TaskFacts DEF Fresh
  <2>5. QED
    BY <2>3, <2>4 DEF WorkerStep
<1>24. ASSUME NEW w \in Workers, CloseStart(w) PROVE \A v \in Workers : WorkerStep(v)
  <2> DEFINE back == {pending[w][i] : i \in DOMAIN pending[w]}
  <2>1. /\ unacked' = [unacked EXCEPT ![w] = @ \ (back \cap unacked[w])]
        /\ \E s \in {"closing", "leaving"} : stage' = [stage EXCEPT ![w] = s]
        /\ pending' = [pending EXCEPT ![w] = <<>>]
        /\ UNCHANGED <<link, unhealthy, hold, completed>>
    BY <1>24 DEF CloseStart, taskVars
  <2> HIDE DEF back
  <2>2. /\ unacked'[w] = unacked[w] \ back /\ pending'[w] = <<>> /\ stage'[w] # "open"
        /\ \A v \in Workers : v # w => /\ unacked'[v] = unacked[v] /\ stage'[v] = stage[v]
                                     /\ pending'[v] = pending[v]
    BY <2>1 DEF TypeInv, BrokerInv, TaskInv
  <2>3. ASSUME NEW v \in Workers, v # w PROVE WorkerStep(v)
    BY <2>1, <2>2, <2>3, OthersRest
  <2>4. Closes(w)
    BY <2>1, <2>2 DEF Closes, back
  <2>5. WorkerStep(w)
    <3>1. CASE link[w] = TRUE
      BY <2>1, <2>2, <2>4, <3>1 DEF WorkerStep, Goes
    <3>2. CASE link[w] = FALSE
      BY <2>1, <3>2 DEF WorkerStep, Away
    <3>3. link[w] \in BOOLEAN
      BY DEF TypeInv, BrokerInv
    <3>4. QED
      BY <3>1, <3>2, <3>3
  <2>6. QED
    BY <2>3, <2>5
<1>25. ASSUME NEW w \in Workers, CloseTimesOut(w) \/ BusClose(w) PROVE \A v \in Workers : WorkerStep(v)
  <2>1. \A v \in Workers : stage'[v] = "open" => stage[v] = "open"
    BY <1>25 DEF CloseTimesOut, BusClose, TypeInv, TaskInv
  <2>2. QED
    BY <1>25, <2>1, AllRest DEF CloseTimesOut, BusClose, brokerVars, taskVars
<1>26. ASSUME NEW w \in Workers, ChannelLost(w) PROVE \A v \in Workers : WorkerStep(v)
  <2>1. /\ unacked' = [unacked EXCEPT ![w] = {}] /\ link' = [link EXCEPT ![w] = FALSE]
        /\ UNCHANGED stage /\ UNCHANGED pending
        /\ \A v \in Workers : v # w => unhealthy'[v] = unhealthy[v]
        /\ \A t \in Tasks : t[1] # w => hold'[t] = hold[t] /\ completed'[t] = completed[t]
    BY <1>26 DEF ChannelLost, ChannelGone, ReportError, taskVars, workerVars, TypeInv, TaskInv
  <2>2. /\ link'[w] = FALSE
        /\ \A v \in Workers : v # w => /\ unacked'[v] = unacked[v] /\ link'[v] = link[v]
                                     /\ pending'[v] = pending[v]
    BY <2>1 DEF TypeInv, BrokerInv, TaskInv
  <2>3. ASSUME NEW v \in Workers, v # w PROVE WorkerStep(v)
    BY <2>1, <2>2, <2>3, OthersRest
  <2>4. WorkerStep(w)
    BY <2>2 DEF WorkerStep, Away
  <2>5. QED
    BY <2>3, <2>4
<1>27. ASSUME NEW w \in Workers, Crash(w) PROVE \A v \in Workers : WorkerStep(v)
  <2>1. /\ unacked' = [unacked EXCEPT ![w] = {}] /\ link' = [link EXCEPT ![w] = FALSE]
        /\ UNCHANGED stage /\ pending' = [pending EXCEPT ![w] = <<>>]
        /\ \A v \in Workers : v # w => unhealthy'[v] = unhealthy[v]
        /\ \A t \in Tasks : t[1] # w => hold'[t] = hold[t] /\ completed'[t] = completed[t]
    BY <1>27 DEF Crash, ChannelGone, ReportError, taskVars, workerVars, TypeInv, TaskInv
  <2>2. /\ link'[w] = FALSE
        /\ \A v \in Workers : v # w => /\ unacked'[v] = unacked[v] /\ link'[v] = link[v]
                                     /\ pending'[v] = pending[v]
    BY <2>1 DEF TypeInv, BrokerInv, TaskInv
  <2>3. ASSUME NEW v \in Workers, v # w PROVE WorkerStep(v)
    BY <2>1, <2>2, <2>3, OthersRest
  <2>4. WorkerStep(w)
    BY <2>2 DEF WorkerStep, Away
  <2>5. QED
    BY <2>3, <2>4
<1>28. CASE UNCHANGED vars
  BY <1>28, AllRest DEF vars, brokerVars, taskVars, workerVars
<1>29. QED
  BY <1>1, <1>2, <1>3, <1>4, <1>5, <1>6, <1>7, <1>8, <1>9, <1>10, <1>11, <1>12, <1>13, <1>14, <1>15, <1>16, <1>17, <1>18, <1>19, <1>20, <1>21, <1>22, <1>23, <1>24, <1>25, <1>26, <1>27, <1>28
  DEF Next, Process, Shutdown

\* What an open channel delivered: a copy that the worker has in hand is on its channel
\* or nowhere at the broker, it is in hand once, and it is off the channel once the
\* handler settled it.
Distinct(v) ==
  /\ \A t, u \in TasksOf(v) : t # u /\ hold[t] # NoCopy => hold[t] # hold[u]
  /\ \A t \in TasksOf(v) : \A i \in DOMAIN pending[v] : hold[t] # pending[v][i]
  /\ \A i, k \in DOMAIN pending[v] : i # k => pending[v][i] # pending[v][k]

HandsOf(v) ==
  /\ \A c \in InHand(v) : c \in AllLive => c \in unacked[v]
  /\ \A t \in TasksOf(v) : completed[t] => hold[t] \notin unacked[v]
  /\ Distinct(v)

HandsInv ==
  \A v \in Workers : /\ link[v] => HandsOf(v)
                     /\ ~link[v] => unacked[v] = {}

LEMMA InHandFacts ==
  ASSUME NEW v \in Workers
  PROVE  /\ \A t \in TasksOf(v) : hold[t] \in InHand(v)
         /\ \A i \in DOMAIN pending[v] : pending[v][i] \in InHand(v)
         /\ \A c \in InHand(v) : \/ \E t \in TasksOf(v) : c = hold[t]
                                 \/ \E i \in DOMAIN pending[v] : c = pending[v][i]
BY DEF InHand

LEMMA InHandFactsAfter ==
  ASSUME NEW v \in Workers
  PROVE  /\ \A t \in TasksOf(v) : hold'[t] \in InHand(v)'
         /\ \A i \in DOMAIN pending'[v] : pending'[v][i] \in InHand(v)'
         /\ \A c \in InHand(v)' : \/ \E t \in TasksOf(v) : c = hold'[t]
                                  \/ \E i \in DOMAIN pending'[v] : c = pending'[v][i]
BY DEF InHand

LEMMA PendingIsCopy ==
  ASSUME TypeInv, NEW v \in Workers, NEW i \in DOMAIN pending[v]
  PROVE  pending[v][i] \in Copy /\ pending[v][i] # NoCopy
<1>1. pending[v] \in Seq(Copy)
  BY DEF TypeInv, TaskInv
<1>2. QED
  BY <1>1, CopyFacts

\* A copy that appears in the broker is in nobody's hands.
LEMMA NewIsNobodys ==
  ASSUME TypeInv, [Next]_vars, NEW c \in AllLive', c \notin AllLive, NEW v \in Workers
  PROVE  c \notin InHand(v)
<1>1. /\ \A t \in TasksOf(v) : t \in Tasks /\ (pc[t] = "free" <=> hold[t] = NoCopy)
      /\ \A t \in TasksOf(v) : pc[t] # "free" => hold[t].job \in enqueued
      /\ \A i \in DOMAIN pending[v] : pending[v][i].job \in enqueued
  BY TaskFacts DEF TypeInv, TaskInv
<1>2. c # NoCopy
  BY StepTypes, LiveIsCopyAfter, CopyFacts
<1>3. CASE c.job \notin enqueued
  BY <1>1, <1>2, <1>3, InHandFacts
<1>4. ASSUME NEW t \in Tasks, pc[t] # "free", c = NextCopy(hold[t]) PROVE c \notin InHand(v)
  <2>1. /\ \A u \in Tasks : c # hold[u]
        /\ \A i \in DOMAIN pending[v] : c # pending[v][i]
    BY <1>4, HeldFacts, NextCopyIsNew
  <2>2. QED
    BY <1>1, <2>1, InHandFacts
<1>5. QED
  BY <1>3, <1>4, StepCopies DEF CopiesStep

\* Whatever the step, what stays on the channel of v and in its hands fits together.
LEMMA HandsKeep ==
  ASSUME NEW v \in Workers, HandsOf(v), \A c \in AllLive' : c \in AllLive \/ c \notin InHand(v),
         \A c \in InHand(v)' : c \in InHand(v) \/ c \in unacked'[v],
         \A c \in InHand(v)' : c \in unacked[v] /\ c \in AllLive' => c \in unacked'[v],
         \A t \in TasksOf(v) : completed'[t] => hold'[t] \notin unacked'[v],
         Distinct(v)'
  PROVE  HandsOf(v)'
BY DEF HandsOf

LEMMA TakesHands ==
  ASSUME TypeInv, FlagInv, NEW v \in Workers, HandsOf(v), Takes(v),
         \A c \in AllLive' : c \in AllLive \/ c \notin InHand(v)
  PROVE  /\ HandsOf(v)'
         /\ stage'[v] = "open" =>
              \A c \in unacked'[v] : c \in InHand(v)' \/ (c \in unacked[v] /\ c \notin InHand(v))
<1>1. PICK d \in ready :
        /\ unacked'[v] = unacked[v] \cup {d}
        /\ FlagsKept(v)
        /\ \/ stage'[v] # "open" /\ HandsKept(v)
           \/ /\ pending'[v] = pending[v]
              /\ \E t \in TasksOf(v) :
                   /\ hold[t] = NoCopy /\ hold'[t] = d
                   /\ \A u \in TasksOf(v) : u # t => hold'[u] = hold[u]
           \/ /\ pending'[v] = Append(pending[v], d)
              /\ \A t \in TasksOf(v) : hold'[t] = hold[t]
  BY DEF Takes
<1>2. /\ d \notin InHand(v) /\ d \notin unacked[v] /\ d # NoCopy /\ d \in AllLive
      /\ NoCopy \notin unacked[v]
  <2>1. d \in AllLive /\ d \notin unacked[v]
    BY DEF AllLive, TypeInv, BrokerInv
  <2>2. QED
    BY <2>1, CopyFacts DEF HandsOf, TypeInv, BrokerInv
<1>3. \A t \in TasksOf(v) : hold[t] # d
  BY <1>2, InHandFacts
<1>4. \A i \in DOMAIN pending[v] : pending[v][i] # d
  BY <1>2, InHandFacts
<1>5. /\ \A c \in InHand(v)' : c \in InHand(v) \/ c \in unacked'[v]
      /\ \A t \in TasksOf(v) : completed'[t] => hold'[t] \notin unacked'[v]
      /\ Distinct(v)'
      /\ stage'[v] = "open" =>
           \A c \in unacked'[v] : c \in InHand(v)' \/ (c \in unacked[v] /\ c \notin InHand(v))
  <2>1. CASE stage'[v] # "open" /\ HandsKept(v)
    BY <1>1, <1>3, <2>1, InHandFacts, InHandFactsAfter
       DEF HandsKept, FlagsKept, HandsOf, Distinct
  <2>2. ASSUME pending'[v] = pending[v], NEW t \in TasksOf(v), hold[t] = NoCopy, hold'[t] = d,
               \A u \in TasksOf(v) : u # t => hold'[u] = hold[u]
        PROVE  /\ \A c \in InHand(v)' : c \in InHand(v) \/ c \in unacked'[v]
               /\ \A u \in TasksOf(v) : completed'[u] => hold'[u] \notin unacked'[v]
               /\ Distinct(v)'
               /\ \A c \in unacked'[v] : c \in InHand(v)' \/ (c \in unacked[v] /\ c \notin InHand(v))
    <3>1. \A c \in InHand(v)' : c \in InHand(v) \/ c \in unacked'[v]
      BY <1>1, <2>2, InHandFacts, InHandFactsAfter
    <3>2. ~completed[t]
      BY <2>2, TaskFacts DEF FlagInv
    <3>3. \A u \in TasksOf(v) : completed'[u] => hold'[u] \notin unacked'[v]
      BY <1>1, <1>3, <2>2, <3>2 DEF FlagsKept, HandsOf
    <3>4. Distinct(v)'
      BY <1>3, <1>4, <2>2 DEF HandsOf, Distinct
    <3>5. \A c \in unacked'[v] : c \in InHand(v)' \/ (c \in unacked[v] /\ c \notin InHand(v))
      BY <1>1, <1>2, <2>2, InHandFacts, InHandFactsAfter
    <3>6. QED
      BY <3>1, <3>3, <3>4, <3>5
  <2>3. CASE /\ pending'[v] = Append(pending[v], d)
             /\ \A t \in TasksOf(v) : hold'[t] = hold[t]
    <3>1. pending[v] \in Seq(Copy)
      BY DEF TypeInv, TaskInv
    <3>2. PICK n \in Nat : n = Len(pending[v])
      BY <3>1
    <3>3. /\ DOMAIN pending[v] = 1..n /\ DOMAIN pending'[v] = 1..(n + 1)
          /\ pending'[v][n + 1] = d
          /\ \A i \in 1..n : pending'[v][i] = pending[v][i]
      BY <2>3, <3>1, <3>2
    <3>4. \A i \in DOMAIN pending'[v] :
             \/ i = n + 1 /\ pending'[v][i] = d
             \/ i \in DOMAIN pending[v] /\ pending'[v][i] = pending[v][i]
      BY <3>3
    <3>5. /\ n + 1 \in DOMAIN pending'[v]
          /\ \A i \in DOMAIN pending[v] : i \in DOMAIN pending'[v] /\ pending'[v][i] = pending[v][i]
      BY <3>3
    <3>6. \A c \in InHand(v)' : c \in InHand(v) \/ c \in unacked'[v]
      BY <1>1, <2>3, <3>4, InHandFacts, InHandFactsAfter
    <3>7. \A u \in TasksOf(v) : completed'[u] => hold'[u] \notin unacked'[v]
      BY <1>1, <1>3, <2>3 DEF FlagsKept, HandsOf
    <3>8. Distinct(v)'
      BY <1>3, <1>4, <2>3, <3>4 DEF HandsOf, Distinct
    <3>9. \A c \in unacked'[v] : c \in InHand(v)' \/ (c \in unacked[v] /\ c \notin InHand(v))
      BY <1>1, <2>3, <3>3, <3>5, InHandFacts, InHandFactsAfter
    <3>10. QED
      BY <3>6, <3>7, <3>8, <3>9
  <2>4. QED
    BY <1>1, <2>1, <2>2, <2>3
<1>6. \A c \in InHand(v)' : c \in unacked[v] /\ c \in AllLive' => c \in unacked'[v]
  BY <1>1
<1>7. QED
  BY <1>5, <1>6, HandsKeep

LEMMA LeftHands ==
  ASSUME TypeInv, TypeInv', NEW v \in Workers, NEW t \in TasksOf(v), Distinct(v), HandsLeft(v, t)
  PROVE  /\ Distinct(v)'
         /\ \A c \in InHand(v)' : c \in InHand(v) \/ c = NoCopy
         /\ \A c \in InHand(v) : c \in InHand(v)' \/ c = hold[t]
<1>1. /\ \A u \in TasksOf(v) : u # t => hold'[u] = hold[u]
      /\ \A i \in DOMAIN pending'[v] :
           \E k \in DOMAIN pending[v] : k # 1 /\ k = i + 1 /\ pending'[v][i] = pending[v][k]
      /\ \/ hold'[t] = NoCopy /\ pending[v] = <<>>
         \/ /\ 1 \in DOMAIN pending[v] /\ hold'[t] = pending[v][1]
            /\ \A k \in DOMAIN pending[v] :
                 k # 1 => \E i \in DOMAIN pending'[v] : pending'[v][i] = pending[v][k]
  BY DEF HandsLeft
<1>2. \A i, m \in DOMAIN pending'[v] : i # m => pending'[v][i] # pending'[v][m]
  <2> SUFFICES ASSUME NEW i \in DOMAIN pending'[v], NEW m \in DOMAIN pending'[v], i # m
               PROVE  pending'[v][i] # pending'[v][m]
    OBVIOUS
  <2>1. pending'[v] \in Seq(Copy)
    BY DEF TypeInv, TaskInv
  <2>2. i \in Nat /\ m \in Nat
    BY <2>1
  <2>3. PICK k \in DOMAIN pending[v] : k = i + 1 /\ pending'[v][i] = pending[v][k]
    BY <1>1
  <2>4. PICK l \in DOMAIN pending[v] : l = m + 1 /\ pending'[v][m] = pending[v][l]
    BY <1>1
  <2>5. k # l
    BY <2>2, <2>3, <2>4
  <2>6. QED
    BY <2>3, <2>4, <2>5 DEF Distinct
<1>3. \A u \in TasksOf(v) : \A i \in DOMAIN pending'[v] : hold'[u] # pending'[v][i]
  <2> SUFFICES ASSUME NEW u \in TasksOf(v), NEW i \in DOMAIN pending'[v]
               PROVE  hold'[u] # pending'[v][i]
    OBVIOUS
  <2>1. PICK k \in DOMAIN pending[v] : k # 1 /\ pending'[v][i] = pending[v][k]
    BY <1>1
  <2>2. CASE u # t
    BY <1>1, <2>1, <2>2 DEF Distinct
  <2>3. CASE u = t
    <3>1. pending[v] # <<>>
      BY <2>1
    <3>2. QED
      BY <1>1, <2>1, <2>3, <3>1 DEF Distinct
  <2>4. QED
    BY <2>2, <2>3
<1>4. \A u, x \in TasksOf(v) : u # x /\ hold'[u] # NoCopy => hold'[u] # hold'[x]
  BY <1>1 DEF Distinct
<1>5. \A c \in InHand(v)' : c \in InHand(v) \/ c = NoCopy
  BY <1>1, InHandFacts, InHandFactsAfter
<1>6. \A c \in InHand(v) : c \in InHand(v)' \/ c = hold[t]
  <2> SUFFICES ASSUME NEW c \in InHand(v), c # hold[t] PROVE c \in InHand(v)'
    OBVIOUS
  <2>1. CASE \E u \in TasksOf(v) : c = hold[u]
    BY <1>1, <2>1, InHandFactsAfter
  <2>2. CASE \E k \in DOMAIN pending[v] : c = pending[v][k]
    <3>1. PICK k \in DOMAIN pending[v] : c = pending[v][k]
      BY <2>2
    <3>2. pending[v] # <<>>
      BY <3>1
    <3>3. CASE k = 1
      BY <1>1, <3>1, <3>2, <3>3, InHandFactsAfter
    <3>4. CASE k # 1
      BY <1>1, <3>1, <3>2, <3>4, InHandFactsAfter
    <3>5. QED
      BY <3>3, <3>4
  <2>3. QED
    BY <2>1, <2>2, InHandFacts
<1>7. QED
  BY <1>2, <1>3, <1>4, <1>5, <1>6 DEF Distinct

LEMMA HandsOfStep ==
  ASSUME TypeInv, TypeInv', FlagInv, NEW v \in Workers, HandsOf(v), Goes(v),
         Rests(v) \/ Takes(v) \/ Settles(v) \/ Finishes(v) \/ Leaves(v) \/ Closes(v),
         \A c \in AllLive' : c \in AllLive \/ c \notin InHand(v)
  PROVE  /\ HandsOf(v)'
         /\ stage'[v] = "open" =>
              \A c \in unacked'[v] : \/ c \in InHand(v)' \/ unhealthy'[v]
                                     \/ c \in unacked[v] /\ c \notin InHand(v)
<1>0. NoCopy \notin AllLive' /\ NoCopy \notin unacked[v] /\ NoCopy \notin unacked'[v]
  BY LiveIsCopyAfter, CopyFacts DEF TypeInv, BrokerInv
<1>1. CASE Rests(v)
  <2>1. InHand(v)' = InHand(v) /\ Distinct(v)'
    BY <1>1 DEF Rests, HandsKept, InHand, HandsOf, Distinct
  <2>2. \A t \in TasksOf(v) : completed'[t] => hold'[t] \notin unacked'[v]
    BY <1>1 DEF Rests, HandsKept, FlagsKept, HandsOf
  <2>3. unacked'[v] = unacked[v]
    BY <1>1 DEF Rests
  <2>4. HandsOf(v)'
    BY <2>1, <2>2, <2>3, HandsKeep
  <2>5. QED
    BY <2>1, <2>3, <2>4
<1>2. CASE Takes(v)
  BY <1>2, TakesHands
<1>3. CASE Settles(v)
  <2>1. PICK t \in TasksOf(v) :
           /\ Acks(v, t) /\ HandsKept(v)
           /\ completed'[t] /\ \A u \in TasksOf(v) : u # t => completed'[u] = completed[u]
    BY <1>3 DEF Settles
  <2>2. InHand(v)' = InHand(v) /\ Distinct(v)'
    BY <2>1 DEF HandsKept, InHand, HandsOf, Distinct
  <2>3. /\ unacked'[v] = unacked[v] \ {hold[t]} /\ hold[t] \notin AllLive'
    BY <2>1 DEF Acks
  <2>4. \A u \in TasksOf(v) : completed'[u] => hold'[u] \notin unacked'[v]
    BY <2>1, <2>3 DEF HandsKept, HandsOf
  <2>5. HandsOf(v)'
    BY <2>2, <2>3, <2>4, HandsKeep
  <2>6. QED
    BY <2>2, <2>3, <2>5
<1>4. CASE Finishes(v)
  <2>1. PICK t \in TasksOf(v) : Acks(v, t) /\ HandsLeft(v, t)
    BY <1>4 DEF Finishes
  <2>2. /\ Distinct(v)'
        /\ \A c \in InHand(v)' : c \in InHand(v) \/ c = NoCopy
        /\ \A c \in InHand(v) : c \in InHand(v)' \/ c = hold[t]
    BY <2>1, LeftHands DEF HandsOf
  <2>3. unacked'[v] = unacked[v] \ {hold[t]} /\ hold[t] \notin AllLive'
    BY <2>1 DEF Acks
  <2>4. \A u \in TasksOf(v) : completed'[u] => hold'[u] \notin unacked'[v]
    BY <2>1, <2>3 DEF HandsLeft, HandsOf
  <2>5. HandsOf(v)'
    BY <1>0, <2>2, <2>3, <2>4 DEF HandsOf
  <2>6. QED
    BY <2>2, <2>3, <2>5
<1>5. CASE Leaves(v)
  <2>1. PICK t \in TasksOf(v) :
           unacked'[v] = unacked[v] /\ HandsLeft(v, t) /\ (completed[t] \/ unhealthy'[v])
    BY <1>5 DEF Leaves
  <2>2. /\ Distinct(v)'
        /\ \A c \in InHand(v)' : c \in InHand(v) \/ c = NoCopy
        /\ \A c \in InHand(v) : c \in InHand(v)' \/ c = hold[t]
    BY <2>1, LeftHands DEF HandsOf
  <2>3. \A u \in TasksOf(v) : completed'[u] => hold'[u] \notin unacked'[v]
    BY <2>1 DEF HandsLeft, HandsOf
  <2>4. HandsOf(v)'
    BY <1>0, <2>1, <2>2, <2>3 DEF HandsOf
  <2>5. QED
    BY <2>1, <2>2, <2>4 DEF HandsOf
<1>6. CASE Closes(v)
  <2>1. /\ stage'[v] # "open" /\ pending'[v] = <<>>
        /\ unacked'[v] = unacked[v] \ {pending[v][i] : i \in DOMAIN pending[v]}
        /\ \A t \in TasksOf(v) : hold'[t] = hold[t] /\ completed'[t] = completed[t]
    BY <1>6 DEF Closes
  <2>2. \A c \in InHand(v)' : \E t \in TasksOf(v) : c = hold[t]
    BY <2>1, InHandFactsAfter
  <2>3. \A c \in InHand(v)' : c \in InHand(v) /\ \A i \in DOMAIN pending[v] : c # pending[v][i]
    BY <2>2, InHandFacts DEF HandsOf, Distinct
  <2>4. \A c \in InHand(v)' : c \in unacked[v] => c \in unacked'[v]
    BY <2>1, <2>3
  <2>5. Distinct(v)'
    BY <2>1 DEF HandsOf, Distinct
  <2>6. \A t \in TasksOf(v) : completed'[t] => hold'[t] \notin unacked'[v]
    BY <2>1 DEF HandsOf
  <2>7. QED
    BY <2>1, <2>3, <2>4, <2>5, <2>6, HandsKeep
<1>7. QED
  BY <1>1, <1>2, <1>3, <1>4, <1>5, <1>6

LEMMA SettledLink ==
  ASSUME TypeInv, HandsInv, NEW t \in Tasks, Settle(t[1], hold[t]), NEW v \in Workers, ~link'[v]
  PROVE  unacked'[v] = {}
<1> DEFINE w == t[1]
           c == hold[t]
<1>1. Settle(w, c) /\ w \in Workers
  BY TaskFacts
<1> HIDE DEF w, c
<1>2. unacked \in [Workers -> SUBSET Copy] /\ link \in [Workers -> BOOLEAN]
  BY DEF TypeInv, BrokerInv
<1>3. ~link[v] => unacked[v] = {}
  BY DEF HandsInv
<1>4. CASE c \notin unacked[w] /\ link[w]
  BY <1>1, <1>2, <1>3, <1>4 DEF Settle, ChannelGone
<1>5. CASE ~(c \notin unacked[w] /\ link[w])
  BY <1>1, <1>2, <1>3, <1>5 DEF Settle
<1>6. QED
  BY <1>4, <1>5

\* A channel that is gone has no unacked deliveries.
LEMMA StepLink ==
  ASSUME TypeInv, HandsInv, [Next]_vars, NEW v \in Workers, ~link'[v]
  PROVE  unacked'[v] = {}
<1>1. ASSUME NEW j \in Jobs, Enqueue(j) PROVE unacked'[v] = {}
  BY <1>1 DEF Enqueue, brokerVars, HandsInv
<1>2. ASSUME RetryDue PROVE unacked'[v] = {}
  BY <1>2 DEF RetryDue, brokerVars, HandsInv
<1>3. ASSUME NEW w \in Workers, Deliver(w) PROVE unacked'[v] = {}
  BY <1>3 DEF Deliver, HandsInv, TypeInv, BrokerInv
<1>4. ASSUME NEW t \in Tasks, RunHandler(t) PROVE unacked'[v] = {}
  BY <1>4 DEF RunHandler, brokerVars, HandsInv
<1>5. ASSUME NEW t \in Tasks, Undecodable(t) PROVE unacked'[v] = {}
  BY <1>5 DEF Undecodable, brokerVars, HandsInv
<1>6. ASSUME NEW t \in Tasks, ContextAck(t) PROVE unacked'[v] = {}
  BY <1>6, SettledLink DEF ContextAck, Conclude
<1>7. ASSUME NEW t \in Tasks, ContextRetry(t) PROVE unacked'[v] = {}
  BY <1>7 DEF ContextRetry, brokerVars, HandsInv
<1>8. ASSUME NEW t \in Tasks, ContextDeadLetter(t) PROVE unacked'[v] = {}
  BY <1>8 DEF ContextDeadLetter, brokerVars, HandsInv
<1>9. ASSUME NEW t \in Tasks, ContextSettles(t) PROVE unacked'[v] = {}
  BY <1>9, SettledLink DEF ContextSettles, Conclude
<1>10. ASSUME NEW t \in Tasks, HandlerReturns(t) PROVE unacked'[v] = {}
  BY <1>10 DEF HandlerReturns, brokerVars, HandsInv
<1>11. ASSUME NEW t \in Tasks, HandlerThrows(t) PROVE unacked'[v] = {}
  BY <1>11 DEF HandlerThrows, brokerVars, HandsInv
<1>12. ASSUME NEW t \in Tasks, HandlerThrowsLate(t) PROVE unacked'[v] = {}
  BY <1>12 DEF HandlerThrowsLate, brokerVars, HandsInv
<1>13. ASSUME NEW t \in Tasks, Ack(t) PROVE unacked'[v] = {}
  BY <1>13, SettledLink DEF Ack, Conclude
<1>14. ASSUME NEW t \in Tasks, AckThrows(t) PROVE unacked'[v] = {}
  BY <1>14 DEF AckThrows, brokerVars, HandsInv
<1>15. ASSUME NEW t \in Tasks, PublishRetry(t) PROVE unacked'[v] = {}
  BY <1>15 DEF PublishRetry, brokerVars, HandsInv
<1>16. ASSUME NEW t \in Tasks, PublishDeadLetter(t) PROVE unacked'[v] = {}
  BY <1>16 DEF PublishDeadLetter, brokerVars, HandsInv
<1>17. ASSUME NEW t \in Tasks, PublishThrows(t) PROVE unacked'[v] = {}
  BY <1>17 DEF PublishThrows, brokerVars, HandsInv
<1>18. ASSUME NEW t \in Tasks, SettleDelivery(t) PROVE unacked'[v] = {}
  BY <1>18, SettledLink DEF SettleDelivery, Conclude
<1>19. ASSUME NEW t \in Tasks, Reject(t) PROVE unacked'[v] = {}
  BY <1>19, SettledLink DEF Reject, Conclude
<1>20. ASSUME NEW t \in Tasks, SettleThrows(t) PROVE unacked'[v] = {}
  BY <1>20 DEF SettleThrows, brokerVars, HandsInv
<1>21. ASSUME NEW w \in Workers, CloseEnds(w) PROVE unacked'[v] = {}
  BY <1>21 DEF CloseEnds, brokerVars, HandsInv
<1>22. ASSUME NEW w \in Workers, AdapterCloses(w) PROVE unacked'[v] = {}
  BY <1>22 DEF AdapterCloses, ChannelGone, HandsInv, TypeInv, BrokerInv
<1>23. ASSUME NEW w \in Workers, Replace(w) PROVE unacked'[v] = {}
  BY <1>23 DEF Replace, HandsInv, TypeInv, BrokerInv
<1>24. ASSUME NEW w \in Workers, CloseStart(w) PROVE unacked'[v] = {}
  BY <1>24 DEF CloseStart, HandsInv, TypeInv, BrokerInv
<1>25. ASSUME NEW w \in Workers, CloseTimesOut(w) \/ BusClose(w) PROVE unacked'[v] = {}
  BY <1>25 DEF CloseTimesOut, BusClose, brokerVars, HandsInv
<1>26. ASSUME NEW w \in Workers, ChannelLost(w) PROVE unacked'[v] = {}
  BY <1>26 DEF ChannelLost, ChannelGone, HandsInv, TypeInv, BrokerInv
<1>27. ASSUME NEW w \in Workers, Crash(w) PROVE unacked'[v] = {}
  BY <1>27 DEF Crash, ChannelGone, HandsInv, TypeInv, BrokerInv
<1>28. CASE UNCHANGED vars
  BY <1>28 DEF vars, brokerVars, HandsInv
<1>29. QED
  BY <1>1, <1>2, <1>3, <1>4, <1>5, <1>6, <1>7, <1>8, <1>9, <1>10, <1>11, <1>12, <1>13, <1>14, <1>15, <1>16, <1>17, <1>18, <1>19, <1>20, <1>21, <1>22, <1>23, <1>24, <1>25, <1>26, <1>27, <1>28
  DEF Next, Process, Shutdown

LEMMA InitHands == Init => HandsInv /\ StuckIsReported
<1> SUFFICES ASSUME Init PROVE HandsInv /\ StuckIsReported
  OBVIOUS
<1>1. \A v \in Workers : unacked[v] = {} /\ link[v] = TRUE
  BY DEF Init
<1>2. \A v \in Workers : pending[v] = <<>> /\ \A t \in TasksOf(v) : hold[t] = NoCopy /\ ~completed[t]
  BY TaskFacts DEF Init
<1>3. NoCopy \notin AllLive
  BY DEF Init, AllLive
<1>4. \A v \in Workers : \A c \in InHand(v) : c = NoCopy
  BY <1>2 DEF InHand
<1>5. \A v \in Workers : Distinct(v)
  BY <1>2 DEF Distinct
<1>6. QED
  BY <1>1, <1>2, <1>3, <1>4, <1>5 DEF HandsInv, HandsOf, StuckIsReported

LEMMA StepHands ==
  ASSUME TypeInv, FlagInv, HandsInv, StuckIsReported, [Next]_vars
  PROVE  HandsInv' /\ StuckIsReported'
<1>0. TypeInv' /\ \A v \in Workers : WorkerStep(v)
  BY StepTypes, StepWorkers
<1>1. ASSUME NEW v \in Workers PROVE link'[v] => HandsOf(v)'
  <2>1. CASE Away(v)
    BY <2>1 DEF Away
  <2>2. CASE Fresh(v)
    <3>1. /\ pending'[v] = <<>> /\ unacked'[v] = {}
          /\ \A t \in TasksOf(v) : hold'[t] = NoCopy /\ ~completed'[t]
      BY <2>2 DEF Fresh
    <3>2. NoCopy \notin AllLive'
      BY <1>0, LiveIsCopyAfter, CopyFacts
    <3>3. \A c \in InHand(v)' : c = NoCopy
      BY <3>1, InHandFactsAfter
    <3>4. Distinct(v)'
      BY <3>1 DEF Distinct
    <3>5. QED
      BY <3>1, <3>2, <3>3, <3>4 DEF HandsOf
  <2>3. CASE Goes(v) /\ (Rests(v) \/ Takes(v) \/ Settles(v) \/ Finishes(v) \/ Leaves(v) \/ Closes(v))
    <3>1. HandsOf(v)
      BY <2>3 DEF Goes, HandsInv
    <3>2. \A c \in AllLive' : c \in AllLive \/ c \notin InHand(v)
      BY NewIsNobodys
    <3>3. QED
      BY <1>0, <2>3, <3>1, <3>2, HandsOfStep
  <2>4. QED
    BY <1>0, <2>1, <2>2, <2>3 DEF WorkerStep
<1>2. \A v \in Workers : ~link'[v] => unacked'[v] = {}
  BY StepLink
<1>3. ASSUME NEW v \in Workers, stage'[v] = "open", NEW c \in unacked'[v], c \notin InHand(v)'
      PROVE  unhealthy'[v]
  <2>1. CASE Away(v)
    BY <1>2, <1>3, <2>1 DEF Away
  <2>2. CASE Fresh(v)
    BY <1>3, <2>2 DEF Fresh
  <2>3. CASE Goes(v) /\ (Rests(v) \/ Takes(v) \/ Settles(v) \/ Finishes(v) \/ Leaves(v) \/ Closes(v))
    <3>1. HandsOf(v)
      BY <2>3 DEF Goes, HandsInv
    <3>2. \A d \in AllLive' : d \in AllLive \/ d \notin InHand(v)
      BY NewIsNobodys
    <3>3. \/ c \in InHand(v)' \/ unhealthy'[v]
          \/ c \in unacked[v] /\ c \notin InHand(v)
      BY <1>0, <1>3, <2>3, <3>1, <3>2, HandsOfStep
    <3>4. CASE c \in unacked[v] /\ c \notin InHand(v)
      <4>1. stage[v] = "open" /\ (unhealthy[v] => unhealthy'[v])
        BY <1>3, <2>3 DEF Goes
      <4>2. unacked[v] \ InHand(v) # {}
        BY <3>4
      <4>3. unhealthy[v]
        BY <4>1, <4>2 DEF StuckIsReported
      <4>4. QED
        BY <4>1, <4>3
    <3>5. QED
      BY <1>3, <3>3, <3>4
  <2>4. QED
    BY <1>0, <2>1, <2>2, <2>3 DEF WorkerStep
<1>4. HandsInv'
  BY <1>1, <1>2 DEF HandsInv
<1>5. StuckIsReported'
  BY <1>3 DEF StuckIsReported
<1>6. QED
  BY <1>4, <1>5

--------------------------------------------------------------------------------
(* Without faults a job is one copy or one fate. *)

\* Until the first fault no worker is in trouble, and whoever works on a delivery holds
\* it at the broker until the handler or the worker itself settles it.
Orderly ==
  /\ \A w \in Workers :
       /\ stage[w] \notin {"failed", "abandoned"} /\ ~unhealthy[w]
       /\ ~link[w] => stage[w] = "closed"
  /\ \A t \in Tasks : completed[t] => pc[t] = "handler"

Attached ==
  /\ \A t \in Tasks : hold[t] # NoCopy => hold[t] \in unacked[t[1]] \/ completed[t]
  /\ \A w \in Workers : \A i \in DOMAIN pending[w] : pending[w][i] \in unacked[w]

CountedOf(j) == {t \in Tasks : Counted(t) /\ hold[t].job = j}

LiveOf(j) == {c \in AllLive : c.job = j}

\* A copy more than its fate and its followers account for is never there.
Accounted(j) ==
  Cardinality(LiveOf(j)) + Cardinality({j} \cap gone) = 1 + Cardinality(CountedOf(j))

CleanInv ==
  faults = 0 =>
    /\ Orderly
    /\ Attached
    /\ \A j \in enqueued : Accounted(j)

LEMMA InitClean == Init => CleanInv
<1> SUFFICES ASSUME Init PROVE CleanInv
  OBVIOUS
<1>1. enqueued = {} /\ \A w \in Workers : pending[w] = <<>> /\ link[w] = TRUE
  BY DEF Init
<1>2. Orderly
  BY <1>1 DEF Init, Orderly
<1>3. Attached
  BY <1>1 DEF Init, Attached
<1>4. QED
  BY <1>1, <1>2, <1>3 DEF CleanInv

LEMMA BusyIsLinked ==
  ASSUME TypeInv, FlagInv, Orderly, NEW t \in Tasks, pc[t] # "free"
  PROVE  link[t[1]] /\ stage[t[1]] # "closed"
<1>1. hold[t] # NoCopy /\ t[1] \in Workers /\ t \in TasksOf(t[1])
  BY TaskFacts DEF TypeInv, TaskInv
<1>2. QED
  BY <1>1 DEF FlagInv, Orderly

\* No call of a busy task fails.
LEMMA NoCallFails ==
  ASSUME TypeInv, FlagInv, Orderly, NEW t \in Tasks, pc[t] # "free", faults' = 0
  PROVE  ~CallFails(t[1])
<1>1. link[t[1]]
  BY BusyIsLinked
<1>2. ~Fault
  BY DEF Fault, TypeInv
<1>3. QED
  BY <1>1, <1>2 DEF CallFails

LEMMA OpenHold ==
  ASSUME TypeInv, Attached, NEW t \in Tasks, pc[t] # "free", ~completed[t]
  PROVE  hold[t] \in unacked[t[1]]
BY DEF Attached, TypeInv, TaskInv

LEMMA PlainSettle ==
  ASSUME TypeInv, NEW t \in Tasks, hold[t] \in unacked[t[1]], Settle(t[1], hold[t]),
         UNCHANGED delayed
  PROVE  UNCHANGED link /\ AllLive' = AllLive \ {hold[t]}
<1>1. AllLive' = AllLive \ {hold[t]}
  BY TaskFacts, LiveSettled DEF TypeInv
<1>2. QED
  BY <1>1 DEF Settle

LEMMA OrderlyEnded ==
  ASSUME TypeInv, Orderly, NEW t \in Tasks, TaskEnds(t), UNCHANGED <<stage, unhealthy, link>>
  PROVE  Orderly'
<1>1. Ended(t)
  BY TaskEndsFacts DEF TypeInv
<1>2. completed'[t] = FALSE /\ \A u \in Tasks : u # t => completed'[u] = completed[u] /\ pc'[u] = pc[u]
  BY <1>1 DEF Ended, TypeInv, TaskInv
<1>3. QED
  BY <1>2 DEF Orderly

LEMMA StepOrderly ==
  ASSUME TypeInv, FlagInv, Orderly, Attached, faults = 0, faults' = 0, [Next]_vars
  PROVE  Orderly'
<1>1. ASSUME NEW j \in Jobs, Enqueue(j) PROVE Orderly'
  BY <1>1 DEF Enqueue, Orderly, taskVars, workerVars
<1>2. ASSUME RetryDue PROVE Orderly'
  BY <1>2 DEF RetryDue, Orderly, taskVars, workerVars
<1>3. ASSUME NEW w \in Workers, Deliver(w) PROVE Orderly'
  <2>1. UNCHANGED <<stage, unhealthy, link, completed>>
    BY <1>3 DEF Deliver
  <2>2. \A t \in Tasks : pc[t] = "handler" => pc'[t] = "handler"
    BY <1>3, TaskFacts DEF Deliver, TypeInv, TaskInv
  <2>3. QED
    BY <2>1, <2>2 DEF Orderly
<1>4. ASSUME NEW t \in Tasks, RunHandler(t) PROVE Orderly'
  <2>1. /\ UNCHANGED <<stage, unhealthy, link, completed>> /\ ~completed[t]
        /\ \A u \in Tasks : u # t => pc'[u] = pc[u]
    BY <1>4 DEF RunHandler, GoTo, brokerVars, workerVars, Orderly, TypeInv, TaskInv
  <2>2. QED
    BY <2>1 DEF Orderly
<1>5. ASSUME NEW t \in Tasks, Undecodable(t) PROVE Orderly'
  <2>1. /\ UNCHANGED <<stage, unhealthy, link, completed>> /\ ~completed[t]
        /\ \A u \in Tasks : u # t => pc'[u] = pc[u]
    BY <1>5 DEF Undecodable, GoTo, brokerVars, workerVars, Orderly, TypeInv, TaskInv
  <2>2. QED
    BY <2>1 DEF Orderly
<1>6. ASSUME NEW t \in Tasks, ContextAck(t) PROVE Orderly'
  <2>1. /\ Settle(t[1], hold[t]) /\ UNCHANGED <<delayed, stage, unhealthy>>
        /\ completed' = [completed EXCEPT ![t] = TRUE] /\ pc[t] # "free"
        /\ pc' = [pc EXCEPT ![t] = "handler"] /\ ~completed[t]
    BY <1>6 DEF ContextAck, Conclude, GoTo, workerVars, Orderly, TypeInv, TaskInv
  <2>2. UNCHANGED link
    BY <2>1, OpenHold, PlainSettle
  <2>3. QED
    BY <2>1, <2>2 DEF Orderly, TypeInv, TaskInv
<1>7. ASSUME NEW t \in Tasks, ContextRetry(t) PROVE Orderly'
  <2>1. /\ UNCHANGED <<stage, unhealthy, link, completed>> /\ ~completed[t]
        /\ \A u \in Tasks : u # t => pc'[u] = pc[u]
    BY <1>7 DEF ContextRetry, GoTo, brokerVars, workerVars, Orderly, TypeInv, TaskInv
  <2>2. QED
    BY <2>1 DEF Orderly
<1>8. ASSUME NEW t \in Tasks, ContextDeadLetter(t) PROVE Orderly'
  <2>1. /\ UNCHANGED <<stage, unhealthy, link, completed>> /\ ~completed[t]
        /\ \A u \in Tasks : u # t => pc'[u] = pc[u]
    BY <1>8 DEF ContextDeadLetter, GoTo, brokerVars, workerVars, Orderly, TypeInv, TaskInv
  <2>2. QED
    BY <2>1 DEF Orderly
<1>9. ASSUME NEW t \in Tasks, ContextSettles(t) PROVE Orderly'
  <2>1. /\ Settle(t[1], hold[t]) /\ UNCHANGED <<delayed, stage, unhealthy>>
        /\ completed' = [completed EXCEPT ![t] = TRUE] /\ pc[t] # "free"
        /\ pc' = [pc EXCEPT ![t] = "handler"] /\ ~completed[t]
    BY <1>9 DEF ContextSettles, Conclude, GoTo, workerVars, Orderly, TypeInv, TaskInv
  <2>2. UNCHANGED link
    BY <2>1, OpenHold, PlainSettle
  <2>3. QED
    BY <2>1, <2>2 DEF Orderly, TypeInv, TaskInv
<1>10. ASSUME NEW t \in Tasks, HandlerReturns(t) PROVE Orderly'
  <2>1. UNCHANGED <<stage, unhealthy, link>>
    BY <1>10 DEF HandlerReturns, brokerVars
  <2>2. CASE TaskEnds(t)
    BY <2>1, <2>2, OrderlyEnded
  <2>3. CASE GoTo(t, "ack") /\ UNCHANGED completed /\ ~completed[t]
    BY <2>1, <2>3 DEF GoTo, Orderly, TypeInv, TaskInv
  <2>4. QED
    BY <1>10, <2>2, <2>3 DEF HandlerReturns
<1>11. ASSUME NEW t \in Tasks, HandlerThrows(t) PROVE Orderly'
  <2>1. /\ UNCHANGED <<stage, unhealthy, link, completed>> /\ ~completed[t]
        /\ \A u \in Tasks : u # t => pc'[u] = pc[u]
    BY <1>11 DEF HandlerThrows, GoTo, brokerVars, workerVars, Orderly, TypeInv, TaskInv
  <2>2. QED
    BY <2>1 DEF Orderly
<1>12. ASSUME NEW t \in Tasks, HandlerThrowsLate(t) PROVE Orderly'
  BY <1>12 DEF HandlerThrowsLate, Fault, TypeInv
<1>13. ASSUME NEW t \in Tasks, Ack(t) PROVE Orderly'
  <2>1. /\ Settle(t[1], hold[t]) /\ UNCHANGED <<delayed, stage, unhealthy>> /\ TaskEnds(t)
        /\ pc[t] # "free" /\ ~completed[t]
    BY <1>13 DEF Ack, Conclude, Orderly
  <2>2. UNCHANGED link
    BY <2>1, OpenHold, PlainSettle
  <2>3. QED
    BY <2>1, <2>2, OrderlyEnded
<1>14. ASSUME NEW t \in Tasks, AckThrows(t) PROVE Orderly'
  <2>1. pc[t] # "free" /\ CallFails(t[1])
    BY <1>14 DEF AckThrows
  <2>2. QED
    BY <2>1, NoCallFails
<1>15. ASSUME NEW t \in Tasks, PublishRetry(t) PROVE Orderly'
  <2>1. /\ UNCHANGED <<stage, unhealthy, link, completed>> /\ ~completed[t]
        /\ \A u \in Tasks : u # t => pc'[u] = pc[u]
    BY <1>15 DEF PublishRetry, GoTo, brokerVars, workerVars, Orderly, TypeInv, TaskInv
  <2>2. QED
    BY <2>1 DEF Orderly
<1>16. ASSUME NEW t \in Tasks, PublishDeadLetter(t) PROVE Orderly'
  <2>1. /\ UNCHANGED <<stage, unhealthy, link, completed>> /\ ~completed[t]
        /\ \A u \in Tasks : u # t => pc'[u] = pc[u]
    BY <1>16 DEF PublishDeadLetter, GoTo, brokerVars, workerVars, Orderly, TypeInv, TaskInv
  <2>2. QED
    BY <2>1 DEF Orderly
<1>17. ASSUME NEW t \in Tasks, PublishThrows(t) PROVE Orderly'
  <2>1. pc[t] # "free" /\ CallFails(t[1])
    BY <1>17 DEF PublishThrows
  <2>2. QED
    BY <2>1, NoCallFails
<1>18. ASSUME NEW t \in Tasks, SettleDelivery(t) PROVE Orderly'
  <2>1. /\ Settle(t[1], hold[t]) /\ UNCHANGED <<delayed, stage, unhealthy>> /\ TaskEnds(t)
        /\ pc[t] # "free" /\ ~completed[t]
    BY <1>18 DEF SettleDelivery, Conclude, Orderly
  <2>2. UNCHANGED link
    BY <2>1, OpenHold, PlainSettle
  <2>3. QED
    BY <2>1, <2>2, OrderlyEnded
<1>19. ASSUME NEW t \in Tasks, Reject(t) PROVE Orderly'
  <2>1. /\ Settle(t[1], hold[t]) /\ UNCHANGED <<delayed, stage, unhealthy>> /\ TaskEnds(t)
        /\ pc[t] # "free" /\ ~completed[t]
    BY <1>19 DEF Reject, Conclude, Orderly
  <2>2. UNCHANGED link
    BY <2>1, OpenHold, PlainSettle
  <2>3. QED
    BY <2>1, <2>2, OrderlyEnded
<1>20. ASSUME NEW t \in Tasks, SettleThrows(t) PROVE Orderly'
  <2>1. pc[t] # "free" /\ CallFails(t[1])
    BY <1>20 DEF SettleThrows
  <2>2. QED
    BY <2>1, NoCallFails
<1>21. ASSUME NEW w \in Workers, CloseEnds(w) PROVE Orderly'
  BY <1>21 DEF CloseEnds, brokerVars, taskVars, Orderly, TypeInv, TaskInv
<1>22. ASSUME NEW w \in Workers, AdapterCloses(w) PROVE Orderly'
  <2>1. /\ link' = [link EXCEPT ![w] = FALSE] /\ stage[w] = "closed"
        /\ UNCHANGED <<stage, unhealthy, pc, completed>>
    BY <1>22 DEF AdapterCloses, ChannelGone, workerVars, taskVars, Orderly
  <2>2. QED
    BY <2>1 DEF Orderly, TypeInv, BrokerInv
<1>23. ASSUME NEW w \in Workers, Replace(w) PROVE Orderly'
  <2>1. /\ link' = [link EXCEPT ![w] = TRUE] /\ stage' = [stage EXCEPT ![w] = "open"]
        /\ unhealthy' = [unhealthy EXCEPT ![w] = FALSE]
        /\ \A t \in Tasks : t[1] # w => pc'[t] = pc[t] /\ completed'[t] = completed[t]
        /\ \A t \in Tasks : t[1] = w => completed'[t] = FALSE
    BY <1>23 DEF Replace
  <2>2. \A v \in Workers : /\ v = w => stage'[v] = "open" /\ unhealthy'[v] = FALSE /\ link'[v] = TRUE
                           /\ v # w => stage'[v] = stage[v] /\ unhealthy'[v] = unhealthy[v] /\ link'[v] = link[v]
    BY <2>1 DEF TypeInv, BrokerInv, TaskInv
  <2>3. \A v \in Workers :
           /\ stage'[v] \notin {"failed", "abandoned"} /\ ~unhealthy'[v]
           /\ ~link'[v] => stage'[v] = "closed"
    BY <2>2 DEF Orderly
  <2>4. \A t \in Tasks : completed'[t] => pc'[t] = "handler"
    BY <2>1 DEF Orderly
  <2>5. QED
    BY <2>3, <2>4 DEF Orderly
<1>24. ASSUME NEW w \in Workers, CloseStart(w) PROVE Orderly'
  BY <1>24 DEF CloseStart, taskVars, Orderly, TypeInv, TaskInv
<1>25. ASSUME NEW w \in Workers, CloseTimesOut(w) \/ BusClose(w) PROVE Orderly'
  <2>1. stage' = [stage EXCEPT ![w] = "closed"] /\ UNCHANGED <<link, unhealthy, pc, completed>>
    BY <1>25 DEF CloseTimesOut, BusClose, Fault, TypeInv, Orderly, brokerVars, taskVars
  <2>2. QED
    BY <2>1 DEF Orderly, TypeInv, TaskInv
<1>26. ASSUME NEW w \in Workers, ChannelLost(w) PROVE Orderly'
  BY <1>26 DEF ChannelLost, Fault, TypeInv
<1>27. ASSUME NEW w \in Workers, Crash(w) PROVE Orderly'
  BY <1>27 DEF Crash, Fault, TypeInv
<1>28. CASE UNCHANGED vars
  BY <1>28 DEF vars, brokerVars, workerVars, taskVars, Orderly
<1>29. QED
  BY <1>1, <1>2, <1>3, <1>4, <1>5, <1>6, <1>7, <1>8, <1>9, <1>10, <1>11, <1>12, <1>13, <1>14, <1>15, <1>16, <1>17, <1>18, <1>19, <1>20, <1>21, <1>22, <1>23, <1>24, <1>25, <1>26, <1>27, <1>28
  DEF Next, Process, Shutdown

LEMMA StepAttached ==
  ASSUME TypeInv, TypeInv', FlagInv, FlagInv', HandsInv, Attached, Orderly',
         NEW v \in Workers, WorkerStep(v)
  PROVE  /\ \A t \in TasksOf(v) : hold'[t] # NoCopy => hold'[t] \in unacked'[v] \/ completed'[t]
         /\ \A i \in DOMAIN pending'[v] : pending'[v][i] \in unacked'[v]
<1> DEFINE G == /\ \A t \in TasksOf(v) : hold'[t] # NoCopy => hold'[t] \in unacked'[v] \/ completed'[t]
                /\ \A i \in DOMAIN pending'[v] : pending'[v][i] \in unacked'[v]
<1>0. /\ \A t \in TasksOf(v) : hold[t] # NoCopy => hold[t] \in unacked[v] \/ completed[t]
      /\ \A i \in DOMAIN pending[v] : pending[v][i] \in unacked[v]
      /\ \A t \in TasksOf(v) : hold[t] = NoCopy => ~completed[t]
  BY TaskFacts DEF Attached, FlagInv
<1>1. CASE Away(v)
  <2>1. stage'[v] = "closed"
    BY <1>1 DEF Away, Orderly
  <2>2. pending'[v] = <<>> /\ \A t \in TasksOf(v) : hold'[t] = NoCopy
    BY <2>1 DEF TypeInv, TaskInv, FlagInv
  <2>3. QED
    BY <2>2
<1>2. CASE Fresh(v)
  BY <1>2 DEF Fresh
<1>3. ASSUME Goes(v), Rests(v) PROVE G
  BY <1>0, <1>3 DEF Rests, HandsKept, FlagsKept
<1>4. ASSUME Goes(v), Takes(v) PROVE G
  <2>1. PICK d \in ready :
           /\ unacked'[v] = unacked[v] \cup {d}
           /\ FlagsKept(v)
           /\ \/ stage'[v] # "open" /\ HandsKept(v)
              \/ /\ pending'[v] = pending[v]
                 /\ \E t \in TasksOf(v) :
                      /\ hold[t] = NoCopy /\ hold'[t] = d
                      /\ \A u \in TasksOf(v) : u # t => hold'[u] = hold[u]
              \/ /\ pending'[v] = Append(pending[v], d)
                 /\ \A t \in TasksOf(v) : hold'[t] = hold[t]
    BY <1>4 DEF Takes
  <2>2. CASE HandsKept(v)
    BY <1>0, <2>1, <2>2 DEF HandsKept, FlagsKept
  <2>3. CASE /\ pending'[v] = pending[v]
             /\ \E t \in TasksOf(v) :
                  /\ hold[t] = NoCopy /\ hold'[t] = d
                  /\ \A u \in TasksOf(v) : u # t => hold'[u] = hold[u]
    BY <1>0, <2>1, <2>3 DEF FlagsKept
  <2>4. CASE /\ pending'[v] = Append(pending[v], d)
             /\ \A t \in TasksOf(v) : hold'[t] = hold[t]
    <3>1. pending[v] \in Seq(Copy)
      BY DEF TypeInv, TaskInv
    <3>2. \A i \in DOMAIN pending'[v] :
             pending'[v][i] = d \/ (i \in DOMAIN pending[v] /\ pending'[v][i] = pending[v][i])
      BY <2>4, <3>1
    <3>3. QED
      BY <1>0, <2>1, <2>4, <3>2 DEF FlagsKept
  <2>5. QED
    BY <2>1, <2>2, <2>3, <2>4
<1>5. ASSUME Goes(v), NEW t \in TasksOf(v), Acks(v, t)
      PROVE  /\ \A u \in TasksOf(v) : u # t /\ hold[u] # NoCopy => hold[u] \in unacked'[v] \/ completed[u]
             /\ \A i \in DOMAIN pending[v] : pending[v][i] \in unacked'[v]
  <2>1. Distinct(v)
    BY <1>5 DEF Goes, HandsInv, HandsOf
  <2>2. unacked'[v] = unacked[v] \ {hold[t]}
    BY <1>5 DEF Acks
  <2>3. QED
    BY <1>0, <2>1, <2>2 DEF Distinct
<1>6. ASSUME Goes(v), Settles(v) PROVE G
  <2>1. PICK t \in TasksOf(v) :
           /\ Acks(v, t) /\ HandsKept(v)
           /\ completed'[t] /\ \A u \in TasksOf(v) : u # t => completed'[u] = completed[u]
    BY <1>6 DEF Settles
  <2>2. QED
    BY <1>5, <1>6, <2>1 DEF HandsKept
<1>7. ASSUME NEW t \in TasksOf(v), HandsLeft(v, t),
             \A u \in TasksOf(v) : u # t /\ hold[u] # NoCopy => hold[u] \in unacked'[v] \/ completed[u],
             \A i \in DOMAIN pending[v] : pending[v][i] \in unacked'[v]
      PROVE  G
  <2>1. /\ \A u \in TasksOf(v) : u # t => hold'[u] = hold[u] /\ completed'[u] = completed[u]
        /\ \A i \in DOMAIN pending'[v] : \E k \in DOMAIN pending[v] : pending'[v][i] = pending[v][k]
        /\ hold'[t] = NoCopy \/ (1 \in DOMAIN pending[v] /\ hold'[t] = pending[v][1])
    BY <1>7 DEF HandsLeft
  <2>2. QED
    BY <1>7, <2>1
<1>8. ASSUME Goes(v), Finishes(v) PROVE G
  <2>1. PICK t \in TasksOf(v) : Acks(v, t) /\ HandsLeft(v, t)
    BY <1>8 DEF Finishes
  <2> HIDE DEF G
  <2>2. QED
    BY <1>5, <1>7, <1>8, <2>1
<1>9. ASSUME Goes(v), Leaves(v) PROVE G
  <2>1. PICK t \in TasksOf(v) : unacked'[v] = unacked[v] /\ HandsLeft(v, t)
    BY <1>9 DEF Leaves
  <2> HIDE DEF G
  <2>2. QED
    BY <1>0, <1>7, <2>1
<1>10. ASSUME Goes(v), Closes(v) PROVE G
  <2>1. /\ unacked'[v] = unacked[v] \ {pending[v][i] : i \in DOMAIN pending[v]}
        /\ pending'[v] = <<>>
        /\ \A t \in TasksOf(v) : hold'[t] = hold[t] /\ completed'[t] = completed[t]
    BY <1>10 DEF Closes
  <2>2. Distinct(v)
    BY <1>10 DEF Goes, HandsInv, HandsOf
  <2>3. QED
    BY <1>0, <2>1, <2>2 DEF Distinct
<1>11. QED
  BY <1>1, <1>2, <1>3, <1>4, <1>6, <1>8, <1>9, <1>10 DEF WorkerStep

\* The ways in which a step without a fault touches the copies, the fates and the tasks
\* between a publication and its ack.
CountedBut(T) ==
  \A u \in Tasks \ T : /\ Counted(u)' <=> Counted(u)
                       /\ Counted(u) => hold'[u] = hold[u]

Quiet   == UNCHANGED <<AllLive, gone, enqueued>> /\ CountedBut({})

Arrives(j) ==
  /\ j \in Jobs \ enqueued
  /\ \E n \in Copy : n.job = j /\ AllLive' = AllLive \cup {n}
  /\ enqueued' = enqueued \cup {j} /\ gone' = gone /\ CountedBut({})

Idle(t) == pc[t] # "free" /\ ~Counted(t) /\ ~completed[t]

Publishes(t) ==
  /\ Idle(t) /\ Counted(t)' /\ hold'[t] = hold[t] /\ CountedBut({t})
  /\ AllLive' = AllLive \cup {NextCopy(hold[t])} /\ UNCHANGED <<gone, enqueued>>

Buries(t) ==
  /\ Idle(t) /\ Counted(t)' /\ hold'[t] = hold[t] /\ CountedBut({t})
  /\ AllLive' = AllLive /\ gone' = gone \cup {hold[t].job} /\ enqueued' = enqueued

Concludes(t) ==
  /\ Idle(t) /\ ~Counted(t)' /\ CountedBut({t})
  /\ AllLive' = AllLive \ {hold[t]} /\ gone' = gone \cup {hold[t].job} /\ enqueued' = enqueued

Removes(t) ==
  /\ Counted(t) /\ ~completed[t] /\ ~Counted(t)' /\ CountedBut({t})
  /\ AllLive' = AllLive \ {hold[t]} /\ UNCHANGED <<gone, enqueued>>

CountStep ==
  \/ Quiet
  \/ \E j \in Jobs : Arrives(j)
  \/ \E t \in Tasks : Publishes(t) \/ Buries(t) \/ Concludes(t) \/ Removes(t)

LEMMA EndedCounted ==
  ASSUME TypeInv, NEW t \in Tasks, TaskEnds(t)
  PROVE  ~Counted(t)' /\ CountedBut({t})
<1>1. Ended(t)
  BY TaskEndsFacts DEF TypeInv
<1>2. QED
  BY <1>1 DEF Ended, Counted, CountedBut

LEMMA GoneToCounted ==
  ASSUME TypeInv, NEW t \in Tasks, NEW step, GoTo(t, step)
  PROVE  /\ CountedBut({t}) /\ hold'[t] = hold[t]
         /\ Counted(t)' <=> step \in {"settle", "ctxAck"}
BY DEF GoTo, Counted, CountedBut, TypeInv, TaskInv

LEMMA StepCounts ==
  ASSUME TypeInv, FlagInv, Orderly, Attached, faults = 0, faults' = 0, [Next]_vars
  PROVE  CountStep
<1>1. ASSUME NEW j \in Jobs, Enqueue(j) PROVE CountStep
  <2> DEFINE n == [job |-> j, attempt |-> 1, copy |-> 1]
  <2>1. n \in Copy /\ n.job = j
    BY DEF Copy
  <2>2. AllLive' = AllLive \cup {n} /\ enqueued' = enqueued \cup {j} /\ UNCHANGED <<gone, taskVars>>
    BY <1>1 DEF Enqueue, AllLive
  <2>3. CountedBut({})
    BY <2>2 DEF CountedBut, Counted, taskVars
  <2>4. QED
    BY <1>1, <2>1, <2>2, <2>3 DEF Enqueue, CountStep, Arrives
<1>2. ASSUME RetryDue PROVE CountStep
  BY <1>2 DEF RetryDue, AllLive, CountStep, Quiet, CountedBut, Counted, taskVars
<1>3. ASSUME NEW w \in Workers, Deliver(w) PROVE CountStep
  <2>1. UNCHANGED <<AllLive, gone, enqueued>>
    BY <1>3, LiveDelivered DEF Deliver, TypeInv
  <2>2. \/ UNCHANGED <<pc, hold>>
        \/ \E t \in TasksOf(w), d \in ready : /\ pc[t] = "free" /\ pc' = [pc EXCEPT ![t] = "decode"]
                                           /\ hold' = [hold EXCEPT ![t] = d]
    BY <1>3 DEF Deliver
  <2>3. CountedBut({})
    BY <2>2, TaskFacts DEF CountedBut, Counted, TypeInv, TaskInv
  <2>4. QED
    BY <2>1, <2>3 DEF CountStep, Quiet
<1>4. ASSUME NEW t \in Tasks, RunHandler(t) PROVE CountStep
  <2>1. UNCHANGED <<AllLive, gone, enqueued>> /\ GoTo(t, "handler") /\ pc[t] = "decode"
    BY <1>4, LiveSame DEF RunHandler, brokerVars
  <2>2. CountedBut({t}) /\ ~Counted(t) /\ ~Counted(t)'
    BY <2>1, GoneToCounted DEF Counted, LastStep
  <2>3. QED
    BY <2>1, <2>2 DEF CountStep, Quiet, CountedBut
<1>5. ASSUME NEW t \in Tasks, Undecodable(t) PROVE CountStep
  <2>1. UNCHANGED <<AllLive, gone, enqueued>> /\ GoTo(t, LastStep(t[1])) /\ pc[t] = "decode"
    BY <1>5, LiveSame DEF Undecodable, brokerVars
  <2>2. CountedBut({t}) /\ ~Counted(t) /\ ~Counted(t)'
    BY <2>1, GoneToCounted DEF Counted, LastStep
  <2>3. QED
    BY <2>1, <2>2 DEF CountStep, Quiet, CountedBut
<1>6. ASSUME NEW t \in Tasks, ContextAck(t) PROVE CountStep
  <2>1. /\ Settle(t[1], hold[t]) /\ UNCHANGED <<delayed, enqueued, pc, hold>>
        /\ pc[t] = "handler" /\ ~completed[t]
    BY <1>6 DEF ContextAck, Conclude
  <2>2. hold[t] \in unacked[t[1]]
    BY <2>1, OpenHold
  <2>3. AllLive' = AllLive \ {hold[t]} /\ gone' = gone \cup {hold[t].job}
    BY <1>6, <2>1, <2>2, PlainSettle DEF ContextAck, Conclude
  <2>4. Idle(t) /\ ~Counted(t)' /\ CountedBut({t})
    BY <2>1 DEF Idle, Counted, CountedBut
  <2>5. QED
    BY <2>1, <2>3, <2>4 DEF CountStep, Concludes
<1>7. ASSUME NEW t \in Tasks, ContextRetry(t) PROVE CountStep
  <2>1. /\ Published(NextCopy(hold[t])) /\ UNCHANGED <<unacked, gone, enqueued>>
        /\ GoTo(t, "ctxAck") /\ pc[t] \in {"handler", "retry"} /\ ~completed[t]
    BY <1>7 DEF ContextRetry, Published, Orderly
  <2>2. AllLive' = AllLive \cup {NextCopy(hold[t])}
    BY <2>1, LivePublished
  <2>3. Idle(t) /\ Counted(t)' /\ hold'[t] = hold[t] /\ CountedBut({t})
    BY <2>1, GoneToCounted DEF Idle, Counted
  <2>4. QED
    BY <2>1, <2>2, <2>3 DEF CountStep, Publishes
<1>8. ASSUME NEW t \in Tasks, ContextDeadLetter(t) PROVE CountStep
  <2>1. /\ gone' = gone \cup {hold[t].job} /\ UNCHANGED <<AllLive, enqueued>>
        /\ GoTo(t, "ctxAck") /\ pc[t] \in {"handler", "bury"} /\ ~completed[t]
    BY <1>8, LiveSame DEF ContextDeadLetter, brokerVars, Orderly
  <2>2. Idle(t) /\ Counted(t)' /\ hold'[t] = hold[t] /\ CountedBut({t})
    BY <2>1, GoneToCounted DEF Idle, Counted
  <2>3. QED
    BY <2>1, <2>2 DEF CountStep, Buries
<1>9. ASSUME NEW t \in Tasks, ContextSettles(t) PROVE CountStep
  <2>1. /\ Settle(t[1], hold[t]) /\ UNCHANGED <<delayed, gone, enqueued>> /\ GoTo(t, "handler")
        /\ pc[t] \in {"settle", "ctxAck"} /\ ~completed[t]
    BY <1>9 DEF ContextSettles, Orderly
  <2>2. hold[t] \in unacked[t[1]]
    BY <2>1, OpenHold
  <2>3. AllLive' = AllLive \ {hold[t]}
    BY <2>1, <2>2, PlainSettle
  <2>4. Counted(t) /\ ~Counted(t)' /\ CountedBut({t})
    BY <2>1, EndedCounted, GoneToCounted DEF Counted
  <2>5. QED
    BY <2>1, <2>3, <2>4 DEF CountStep, Removes
<1>10. ASSUME NEW t \in Tasks, HandlerReturns(t) PROVE CountStep
  <2>1. UNCHANGED <<AllLive, gone, enqueued>> /\ pc[t] = "handler"
    BY <1>10, LiveSame DEF HandlerReturns, brokerVars
  <2>2. CountedBut({t}) /\ ~Counted(t) /\ ~Counted(t)'
    <3>1. CASE TaskEnds(t)
      BY <2>1, <3>1, EndedCounted DEF Counted
    <3>2. CASE GoTo(t, "ack")
      BY <2>1, <3>2, GoneToCounted DEF Counted
    <3>3. QED
      BY <1>10, <3>1, <3>2 DEF HandlerReturns
  <2>3. QED
    BY <2>1, <2>2 DEF CountStep, Quiet, CountedBut
<1>11. ASSUME NEW t \in Tasks, HandlerThrows(t) PROVE CountStep
  <2>1. UNCHANGED <<AllLive, gone, enqueued>> /\ pc[t] = "handler"
    BY <1>11, LiveSame DEF HandlerThrows, brokerVars
  <2>2. PICK step \in FailureSteps(t) : GoTo(t, step)
    BY <1>11 DEF HandlerThrows
  <2>3. CountedBut({t}) /\ ~Counted(t) /\ ~Counted(t)'
    BY <2>1, <2>2, GoneToCounted DEF Counted, FailureSteps, LastStep
  <2>4. QED
    BY <2>1, <2>3 DEF CountStep, Quiet, CountedBut
<1>12. ASSUME NEW t \in Tasks, HandlerThrowsLate(t) PROVE CountStep
  BY <1>12 DEF HandlerThrowsLate, Fault, TypeInv
<1>13. ASSUME NEW t \in Tasks, Ack(t) PROVE CountStep
  <2>1. /\ Settle(t[1], hold[t]) /\ UNCHANGED <<delayed, enqueued>> /\ TaskEnds(t)
        /\ pc[t] \in {"ack", "reject"} /\ ~completed[t]
    BY <1>13 DEF Ack, Conclude, Orderly
  <2>2. hold[t] \in unacked[t[1]]
    BY <2>1, OpenHold
  <2>3. AllLive' = AllLive \ {hold[t]} /\ gone' = gone \cup {hold[t].job}
    BY <1>13, <2>1, <2>2, PlainSettle DEF Ack, Conclude
  <2>4. Idle(t) /\ ~Counted(t)' /\ CountedBut({t})
    BY <2>1, EndedCounted DEF Idle, Counted
  <2>5. QED
    BY <2>1, <2>3, <2>4 DEF CountStep, Concludes
<1>14. ASSUME NEW t \in Tasks, AckThrows(t) PROVE CountStep
  <2>1. pc[t] # "free" /\ CallFails(t[1])
    BY <1>14 DEF AckThrows
  <2>2. QED
    BY <2>1, NoCallFails
<1>15. ASSUME NEW t \in Tasks, PublishRetry(t) PROVE CountStep
  <2>1. /\ Published(NextCopy(hold[t])) /\ UNCHANGED <<unacked, gone, enqueued>>
        /\ GoTo(t, "settle") /\ pc[t] \in {"handler", "retry"} /\ ~completed[t]
    BY <1>15 DEF PublishRetry, Published, Orderly
  <2>2. AllLive' = AllLive \cup {NextCopy(hold[t])}
    BY <2>1, LivePublished
  <2>3. Idle(t) /\ Counted(t)' /\ hold'[t] = hold[t] /\ CountedBut({t})
    BY <2>1, GoneToCounted DEF Idle, Counted
  <2>4. QED
    BY <2>1, <2>2, <2>3 DEF CountStep, Publishes
<1>16. ASSUME NEW t \in Tasks, PublishDeadLetter(t) PROVE CountStep
  <2>1. /\ gone' = gone \cup {hold[t].job} /\ UNCHANGED <<AllLive, enqueued>>
        /\ GoTo(t, "settle") /\ pc[t] \in {"handler", "bury"} /\ ~completed[t]
    BY <1>16, LiveSame DEF PublishDeadLetter, brokerVars, Orderly
  <2>2. Idle(t) /\ Counted(t)' /\ hold'[t] = hold[t] /\ CountedBut({t})
    BY <2>1, GoneToCounted DEF Idle, Counted
  <2>3. QED
    BY <2>1, <2>2 DEF CountStep, Buries
<1>17. ASSUME NEW t \in Tasks, PublishThrows(t) PROVE CountStep
  <2>1. pc[t] # "free" /\ CallFails(t[1])
    BY <1>17 DEF PublishThrows
  <2>2. QED
    BY <2>1, NoCallFails
<1>18. ASSUME NEW t \in Tasks, SettleDelivery(t) PROVE CountStep
  <2>1. /\ Settle(t[1], hold[t]) /\ UNCHANGED <<delayed, gone, enqueued>> /\ TaskEnds(t)
        /\ pc[t] \in {"settle", "ctxAck"} /\ ~completed[t]
    BY <1>18 DEF SettleDelivery, Orderly
  <2>2. hold[t] \in unacked[t[1]]
    BY <2>1, OpenHold
  <2>3. AllLive' = AllLive \ {hold[t]}
    BY <2>1, <2>2, PlainSettle
  <2>4. Counted(t) /\ ~Counted(t)' /\ CountedBut({t})
    BY <2>1, EndedCounted, GoneToCounted DEF Counted
  <2>5. QED
    BY <2>1, <2>3, <2>4 DEF CountStep, Removes
<1>19. ASSUME NEW t \in Tasks, Reject(t) PROVE CountStep
  <2>1. /\ Settle(t[1], hold[t]) /\ UNCHANGED <<delayed, enqueued>> /\ TaskEnds(t)
        /\ pc[t] \in {"ack", "reject"} /\ ~completed[t]
    BY <1>19 DEF Reject, Conclude, Orderly
  <2>2. hold[t] \in unacked[t[1]]
    BY <2>1, OpenHold
  <2>3. AllLive' = AllLive \ {hold[t]} /\ gone' = gone \cup {hold[t].job}
    BY <1>19, <2>1, <2>2, PlainSettle DEF Reject, Conclude
  <2>4. Idle(t) /\ ~Counted(t)' /\ CountedBut({t})
    BY <2>1, EndedCounted DEF Idle, Counted
  <2>5. QED
    BY <2>1, <2>3, <2>4 DEF CountStep, Concludes
<1>20. ASSUME NEW t \in Tasks, SettleThrows(t) PROVE CountStep
  <2>1. pc[t] # "free" /\ CallFails(t[1])
    BY <1>20 DEF SettleThrows
  <2>2. QED
    BY <2>1, NoCallFails
<1>21. ASSUME NEW w \in Workers, CloseEnds(w) PROVE CountStep
  <2>1. UNCHANGED <<AllLive, gone, enqueued>>
    BY <1>21, LiveSame DEF CloseEnds, brokerVars
  <2>2. QED
    BY <1>21, <2>1 DEF CloseEnds, CountStep, Quiet, CountedBut, Counted, taskVars
<1>22. ASSUME NEW w \in Workers, AdapterCloses(w) PROVE CountStep
  <2>1. UNCHANGED <<AllLive, gone, enqueued>>
    BY <1>22, LiveChannelGone DEF AdapterCloses, ChannelGone, TypeInv
  <2>2. QED
    BY <1>22, <2>1 DEF AdapterCloses, CountStep, Quiet, CountedBut, Counted, taskVars
<1>23. ASSUME NEW w \in Workers, Replace(w) PROVE CountStep
  <2>1. /\ ready' = ready \cup unacked[w] /\ unacked' = [unacked EXCEPT ![w] = {}]
        /\ UNCHANGED <<delayed, gone, enqueued>> /\ Reset(w)
    BY <1>23 DEF Replace, Reset
  <2>2. AllLive' = AllLive
    BY <2>1, LiveChannelGone DEF TypeInv
  <2>3. stage[w] = "closed"
    BY <1>23 DEF Replace, NeedsReplacing, Orderly
  <2>4. \A t \in Tasks : t[1] = w => pc[t] = "free"
    BY <2>3 DEF FlagInv, TypeInv, TaskInv, TasksOf
  <2>5. CountedBut({})
    BY <2>1, <2>4 DEF Reset, CountedBut, Counted
  <2>6. QED
    BY <2>1, <2>2, <2>5 DEF CountStep, Quiet
<1>24. ASSUME NEW w \in Workers, CloseStart(w) PROVE CountStep
  <2>1. UNCHANGED <<AllLive, gone, enqueued>>
    BY <1>24, LiveGivenBack DEF CloseStart, TypeInv
  <2>2. QED
    BY <1>24, <2>1 DEF CloseStart, CountStep, Quiet, CountedBut, Counted, taskVars
<1>25. ASSUME NEW w \in Workers, CloseTimesOut(w) \/ BusClose(w) PROVE CountStep
  <2>1. UNCHANGED <<AllLive, gone, enqueued>>
    BY <1>25, LiveSame DEF CloseTimesOut, BusClose, brokerVars
  <2>2. QED
    BY <1>25, <2>1 DEF CloseTimesOut, BusClose, CountStep, Quiet, CountedBut, Counted, taskVars
<1>26. ASSUME NEW w \in Workers, ChannelLost(w) PROVE CountStep
  BY <1>26 DEF ChannelLost, Fault, TypeInv
<1>27. ASSUME NEW w \in Workers, Crash(w) PROVE CountStep
  BY <1>27 DEF Crash, Fault, TypeInv
<1>28. CASE UNCHANGED vars
  BY <1>28, LiveSame DEF vars, brokerVars, taskVars, CountStep, Quiet, CountedBut, Counted
<1>29. QED
  BY <1>1, <1>2, <1>3, <1>4, <1>5, <1>6, <1>7, <1>8, <1>9, <1>10, <1>11, <1>12, <1>13, <1>14, <1>15, <1>16, <1>17, <1>18, <1>19, <1>20, <1>21, <1>22, <1>23, <1>24, <1>25, <1>26, <1>27, <1>28
  DEF Next, Process, Shutdown

LEMMA LiveOfFinite ==
  ASSUME TypeInv, NEW j
  PROVE  IsFiniteSet(LiveOf(j))
<1>1. IsFiniteSet(Known(j))
  BY KnownIsFinite
<1>2. ASSUME NEW c \in LiveOf(j) PROVE c \in Known(j)
  <2>1. c \in AllLive /\ c.job = j
    BY DEF LiveOf
  <2>2. c # NoCopy
    BY <2>1, LiveIsCopy, CopyFacts
  <2>3. c \in Known(c.job)
    BY <2>1, <2>2, HeldIsKnown DEF AllLive
  <2>4. QED
    BY <2>1, <2>3
<1>3. LiveOf(j) \in SUBSET Known(j)
  BY <1>2
<1>4. QED
  BY <1>1, <1>3, FS_Subset

LEMMA CountedOfFinite ==
  ASSUME NEW j
  PROVE  IsFiniteSet(CountedOf(j))
<1>1. CountedOf(j) \in SUBSET Tasks
  BY DEF CountedOf
<1>2. QED
  BY <1>1, TaskFacts, FS_Subset

\* Two tasks at work on what they still hold at the broker do not share a copy.
LEMMA ApartHolds ==
  ASSUME TypeInv, FlagInv, HandsInv, Orderly, Attached,
         NEW t \in Tasks, pc[t] # "free", ~completed[t],
         NEW u \in Tasks, pc[u] # "free", ~completed[u], t # u
  PROVE  hold[t] # hold[u]
<1>1. hold[t] \in unacked[t[1]] /\ hold[u] \in unacked[u[1]]
  BY OpenHold
<1>2. t[1] \in Workers /\ u[1] \in Workers /\ t \in TasksOf(t[1]) /\ u \in TasksOf(u[1])
  BY TaskFacts
<1>3. CASE t[1] # u[1]
  BY <1>1, <1>2, <1>3 DEF TypeInv, BrokerInv
<1>4. CASE t[1] = u[1]
  <2>1. link[t[1]] /\ hold[t] # NoCopy
    BY BusyIsLinked, HeldFacts
  <2>2. QED
    BY <1>2, <1>4, <2>1 DEF HandsInv, HandsOf, Distinct
<1>5. QED
  BY <1>3, <1>4

\* Whoever works on a copy of j has one more than those that are already followed.
LEMMA CountedLive ==
  ASSUME TypeInv, FlagInv, HandsInv, Orderly, Attached, NEW t \in Tasks, Idle(t)
  PROVE  /\ hold[t] \in LiveOf(hold[t].job)
         /\ Cardinality(CountedOf(hold[t].job)) + 1 <= Cardinality(LiveOf(hold[t].job))
<1> DEFINE j == hold[t].job
           S == CountedOf(j)
           f == [u \in S \cup {t} |-> hold[u]]
<1>1. ASSUME NEW u \in S \cup {t}
      PROVE  /\ u \in Tasks /\ pc[u] # "free" /\ ~completed[u]
             /\ hold[u] \in LiveOf(j)
  <2>1. u \in Tasks /\ pc[u] # "free" /\ ~completed[u] /\ hold[u].job = j
    BY DEF CountedOf, Counted, Idle, Orderly
  <2>2. hold[u] \in unacked[u[1]] /\ u[1] \in Workers
    BY <2>1, OpenHold, TaskFacts
  <2>3. QED
    BY <2>1, <2>2 DEF LiveOf, AllLive
<1>2. \A u, x \in S \cup {t} : hold[u] = hold[x] => u = x
  BY <1>1, ApartHolds
<1>3. f \in Injection(S \cup {t}, LiveOf(j))
  BY <1>1, <1>2 DEF Injection, IsInjective
<1>4. Cardinality(S \cup {t}) <= Cardinality(LiveOf(j))
  BY <1>3, LiveOfFinite, FS_Injection
<1>5. t \notin S
  BY DEF CountedOf, Idle
<1>6. Cardinality(S \cup {t}) = Cardinality(S) + 1
  BY <1>5, CountedOfFinite, FS_AddElement
<1>7. QED
  BY <1>1, <1>4, <1>6

LEMMA Fates ==
  ASSUME NEW j, NEW G
  PROVE  Cardinality({j} \cap G) = IF j \in G THEN 1 ELSE 0
<1>1. CASE j \in G
  <2>1. {j} \cap G = {j}
    BY <1>1
  <2>2. QED
    BY <1>1, <2>1, FS_Singleton
<1>2. CASE j \notin G
  <2>1. {j} \cap G = {}
    BY <1>2
  <2>2. QED
    BY <1>2, <2>1, FS_EmptySet
<1>3. QED
  BY <1>1, <1>2

LEMMA Counts ==
  ASSUME TypeInv, NEW j
  PROVE  Cardinality(LiveOf(j)) \in Nat /\ Cardinality(CountedOf(j)) \in Nat
BY LiveOfFinite, CountedOfFinite, FS_CardinalityType

LEMMA CountedSame ==
  ASSUME CountedBut({}), NEW j
  PROVE  CountedOf(j)' = CountedOf(j)
BY DEF CountedBut, CountedOf

LEMMA CountedMore ==
  ASSUME NEW t \in Tasks, CountedBut({t}), Counted(t)', hold'[t] = hold[t], NEW j
  PROVE  CountedOf(j)' = IF j = hold[t].job THEN CountedOf(j) \cup {t} ELSE CountedOf(j) \ {t}
BY DEF CountedBut, CountedOf

LEMMA CountedLess ==
  ASSUME NEW t \in Tasks, CountedBut({t}), ~Counted(t)', NEW j
  PROVE  CountedOf(j)' = CountedOf(j) \ {t}
BY DEF CountedBut, CountedOf

LEMMA StepAccounted ==
  ASSUME TypeInv, FlagInv, HandsInv, Orderly, Attached, CountStep,
         \A j \in enqueued : Accounted(j), NEW j \in enqueued'
  PROVE  Accounted(j)'
<1> DEFINE L == LiveOf(j)
           S == CountedOf(j)
<1>0. /\ j \in enqueued => Cardinality(L) + (IF j \in gone THEN 1 ELSE 0) = 1 + Cardinality(S)
      /\ IsFiniteSet(L) /\ IsFiniteSet(S) /\ Cardinality(L) \in Nat /\ Cardinality(S) \in Nat
  BY Fates, Counts, LiveOfFinite, CountedOfFinite DEF Accounted
<1> HIDE DEF L, S
<1>1. ASSUME NEW L2, L2 = LiveOf(j)', NEW S2, S2 = CountedOf(j)',
             Cardinality(L2) + (IF j \in gone' THEN 1 ELSE 0) = 1 + Cardinality(S2)
      PROVE  Accounted(j)'
  BY <1>1, Fates DEF Accounted
<1>2. ASSUME NEW L2, L2 = LiveOf(j)', NEW S2, S2 = CountedOf(j)', j \in enqueued,
             L2 = L, S2 = S, j \in gone' <=> j \in gone
      PROVE  Accounted(j)'
  BY <1>0, <1>1, <1>2
<1>3. CASE Quiet
  <2>1. LiveOf(j)' = L /\ CountedOf(j)' = S
    BY <1>3, CountedSame DEF Quiet, LiveOf, L, S
  <2>2. QED
    BY <1>2, <1>3, <2>1 DEF Quiet
<1>4. ASSUME NEW i \in Jobs, Arrives(i) PROVE Accounted(j)'
  <2>1. PICK n \in Copy : n.job = i /\ AllLive' = AllLive \cup {n}
    BY <1>4 DEF Arrives
  <2>2. /\ CountedOf(j)' = S /\ i \notin enqueued /\ enqueued' = enqueued \cup {i}
        /\ gone' = gone /\ gone \subseteq enqueued
    BY <1>4, CountedSame DEF Arrives, S, TypeInv, BrokerInv
  <2>3. CASE j # i
    <3>1. LiveOf(j)' = L
      BY <2>1, <2>3 DEF LiveOf, L
    <3>2. QED
      BY <1>2, <2>2, <2>3, <3>1
  <2>4. CASE j = i
    <3>1. L = {}
      BY <2>2, <2>4 DEF L, LiveOf, AllLive, TypeInv, BrokerInv
    <3>2. S = {}
      BY <2>2, <2>4 DEF S, CountedOf, Counted, TypeInv, TaskInv
    <3>3. LiveOf(j)' = {n}
      BY <2>1, <2>4, <3>1 DEF LiveOf, L
    <3>4. Cardinality({n}) = 1 /\ Cardinality({}) = 0
      BY FS_Singleton, FS_EmptySet
    <3>5. j \notin gone'
      BY <2>2, <2>4
    <3>6. QED
      BY <1>1, <2>2, <3>2, <3>3, <3>4, <3>5
  <2>5. QED
    BY <2>3, <2>4
<1>5. ASSUME NEW t \in Tasks, Publishes(t) PROVE Accounted(j)'
  <2>1. /\ pc[t] # "free" /\ t \notin S /\ j \in enqueued
        /\ AllLive' = AllLive \cup {NextCopy(hold[t])} /\ gone' = gone
    BY <1>5 DEF Publishes, Idle, S, CountedOf
  <2>2. CountedOf(j)' = IF j = hold[t].job THEN S \cup {t} ELSE S \ {t}
    BY <1>5, CountedMore DEF Publishes, S
  <2>3. PICK n : /\ n = NextCopy(hold[t]) /\ n.job = hold[t].job
                 /\ n \notin AllLive
    BY <2>1, HeldFacts, NextCopyIsNew DEF AllLive
  <2>4. CASE j # hold[t].job
    <3>1. LiveOf(j)' = L /\ CountedOf(j)' = S
      BY <2>1, <2>2, <2>3, <2>4 DEF LiveOf, L
    <3>2. QED
      BY <1>2, <2>1, <3>1
  <2>5. CASE j = hold[t].job
    <3>1. LiveOf(j)' = L \cup {n} /\ n \notin L /\ CountedOf(j)' = S \cup {t}
      BY <2>1, <2>2, <2>3, <2>5 DEF LiveOf, L
    <3>2. Cardinality(L \cup {n}) = Cardinality(L) + 1 /\ Cardinality(S \cup {t}) = Cardinality(S) + 1
      BY <1>0, <2>1, <3>1, FS_AddElement
    <3>3. Cardinality(L \cup {n}) + (IF j \in gone' THEN 1 ELSE 0) = 1 + Cardinality(S \cup {t})
      BY <1>0, <2>1, <3>2
    <3>4. QED
      BY <1>1, <3>1, <3>3
  <2>6. QED
    BY <2>4, <2>5
<1>6. ASSUME NEW t \in Tasks, Buries(t) PROVE Accounted(j)'
  <2>1. /\ t \notin S /\ j \in enqueued /\ Idle(t)
        /\ AllLive' = AllLive /\ gone' = gone \cup {hold[t].job}
    BY <1>6 DEF Buries, Idle, S, CountedOf
  <2>2. CountedOf(j)' = IF j = hold[t].job THEN S \cup {t} ELSE S \ {t}
    BY <1>6, CountedMore DEF Buries, S
  <2>3. LiveOf(j)' = L
    BY <2>1 DEF LiveOf, L
  <2>4. CASE j # hold[t].job
    BY <1>2, <2>1, <2>2, <2>3, <2>4
  <2>5. CASE j = hold[t].job
    <3>1. Cardinality(S) + 1 <= Cardinality(L)
      BY <2>1, <2>5, CountedLive DEF S, L
    <3>2. j \notin gone /\ Cardinality(L) = 1 + Cardinality(S)
      BY <1>0, <2>1, <3>1
    <3>3. Cardinality(S \cup {t}) = Cardinality(S) + 1
      BY <1>0, <2>1, FS_AddElement
    <3>4. Cardinality(L) + 1 = 1 + Cardinality(S \cup {t})
      BY <1>0, <3>2, <3>3
    <3>5. QED
      BY <1>1, <2>1, <2>2, <2>3, <2>5, <3>4
  <2>6. QED
    BY <2>4, <2>5
<1>7. ASSUME NEW t \in Tasks, Concludes(t) PROVE Accounted(j)'
  <2>1. /\ t \notin S /\ j \in enqueued /\ Idle(t)
        /\ AllLive' = AllLive \ {hold[t]} /\ gone' = gone \cup {hold[t].job}
    BY <1>7 DEF Concludes, Idle, S, CountedOf
  <2>2. CountedOf(j)' = S
    BY <1>7, <2>1, CountedLess DEF Concludes, S
  <2>3. LiveOf(j)' = L \ {hold[t]}
    BY <2>1 DEF LiveOf, L
  <2>4. CASE j # hold[t].job
    <3>1. hold[t] \notin L
      BY <2>4 DEF L, LiveOf
    <3>2. QED
      BY <1>2, <2>1, <2>2, <2>3, <2>4, <3>1
  <2>5. CASE j = hold[t].job
    <3>1. Cardinality(S) + 1 <= Cardinality(L) /\ hold[t] \in L
      BY <2>1, <2>5, CountedLive DEF S, L
    <3>2. j \notin gone /\ Cardinality(L) = 1 + Cardinality(S)
      BY <1>0, <2>1, <3>1
    <3>3. Cardinality(L \ {hold[t]}) = Cardinality(L) - 1
      BY <1>0, <3>1, FS_RemoveElement
    <3>4. Cardinality(L \ {hold[t]}) + 1 = 1 + Cardinality(S)
      BY <1>0, <3>2, <3>3
    <3>5. QED
      BY <1>1, <2>1, <2>2, <2>3, <2>5, <3>4
  <2>6. QED
    BY <2>4, <2>5
<1>8. ASSUME NEW t \in Tasks, Removes(t) PROVE Accounted(j)'
  <2>1. /\ j \in enqueued /\ Counted(t) /\ ~completed[t]
        /\ AllLive' = AllLive \ {hold[t]} /\ gone' = gone
    BY <1>8 DEF Removes
  <2>2. CountedOf(j)' = S \ {t}
    BY <1>8, CountedLess DEF Removes, S
  <2>3. LiveOf(j)' = L \ {hold[t]}
    BY <2>1 DEF LiveOf, L
  <2>4. CASE j # hold[t].job
    <3>1. hold[t] \notin L /\ t \notin S
      BY <2>4 DEF L, LiveOf, S, CountedOf
    <3>2. QED
      BY <1>2, <2>1, <2>2, <2>3, <3>1
  <2>5. CASE j = hold[t].job
    <3>1. t \in S
      BY <2>1, <2>5 DEF S, CountedOf
    <3>2. hold[t] \in L
      <4>1. hold[t] \in unacked[t[1]] /\ t[1] \in Workers
        BY <2>1, OpenHold, TaskFacts DEF Counted
      <4>2. QED
        BY <2>5, <4>1 DEF L, LiveOf, AllLive
    <3>3. /\ Cardinality(L \ {hold[t]}) = Cardinality(L) - 1
          /\ Cardinality(S \ {t}) = Cardinality(S) - 1
      BY <1>0, <3>1, <3>2, FS_RemoveElement
    <3>4. Cardinality(L \ {hold[t]}) + (IF j \in gone' THEN 1 ELSE 0) = 1 + Cardinality(S \ {t})
      BY <1>0, <2>1, <3>3
    <3>5. QED
      BY <1>1, <2>2, <2>3, <3>4
  <2>6. QED
    BY <2>4, <2>5
<1>9. QED
  BY <1>3, <1>4, <1>5, <1>6, <1>7, <1>8 DEF CountStep

LEMMA StepClean ==
  ASSUME TypeInv, FlagInv, HandsInv, CleanInv, [Next]_vars
  PROVE  CleanInv'
<1> SUFFICES ASSUME faults' = 0
             PROVE  Orderly' /\ Attached' /\ \A j \in enqueued' : Accounted(j)'
  BY DEF CleanInv
<1>1. faults = 0
  BY StepCounters DEF CountersGrow, TypeInv
<1>2. Orderly /\ Attached /\ \A j \in enqueued : Accounted(j)
  BY <1>1 DEF CleanInv
<1>3. TypeInv' /\ FlagInv' /\ \A v \in Workers : WorkerStep(v)
  BY StepTypes, StepFlags, StepWorkers
<1>4. Orderly'
  BY <1>1, <1>2, StepOrderly
<1>5. \A v \in Workers :
        /\ \A t \in TasksOf(v) : hold'[t] # NoCopy => hold'[t] \in unacked'[v] \/ completed'[t]
        /\ \A i \in DOMAIN pending'[v] : pending'[v][i] \in unacked'[v]
  BY <1>2, <1>3, <1>4, StepAttached
<1>6. Attached'
  BY <1>5, TaskFacts DEF Attached
<1>7. CountStep
  BY <1>1, <1>2, StepCounts
<1>8. \A j \in enqueued' : Accounted(j)'
  BY <1>2, <1>7, StepAccounted
<1>9. QED
  BY <1>4, <1>6, <1>8

--------------------------------------------------------------------------------
(* The theorems. *)

JobsInv ==
  /\ TypeInv /\ KeptInv /\ AttemptsInv
  /\ FlagInv /\ HandsInv /\ StuckIsReported
  /\ CleanInv

LEMMA JobsInvariant == Spec => []JobsInv
<1>1. Init => JobsInv
  BY InitTypes, InitKept, InitAttempts, InitFlags, InitHands, InitClean DEF JobsInv
<1>2. JobsInv /\ [Next]_vars => JobsInv'
  BY StepTypes, StepKept, StepAttempts, StepFlags, StepHands, StepClean DEF JobsInv
<1>3. QED
  BY <1>1, <1>2, PTL DEF Spec

\* No job is lost, whatever crashes, lost channels and unconfirmed publications do: the
\* broker has a copy until the job is acked after a run, dead-lettered or rejected.  No
\* copy has more attempts than the policy and the handlers allow, and until something
\* fails a job is one copy or one fate but for a retry whose original is about to be
\* acked (_handleJobFailure and the context of rabbitmq_message_bus.dart).
THEOREM JobsAreAccounted == Spec => []JobsAccounted
<1>1. ASSUME JobsInv PROVE NothingVanishes
  <2>1. \A j \in Jobs : \A c \in AllLive : c.job = j => c \in Live(j)
    BY DEF AllLive, Live
  <2>2. QED
    BY <1>1, <2>1 DEF JobsInv, KeptInv, NothingVanishes
<1>2. ASSUME JobsInv PROVE OneCopyOrFate
  <2> SUFFICES ASSUME faults = 0, NEW j \in Jobs, j \in enqueued
               PROVE  Cardinality(Live(j)) + Cardinality({j} \cap gone) =
                        1 + Cardinality({t \in Tasks : pc[t] \in {"settle", "ctxAck"} /\ hold[t].job = j})
    BY DEF OneCopyOrFate
  <2>1. Live(j) = LiveOf(j)
    BY DEF Live, LiveOf, AllLive
  <2>2. {t \in Tasks : pc[t] \in {"settle", "ctxAck"} /\ hold[t].job = j} = CountedOf(j)
    BY DEF CountedOf, Counted
  <2>3. Accounted(j)
    BY <1>2 DEF JobsInv, CleanInv
  <2>4. QED
    BY <2>1, <2>2, <2>3 DEF Accounted
<1>3. ASSUME JobsInv PROVE AttemptsWithinPolicy
  BY <1>3 DEF JobsInv, AttemptsInv, AttemptsWithinPolicy, Live, AllLive
<1>4. JobsInv => JobsAccounted
  BY <1>1, <1>2, <1>3 DEF JobsAccounted
<1>5. QED
  BY <1>4, JobsInvariant, PTL

\* A worker that takes deliveries and keeps one unacked that it no longer works on has
\* reported an error: the health check sees it ("the original delivery is left unacked
\* and the health check records the failure", docs/rabbitmq.md:42-43).
THEOREM StuckDeliveriesAreReported == Spec => []StuckIsReported
<1>1. JobsInv => StuckIsReported
  BY DEF JobsInv
<1>2. QED
  BY <1>1, JobsInvariant, PTL

================================================================================
