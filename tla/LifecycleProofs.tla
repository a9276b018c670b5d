---------------------------- MODULE LifecycleProofs ----------------------------
(***************************************************************************)
(* Theorems about what an end leaves behind: start and stop of Serverpod   *)
(* messaging over the two NATS transports, for every set of callers,       *)
(* subscriptions and workers, every concurrency and any number of calls    *)
(* and faults; and the navigation and the search dialogs of the website,   *)
(* for every set of queries and wherever their terms occur in the content. *)
(***************************************************************************)
EXTENDS ServerpodMessaging, DocsSite, FiniteSetTheorems, FunctionTheorems, TLAPS

--------------------------------------------------------------------------------
(* Types of start, stop and the transports. *)

\* A stream that is not paused has a slot left; only an open or closing handle, or
\* one that was given up, has handlers; subscriptions open at once.
ActiveInv ==
  /\ \A s \in Subs : at[s] = "open" /\ s \notin paused => active[s] <= Concurrency
  /\ \A h \in Handles : at[h] \in {"unused", "creating"} => active[h] = 0
  /\ \A h \in Handles : at[h] = "closed" => active[h] = 0 \/ h \in gaveUp
  /\ \A s \in Subs : at[s] # "creating"

TypeInv == MessagingTypeOK /\ ActiveInv

--------------------------------------------------------------------------------
(* Handlers, connections and handles. *)

LEMMA StreamsKeepTypes ==
  ASSUME TypeInv, NEW s \in Subs, Arrive(s) \/ Take(s) \/ CloseTimesOut(s), Outside
  PROVE  TypeInv'
<1> USE NatsTransportsAssumption
    DEF TypeInv, MessagingTypeOK, NatsTypeOK, ActiveInv, Outside, callVars, history,
        linkVars, streamVars, workVars, handleVars, Handles
<1>1. CASE Arrive(s)
  BY <1>1 DEF Arrive
<1>2. CASE Take(s)
  BY <1>2 DEF Take
<1>3. CASE CloseTimesOut(s)
  BY <1>3 DEF CloseTimesOut
<1>4. QED
  BY <1>1, <1>2, <1>3

LEMMA FetchKeepsTypes ==
  ASSUME TypeInv, NEW w \in Workers, Fetch(w), Outside
  PROVE  TypeInv'
BY NatsTransportsAssumption
DEF Fetch, TypeInv, MessagingTypeOK, NatsTypeOK, ActiveInv, Outside, callVars, history,
    linkVars, streamVars, workVars, handleVars, Handles

LEMMA HandlersKeepTypes ==
  ASSUME TypeInv, NEW h \in Handles, HandlerEnds(h) \/ HandlerHangs(h) \/ Closed(h), Outside
  PROVE  TypeInv'
<1> USE NatsTransportsAssumption
    DEF TypeInv, MessagingTypeOK, NatsTypeOK, ActiveInv, Outside, callVars, history,
        linkVars, streamVars, workVars, handleVars, Handles
<1>1. CASE HandlerEnds(h)
  BY <1>1 DEF HandlerEnds, Resumes
<1>2. CASE HandlerHangs(h)
  BY <1>2 DEF HandlerHangs, Fault
<1>3. CASE Closed(h)
  BY <1>3 DEF Closed
<1>4. QED
  BY <1>1, <1>2, <1>3

LEMMA HandlesKeepTypes ==
  ASSUME TypeInv, NEW h \in Handles,
         \/ h \in Subs /\ Subscribe(h)
         \/ h \in Workers /\ (WorkerBegins(h) \/ WorkerStarts(h) \/ WorkerThrows(h))
  PROVE  TypeInv'
<1> USE NatsTransportsAssumption
    DEF TypeInv, MessagingTypeOK, NatsTypeOK, ActiveInv, callVars, history,
        linkVars, streamVars, workVars, handleVars, Handles
<1>1. CASE h \in Subs /\ Subscribe(h)
  BY <1>1 DEF Subscribe
<1>2. CASE h \in Workers /\ WorkerBegins(h)
  BY <1>2 DEF WorkerBegins
<1>3. CASE h \in Workers /\ WorkerStarts(h)
  BY <1>3 DEF WorkerStarts
<1>4. CASE h \in Workers /\ WorkerThrows(h)
  BY <1>4 DEF WorkerThrows
<1>5. QED
  BY <1>1, <1>2, <1>3, <1>4

--------------------------------------------------------------------------------
(* The steps of start and stop. *)

\* A call that goes on, or begins, stands at a step of its own.
LEMMA StepTaken ==
  ASSUME MessagingTypeOK, NEW o \in Callers, NEW step \in Steps \ {"idle"}, NEW t \in Transports,
         GoTo(o, step, t), call'[o] # "none",
         \A p \in Callers : p # o => call'[p] = call[p]
  PROVE  /\ pc' \in [Callers -> Steps \X Transports]
         /\ pc'[o] = <<step, t>>
         /\ \A p \in Callers : p # o => pc'[p] = pc[p]
         /\ \A p \in Callers : call'[p] = "none" <=> pc'[p] = Idle
<1>1. /\ pc' \in [Callers -> Steps \X Transports]
      /\ pc'[o] = <<step, t>>
      /\ \A p \in Callers : p # o => pc'[p] = pc[p]
  BY DEF MessagingTypeOK, GoTo
<1>2. <<step, t>> # Idle
  BY DEF Idle
<1>3. QED
  BY <1>1, <1>2 DEF MessagingTypeOK

\* A call that returns leaves its caller idle.
LEMMA CallReturned ==
  ASSUME MessagingTypeOK, NEW o \in Callers, Return(o)
  PROVE  /\ call' \in [Callers -> {"none", "start", "stop"}]
         /\ pc' \in [Callers -> Steps \X Transports]
         /\ pc'[o] = Idle /\ call'[o] = "none"
         /\ \A p \in Callers : p # o => pc'[p] = pc[p] /\ call'[p] = call[p]
         /\ \A p \in Callers : call'[p] = "none" <=> pc'[p] = Idle
<1>1. Idle \in Steps \X Transports
  BY DEF Idle, Steps, Transports
<1>2. QED
  BY <1>1 DEF MessagingTypeOK, Return

\* A caller that stands at a step is in a call.
LEMMA AtStep ==
  ASSUME MessagingTypeOK, NEW o \in Callers, pc[o][1] # "idle"
  PROVE  call[o] # "none"
<1>1. Idle[1] = "idle"
  BY DEF Idle
<1>2. QED
  BY <1>1 DEF MessagingTypeOK

\* close of the open ones among some handles leaves those handles closing.
LEMMA BeginCloseTypes ==
  ASSUME TypeInv, NEW hs \in SUBSET Handles, BeginClose(hs),
         UNCHANGED <<workVars, listed, gaveUp>>
  PROVE  /\ at' \in [Handles -> {"unused", "creating", "open", "closing", "closed"}]
         /\ inbox' \in [Subs -> 0..MaxInbox]
         /\ paused' \subseteq {s \in Subs : at'[s] = "open" /\ active'[s] >= Concurrency}
         /\ ActiveInv'
BY NatsTransportsAssumption
DEF BeginClose, TypeInv, MessagingTypeOK, NatsTypeOK, ActiveInv, workVars, Handles

LEMMA StartKeepsTypes ==
  ASSUME TypeInv, NEW o \in Callers, StartBegins(o) \/ Start(o)
  PROVE  TypeInv'
<1> USE DEF TypeInv, MessagingTypeOK, NatsTypeOK, ActiveInv,
            linkVars, streamVars, workVars, handleVars, history, Throws, Keeps
<1> DEFINE Moves == /\ pc' \in [Callers -> Steps \X Transports]
                    /\ \A p \in Callers : call'[p] = "none" <=> pc'[p] = Idle
<1>s. "connect" \in Steps \ {"idle"} /\ "close" \in Steps \ {"idle"}
  BY DEF Steps
<1>t. "bus" \in Transports /\ "queue" \in Transports /\ "bus" # "queue"
  BY DEF Transports
<1>1. CASE StartBegins(o)
  <2>1. GoTo(o, "connect", "bus") /\ call' = [call EXCEPT ![o] = "start"]
    BY <1>1 DEF StartBegins, Begin
  <2>2. Moves
    BY <2>1, <1>s, <1>t, StepTaken
  <2>3. NatsTypeOK' /\ ActiveInv'
    BY <1>1, <1>t DEF StartBegins, BeginConnect
  <2>4. tangled' \in BOOLEAN /\ clean' \in BOOLEAN /\ UNCHANGED strays
    BY <1>1 DEF StartBegins, Begin
  <2>5. calls' \in 0..MaxCalls
    BY <1>1, ServerpodMessagingAssumption DEF StartBegins, Begin
  <2>6. failed' \subseteq Callers /\ call' \in [Callers -> {"none", "start", "stop"}]
    BY <1>1 DEF StartBegins, Begin
  <2>7. QED
    BY <1>1, <2>2, <2>3, <2>4, <2>5, <2>6 DEF StartBegins
<1>2. CASE BusConnected(o)
  <2>1. GoTo(o, "connect", "queue") /\ call[o] # "none" /\ UNCHANGED call
    BY <1>2, AtStep DEF BusConnected
  <2>2. Moves
    BY <2>1, <1>s, <1>t, StepTaken
  <2>3. NatsTypeOK' /\ ActiveInv'
    BY <1>2, <1>t DEF BusConnected
  <2>4. QED
    BY <1>2, <2>1, <2>2, <2>3 DEF BusConnected
<1>3. CASE BusConnectThrows(o)
  <2>1. NatsTypeOK' /\ ActiveInv'
    BY <1>3, <1>t, NatsTransportsAssumption DEF BusConnectThrows, ConnectThrows, Fault
  <2>2. QED
    BY <1>3, <2>1, CallReturned DEF BusConnectThrows
<1>4. CASE QueueConnected(o)
  <2>1. NatsTypeOK' /\ ActiveInv'
    BY <1>4, <1>t DEF QueueConnected, Connected
  <2>2. QED
    BY <1>4, <2>1, CallReturned DEF QueueConnected
<1>5. CASE QueueConnectThrows(o)
  <2>1. GoTo(o, "close", "bus") /\ call[o] # "none" /\ UNCHANGED call
    BY <1>5, AtStep DEF QueueConnectThrows
  <2>2. Moves
    BY <2>1, <1>s, <1>t, StepTaken
  <2>3. NatsTypeOK' /\ ActiveInv'
    BY <1>5, <1>t, NatsTransportsAssumption DEF QueueConnectThrows, ConnectThrows, Fault
  <2>4. QED
    BY <1>5, <2>1, <2>2, <2>3 DEF QueueConnectThrows
<1>6. QED
  BY <1>1, <1>2, <1>3, <1>4, <1>5 DEF Start
LEMMA StopKeepsTypes ==
  ASSUME TypeInv, NEW o \in Callers, StopBegins(o) \/ Stop(o)
  PROVE  TypeInv'
<1> USE DEF TypeInv, MessagingTypeOK, NatsTypeOK, ActiveInv,
            linkVars, streamVars, workVars, handleVars, history, Throws, Keeps
<1> DEFINE Moves == /\ pc' \in [Callers -> Steps \X Transports]
                    /\ \A p \in Callers : call'[p] = "none" <=> pc'[p] = Idle
<1>s. /\ "each" \in Steps \ {"idle"} /\ "closing" \in Steps \ {"idle"}
      /\ "close" \in Steps \ {"idle"}
  BY DEF Steps
<1>t. "bus" \in Transports /\ "queue" \in Transports /\ pc[o][2] \in Transports
  BY DEF Transports
<1>1. CASE StopBegins(o)
  <2>1. GoTo(o, "each", "queue") /\ call' = [call EXCEPT ![o] = "stop"]
    BY <1>1 DEF StopBegins, Begin
  <2>2. Moves
    BY <2>1, <1>s, <1>t, StepTaken
  <2>3. NatsTypeOK' /\ ActiveInv'
    BY <1>1 DEF StopBegins, natsVars
  <2>4. tangled' \in BOOLEAN /\ clean' \in BOOLEAN /\ UNCHANGED strays
    BY <1>1 DEF StopBegins, Begin
  <2>5. calls' \in 0..MaxCalls
    BY <1>1, ServerpodMessagingAssumption DEF StopBegins, Begin
  <2>6. failed' \subseteq Callers /\ call' \in [Callers -> {"none", "start", "stop"}]
    BY <1>1 DEF StopBegins, Begin
  <2>7. QED
    BY <1>1, <2>2, <2>3, <2>4, <2>5, <2>6 DEF StopBegins
<1>2. ASSUME NEW h \in Handles, CloseNext(o, h) PROVE TypeInv'
  <2>1. GoTo(o, "closing", pc[o][2]) /\ call[o] # "none" /\ UNCHANGED call
    BY <1>2, AtStep DEF CloseNext
  <2>2. Moves
    BY <2>1, <1>s, <1>t, StepTaken
  <2>3. /\ at' \in [Handles -> {"unused", "creating", "open", "closing", "closed"}]
        /\ inbox' \in [Subs -> 0..MaxInbox]
        /\ paused' \subseteq {s \in Subs : at'[s] = "open" /\ active'[s] >= Concurrency}
        /\ ActiveInv'
    BY <1>2, BeginCloseTypes DEF CloseNext
  <2>4. NatsTypeOK'
    BY <1>2, <2>3 DEF CloseNext
  <2>5. todo' \in [Callers -> SUBSET Handles] /\ wait' \in [Callers -> SUBSET Handles]
    BY <1>2 DEF CloseNext
  <2>6. QED
    BY <1>2, <2>2, <2>3, <2>4, <2>5 DEF CloseNext
<1>3. CASE OneClosed(o)
  <2>1. GoTo(o, "each", pc[o][2]) /\ call[o] # "none" /\ UNCHANGED call
    BY <1>3, AtStep DEF OneClosed
  <2>2. Moves
    BY <2>1, <1>s, <1>t, StepTaken
  <2>3. NatsTypeOK' /\ ActiveInv'
    BY <1>3 DEF OneClosed, natsVars
  <2>4. failed' \subseteq Callers /\ wait' \in [Callers -> SUBSET Handles]
    BY <1>3 DEF OneClosed
  <2>5. QED
    BY <1>3, <2>2, <2>3, <2>4 DEF OneClosed
<1>4. CASE EachClosed(o)
  <2>1. /\ GoTo(o, "each", "bus") \/ GoTo(o, "close", "queue")
        /\ call[o] # "none" /\ UNCHANGED call
    BY <1>4, AtStep DEF EachClosed
  <2>2. Moves
    BY <2>1, <1>s, <1>t, StepTaken
  <2>3. NatsTypeOK' /\ ActiveInv'
    BY <1>4 DEF EachClosed, natsVars
  <2>4. kept' \subseteq Handles /\ todo' \in [Callers -> SUBSET Handles]
    BY <1>4 DEF EachClosed
  <2>5. QED
    BY <1>4, <2>2, <2>3, <2>4 DEF EachClosed
<1>5. QED
  BY <1>1, <1>2, <1>3, <1>4 DEF Stop

\* How the close of a transport leaves the call that makes it.
LEMMA AfterTypes ==
  ASSUME MessagingTypeOK, NEW o \in Callers, NEW t \in Transports, call[o] # "none", After(o, t)
  PROVE  /\ call' \in [Callers -> {"none", "start", "stop"}]
         /\ pc' \in [Callers -> Steps \X Transports]
         /\ \A p \in Callers : call'[p] = "none" <=> pc'[p] = Idle
         /\ clean' \in BOOLEAN
         /\ UNCHANGED <<started, kept, todo, calls, tangled, strays>>
<1>1. CASE t = "queue"
  <2>1. GoTo(o, "close", "bus") /\ UNCHANGED <<started, kept, call, todo, calls, history>>
    BY <1>1 DEF After
  <2>2. "close" \in Steps \ {"idle"} /\ "bus" \in Transports
    BY DEF Steps, Transports
  <2>3. QED
    BY <2>1, <2>2, StepTaken DEF MessagingTypeOK, history
<1>2. CASE t # "queue"
  BY <1>2, CallReturned DEF After, MessagingTypeOK
<1>3. QED
  BY <1>1, <1>2

LEMMA ShutdownKeepsTypes ==
  ASSUME TypeInv, NEW o \in Callers, NEW t \in Transports, Shutdown(o, t)
  PROVE  TypeInv'
<1> USE DEF TypeInv, MessagingTypeOK, NatsTypeOK, ActiveInv,
            linkVars, streamVars, workVars, handleVars, history, Throws, Keeps
<1> DEFINE Moves == /\ pc' \in [Callers -> Steps \X Transports]
                    /\ \A p \in Callers : call'[p] = "none" <=> pc'[p] = Idle
<1>s. "await" \in Steps \ {"idle"} /\ "drop" \in Steps \ {"idle"}
  BY DEF Steps
<1>1. CASE CloseSkipped(o, t)
  <2>1. call[o] # "none" /\ After(o, t)
    BY <1>1, AtStep DEF CloseSkipped
  <2>2. NatsTypeOK' /\ ActiveInv'
    BY <1>1 DEF CloseSkipped, natsVars
  <2>3. QED
    BY <1>1, <2>1, <2>2, AfterTypes DEF CloseSkipped
<1>2. CASE CloseTransport(o, t)
  <2>1. GoTo(o, "await", t) /\ call[o] # "none" /\ UNCHANGED call
    BY <1>2, AtStep DEF CloseTransport
  <2>2. Moves
    BY <2>1, <1>s, StepTaken
  <2>3. /\ listed \cap HandlesOf(t) \in SUBSET Handles
        /\ BeginClose(listed \cap HandlesOf(t))
        /\ UNCHANGED <<workVars, listed, gaveUp>>
    BY <1>2 DEF CloseTransport, BeginShutdown
  <2>4. /\ at' \in [Handles -> {"unused", "creating", "open", "closing", "closed"}]
        /\ inbox' \in [Subs -> 0..MaxInbox]
        /\ paused' \subseteq {s \in Subs : at'[s] = "open" /\ active'[s] >= Concurrency}
        /\ ActiveInv'
    BY <2>3, BeginCloseTypes
  <2>5. /\ closing' \in [Transports -> BOOLEAN]
        /\ link' \in [Transports -> {"down", "up", "leaving"}]
        /\ link'["bus"] # "leaving"
    BY <1>2 DEF CloseTransport, BeginShutdown
  <2>6. NatsTypeOK'
    BY <1>2, <2>3, <2>4, <2>5 DEF CloseTransport
  <2>7. wait' \in [Callers -> SUBSET Handles]
    BY <1>2 DEF CloseTransport
  <2>8. QED
    BY <1>2, <2>2, <2>4, <2>6, <2>7 DEF CloseTransport
<1>3. CASE HandlesClosed(o, t)
  <2>1. GoTo(o, "drop", t) /\ call[o] # "none" /\ UNCHANGED call
    BY <1>3, AtStep DEF HandlesClosed
  <2>2. Moves
    BY <2>1, <1>s, StepTaken
  <2>3. NatsTypeOK' /\ ActiveInv'
    BY <1>3 DEF HandlesClosed, Unlist
  <2>4. failed' \subseteq Callers /\ wait' \in [Callers -> SUBSET Handles]
    BY <1>3 DEF HandlesClosed
  <2>5. QED
    BY <1>3, <2>2, <2>3, <2>4 DEF HandlesClosed
<1>4. CASE HandlesLate(o, t)
  <2>1. GoTo(o, "drop", t) /\ call[o] # "none" /\ UNCHANGED call
    BY <1>4, AtStep DEF HandlesLate
  <2>2. Moves
    BY <2>1, <1>s, StepTaken
  <2>3. NatsTypeOK' /\ ActiveInv'
    BY <1>4 DEF HandlesLate, GiveUp
  <2>4. failed' \subseteq Callers /\ wait' \in [Callers -> SUBSET Handles]
    BY <1>4 DEF HandlesLate
  <2>5. QED
    BY <1>4, <2>2, <2>3, <2>4 DEF HandlesLate
<1>5. CASE TransportClosed(o, t)
  <2>1. call[o] # "none" /\ After(o, t)
    BY <1>5, AtStep DEF TransportClosed
  <2>2. faults' \in 0..MaxFaults /\ failed' \subseteq Callers
    BY <1>5, NatsTransportsAssumption DEF TransportClosed, Fault
  <2>3. NatsTypeOK' /\ ActiveInv'
    BY <1>5, <2>2 DEF TransportClosed, Disconnect
  <2>4. QED
    BY <1>5, <2>1, <2>2, <2>3, AfterTypes DEF TransportClosed
<1>6. QED
  BY <1>1, <1>2, <1>3, <1>4, <1>5 DEF Shutdown

LEMMA TypesInit == MessagingInit => TypeInv
<1> SUFFICES ASSUME MessagingInit PROVE TypeInv
  OBVIOUS
<1>1. NatsTypeOK /\ ActiveInv
  BY NatsTransportsAssumption
  DEF MessagingInit, NatsInit, NatsTypeOK, ActiveInv, Transports, Handles
<1>2. Idle \in Steps \X Transports
  BY DEF Idle, Steps, Transports
<1>3. /\ pc \in [Callers -> Steps \X Transports]
      /\ \A o \in Callers : call[o] = "none" <=> pc[o] = Idle
  BY <1>2 DEF MessagingInit
<1>4. calls \in 0..MaxCalls
  BY ServerpodMessagingAssumption DEF MessagingInit
<1>5. QED
  BY <1>1, <1>3, <1>4 DEF TypeInv, MessagingInit, MessagingTypeOK

LEMMA TypesKept ==
  ASSUME TypeInv, [MessagingNext]_messagingVars
  PROVE  TypeInv'
<1>1. CASE UNCHANGED messagingVars
  BY <1>1
  DEF messagingVars, natsVars, linkVars, streamVars, workVars, handleVars, callVars, history,
      TypeInv, MessagingTypeOK, NatsTypeOK, ActiveInv
<1>2. CASE Handle /\ Outside
  BY <1>2, StreamsKeepTypes, FetchKeepsTypes, HandlersKeepTypes DEF Handle
<1>3. QED
  BY <1>1, <1>2, StartKeepsTypes, StopKeepsTypes, ShutdownKeepsTypes, HandlesKeepTypes
  DEF MessagingNext, Call, Handles

\* Every state of start, stop and the two transports is well typed; a paused stream has
\* a handler behind it that will resume it, and a subscription runs one handler more
\* than its concurrency at the most (_NatsSubscription.listen).
THEOREM MessagingTypeCorrect == MessagingSpec => []MessagingTypeOK
<1>1. TypeInv /\ [MessagingNext]_messagingVars => TypeInv'
  BY TypesKept
<1>2. TypeInv => MessagingTypeOK
  BY DEF TypeInv
<1>3. QED
  BY TypesInit, <1>1, <1>2, PTL DEF MessagingSpec

--------------------------------------------------------------------------------
(* What start and stop wait for. *)

\* Only a call that awaits closes waits for handles, and a handle that closes is awaited
\* by the call that closed it unless that call gave it up.
WaitInv ==
  /\ \A o \in Callers : pc[o][1] \notin {"closing", "await"} => wait[o] = {}
  /\ \A h \in Handles : at[h] = "closing" => h \in gaveUp \/ \E o \in Callers : h \in wait[o]

\* A step that awaits nothing new and closes nothing.
LEMMA WaitsUnchanged ==
  ASSUME MessagingTypeOK, WaitInv, UNCHANGED <<pc, wait>>, gaveUp \subseteq gaveUp',
         \A h \in Handles : at'[h] = "closing" => at[h] = "closing"
  PROVE  WaitInv'
BY DEF WaitInv

\* A caller moves on without waiting for anything.
LEMMA WaitsNot ==
  ASSUME MessagingTypeOK, WaitInv, NEW o \in Callers,
         \A p \in Callers : p # o => pc'[p] = pc[p],
         pc'[o][1] \notin {"closing", "await"}, pc[o][1] \notin {"closing", "await"},
         UNCHANGED <<wait, at, gaveUp>>
  PROVE  WaitInv'
BY DEF WaitInv

\* A caller is done with what it waited for.
LEMMA WaitEnds ==
  ASSUME MessagingTypeOK, WaitInv, NEW o \in Callers, NEW step \in {"each", "drop"},
         NEW t \in Transports, GoTo(o, step, t), wait' = [wait EXCEPT ![o] = {}], UNCHANGED at,
         gaveUp \subseteq gaveUp',
         \A h \in wait[o] : at[h] = "closed" \/ h \in gaveUp'
  PROVE  WaitInv'
<1>1. /\ pc'[o] = <<step, t>> /\ wait'[o] = {}
      /\ \A p \in Callers : p # o => pc'[p] = pc[p] /\ wait'[p] = wait[p]
  BY DEF GoTo, MessagingTypeOK
<1>2. pc'[o][1] \notin {"closing", "await"}
  BY <1>1
<1>3. ASSUME NEW h \in Handles, at'[h] = "closing"
      PROVE  h \in gaveUp' \/ \E p \in Callers : h \in wait'[p]
  BY <1>1, <1>3 DEF WaitInv
<1>4. QED
  BY <1>1, <1>2, <1>3 DEF WaitInv

\* A caller closes handles and waits for them.
LEMMA WaitBegins ==
  ASSUME MessagingTypeOK, WaitInv, NEW o \in Callers, NEW step \in {"closing", "await"},
         NEW t \in Transports, GoTo(o, step, t), pc[o][1] \notin {"closing", "await"},
         NEW hs \in SUBSET Handles, BeginClose(hs),
         wait' = [wait EXCEPT ![o] = {h \in hs : at[h] = "open"}], UNCHANGED gaveUp
  PROVE  WaitInv'
<1>1. /\ pc'[o] = <<step, t>> /\ wait'[o] = {h \in hs : at[h] = "open"}
      /\ \A p \in Callers : p # o => pc'[p] = pc[p] /\ wait'[p] = wait[p]
  BY DEF GoTo, MessagingTypeOK
<1>2. wait[o] = {}
  BY DEF WaitInv
<1>3. pc'[o][1] = step
  BY <1>1
<1>4. ASSUME NEW h \in Handles, at'[h] = "closing"
      PROVE  h \in gaveUp' \/ \E p \in Callers : h \in wait'[p]
  <2>1. at[h] = "closing" \/ h \in wait'[o]
    BY <1>1, <1>4 DEF BeginClose
  <2>2. QED
    BY <1>1, <1>2, <2>1 DEF WaitInv
<1>5. QED
  BY <1>1, <1>3, <1>4 DEF WaitInv

LEMMA WaitKept ==
  ASSUME TypeInv, WaitInv, [MessagingNext]_messagingVars
  PROVE  WaitInv'
<1> USE DEF TypeInv
<1>t. /\ "bus" \in Transports /\ "queue" \in Transports
      /\ \A o \in Callers : pc[o][2] \in Transports
  BY DEF Transports, MessagingTypeOK
<1>i. Idle[1] = "idle"
  BY DEF Idle
<1>1. ASSUME NEW o \in Callers, StartBegins(o) \/ StopBegins(o) PROVE WaitInv'
  <2>1. /\ GoTo(o, "connect", "bus") \/ GoTo(o, "each", "queue")
        /\ UNCHANGED <<wait, at, gaveUp>> /\ call[o] = "none"
    BY <1>1 DEF StartBegins, StopBegins, Begin, BeginConnect, handleVars, natsVars
  <2>2. pc[o][1] = "idle"
    BY <2>1, <1>i DEF MessagingTypeOK
  <2>3. \A p \in Callers : p # o => pc'[p] = pc[p]
    BY <2>1 DEF GoTo, MessagingTypeOK
  <2>4. pc'[o][1] \in {"connect", "each"}
    BY <2>1 DEF GoTo, MessagingTypeOK
  <2>5. QED
    BY <2>1, <2>2, <2>3, <2>4, WaitsNot
<1>2. ASSUME NEW o \in Callers, Start(o) PROVE WaitInv'
  <2>1. UNCHANGED <<wait, at, gaveUp>>
    BY <1>2 DEF Start, BusConnected, BusConnectThrows, QueueConnected, QueueConnectThrows,
                Connected, ConnectThrows, handleVars
  <2>2. pc[o][1] = "connect"
    BY <1>2 DEF Start, BusConnected, BusConnectThrows, QueueConnected, QueueConnectThrows
  <2>3. Return(o) \/ GoTo(o, "connect", "queue") \/ GoTo(o, "close", "bus")
    BY <1>2 DEF Start, BusConnected, BusConnectThrows, QueueConnected, QueueConnectThrows
  <2>4. \A p \in Callers : p # o => pc'[p] = pc[p]
    BY <2>3 DEF GoTo, Return, MessagingTypeOK
  <2>5. pc'[o][1] \in {"idle", "connect", "close"}
    BY <2>3, <1>i DEF GoTo, Return, MessagingTypeOK
  <2>6. QED
    BY <2>1, <2>2, <2>4, <2>5, WaitsNot
<1>3. ASSUME NEW o \in Callers, NEW h \in Handles, CloseNext(o, h) PROVE WaitInv'
  <2>1. /\ GoTo(o, "closing", pc[o][2]) /\ pc[o][1] = "each" /\ BeginClose({h})
        /\ UNCHANGED gaveUp /\ wait' = [wait EXCEPT ![o] = IF at[h] = "open" THEN {h} ELSE {}]
    BY <1>3 DEF CloseNext
  <2>2. (IF at[h] = "open" THEN {h} ELSE {}) = {g \in {h} : at[g] = "open"}
    OBVIOUS
  <2>3. wait' = [wait EXCEPT ![o] = {g \in {h} : at[g] = "open"}]
    BY <2>1, <2>2
  <2>4. QED
    BY <2>1, <2>3, <1>t, WaitBegins
<1>4. ASSUME NEW o \in Callers, OneClosed(o) PROVE WaitInv'
  BY <1>4, <1>t, WaitEnds DEF OneClosed, natsVars, handleVars
<1>5. ASSUME NEW o \in Callers, EachClosed(o) PROVE WaitInv'
  <2>1. /\ GoTo(o, "close", "queue") \/ GoTo(o, "each", "bus")
        /\ UNCHANGED <<wait, at, gaveUp>> /\ pc[o][1] = "each"
    BY <1>5 DEF EachClosed, natsVars, handleVars
  <2>2. \A p \in Callers : p # o => pc'[p] = pc[p]
    BY <2>1 DEF GoTo, MessagingTypeOK
  <2>3. pc'[o][1] \in {"close", "each"}
    BY <2>1 DEF GoTo, MessagingTypeOK
  <2>4. QED
    BY <2>1, <2>2, <2>3, WaitsNot
<1>6. ASSUME NEW o \in Callers, NEW t \in Transports, CloseSkipped(o, t) \/ TransportClosed(o, t)
      PROVE  WaitInv'
  <2>1. /\ After(o, t) /\ pc[o] \in {<<"close", t>>, <<"drop", t>>}
        /\ UNCHANGED <<wait, at, gaveUp>>
    BY <1>6 DEF CloseSkipped, TransportClosed, Disconnect, natsVars, handleVars
  <2>2. Return(o) \/ GoTo(o, "close", "bus")
    BY <2>1 DEF After
  <2>3. \A p \in Callers : p # o => pc'[p] = pc[p]
    BY <2>2 DEF GoTo, Return, MessagingTypeOK
  <2>4. pc'[o][1] \in {"idle", "close"} /\ pc[o][1] \in {"close", "drop"}
    BY <2>1, <2>2, <1>i DEF GoTo, Return, MessagingTypeOK
  <2>5. QED
    BY <2>1, <2>3, <2>4, WaitsNot
<1>7. ASSUME NEW o \in Callers, NEW t \in Transports, CloseTransport(o, t) PROVE WaitInv'
  <2>1. /\ GoTo(o, "await", t) /\ pc[o] = <<"close", t>> /\ BeginClose(listed \cap HandlesOf(t))
        /\ wait' = [wait EXCEPT ![o] = {h \in listed \cap HandlesOf(t) : at[h] = "open"}]
        /\ UNCHANGED gaveUp
    BY <1>7 DEF CloseTransport, BeginShutdown
  <2>2. pc[o][1] = "close" /\ listed \cap HandlesOf(t) \in SUBSET Handles
    BY <2>1 DEF MessagingTypeOK, NatsTypeOK
  <2>3. QED
    BY <2>1, <2>2, WaitBegins
<1>8. ASSUME NEW o \in Callers, NEW t \in Transports, HandlesClosed(o, t) PROVE WaitInv'
  BY <1>8, WaitEnds DEF HandlesClosed, Unlist
<1>9. ASSUME NEW o \in Callers, NEW t \in Transports, HandlesLate(o, t) PROVE WaitInv'
  <2>1. \A h \in wait[o] : at[h] = "closed" \/ h \in gaveUp'
    BY <1>9 DEF HandlesLate, GiveUp
  <2>2. QED
    BY <1>9, <2>1, WaitEnds DEF HandlesLate, GiveUp
<1>10. ASSUME NEW h \in Handles,
              \/ h \in Subs /\ Subscribe(h)
              \/ h \in Workers /\ (WorkerBegins(h) \/ WorkerStarts(h) \/ WorkerThrows(h))
       PROVE  WaitInv'
  <2>1. /\ UNCHANGED <<pc, wait, gaveUp>>
        /\ \A g \in Handles : at'[g] = "closing" => at[g] = "closing"
    BY <1>10 DEF Subscribe, WorkerBegins, WorkerStarts, WorkerThrows, callVars,
                 MessagingTypeOK, NatsTypeOK
  <2>2. QED
    BY <2>1, WaitsUnchanged
<1>11. ASSUME Handle, Outside PROVE WaitInv'
  <2>1. /\ gaveUp \subseteq gaveUp'
        /\ \A g \in Handles : at'[g] = "closing" => at[g] = "closing"
    BY <1>11 DEF Handle, Arrive, Take, CloseTimesOut, Fetch, HandlerEnds, HandlerHangs, Closed,
                 handleVars, MessagingTypeOK, NatsTypeOK
  <2>2. QED
    BY <1>11, <2>1, WaitsUnchanged DEF Outside, callVars
<1>12. CASE UNCHANGED messagingVars
  BY <1>12, WaitsUnchanged DEF messagingVars, natsVars, handleVars, callVars
<1>13. QED
  BY <1>1, <1>2, <1>3, <1>4, <1>5, <1>6, <1>7, <1>8, <1>9, <1>10, <1>11, <1>12
  DEF MessagingNext, Call, Stop, Shutdown, Handles

--------------------------------------------------------------------------------
(* Calls that do not overlap. *)

Calm == \A o \in Callers : call[o] = "none"

\* Neither transport is being closed.
Neither == ~closing["bus"] /\ ~closing["queue"]

\* stop before it has begun to close the queue.
Early(o) == pc[o][1] \in {"each", "closing"} \/ (pc[o][1] = "close" /\ pc[o][2] = "queue")

\* A call that is alone knows the state of both transports from where it stands.
Phase(o) ==
  /\ ~started
  /\ pc[o][1] = "connect" /\ pc[o][2] = "bus" =>
       link["bus"] = "down" /\ link["queue"] = "down" /\ Neither
  /\ pc[o][1] = "connect" /\ pc[o][2] = "queue" =>
       link["bus"] = "up" /\ link["queue"] = "down" /\ Neither
  /\ Early(o) => Neither
  /\ pc[o][1] = "close" /\ pc[o][2] = "bus" => link["queue"] = "down" /\ Neither
  /\ pc[o][1] \in {"await", "drop"} /\ pc[o][2] = "queue" => closing["queue"] /\ ~closing["bus"]
  /\ pc[o][1] \in {"await", "drop"} /\ pc[o][2] = "bus" =>
       link["queue"] = "down" /\ closing["bus"] /\ ~closing["queue"]

Resting == Neither /\ link["bus"] = (IF started THEN "up" ELSE "down")
                   /\ link["queue"] = (IF started THEN "up" ELSE "down")

\* What is open is on the list of its transport, or is a worker that came too late; no
\* subscription outlives the bus, and no worker that came in time outlives stop.
OpenInv ==
  /\ \A h \in Handles : at[h] = "open" => h \in listed \/ h \in strays
  /\ link["bus"] # "up" \/ closing["bus"] => \A s \in Subs : at[s] # "open"
  /\ \/ started
     \/ \E o \in Callers : Early(o)
     \/ \A w \in Workers : at[w] = "open" => w \in strays

AloneInv ==
  ~tangled =>
    /\ \A o, p \in Callers : call[o] # "none" /\ call[p] # "none" => o = p
    /\ \A o \in Callers : call[o] # "none" => Phase(o)
    /\ Calm => Resting
    /\ OpenInv

\* A stop that returned and was alone left nobody in a call.
CleanInv == clean => ~tangled /\ ~started /\ Calm

LifeInv == TypeInv /\ WaitInv /\ AloneInv /\ CleanInv

\* When calls do not overlap, the callers other than one in a call have none.
LEMMA TheOnlyCall ==
  ASSUME LifeInv, ~tangled, NEW o \in Callers, call[o] # "none"
  PROVE  /\ Phase(o) /\ OpenInv /\ ~clean
         /\ \A p \in Callers : p # o => call[p] = "none" /\ pc[p][1] = "idle" /\ ~Early(p)
         /\ (\E p \in Callers : Early(p)) <=> Early(o)
<1>1. \A p \in Callers : p # o => call[p] = "none"
  BY DEF LifeInv, AloneInv
<1>2. Idle[1] = "idle"
  BY DEF Idle
<1>3. \A p \in Callers : p # o => pc[p][1] = "idle"
  BY <1>1, <1>2 DEF LifeInv, TypeInv, MessagingTypeOK
<1>4. \A p \in Callers : p # o => ~Early(p)
  BY <1>3 DEF Early
<1>5. QED
  BY <1>1, <1>3, <1>4 DEF LifeInv, AloneInv, CleanInv, Calm

\* The step of the only call goes on to a phase, or returns to rest.
LEMMA CallGoesOn ==
  ASSUME LifeInv, ~tangled, NEW o \in Callers, call[o] # "none", UNCHANGED <<call, tangled>>,
         Phase(o)', OpenInv'
  PROVE  AloneInv'
BY TheOnlyCall DEF LifeInv, AloneInv, Calm

LEMMA CallEnds ==
  ASSUME LifeInv, ~tangled, NEW o \in Callers, call[o] # "none", Return(o), Resting', OpenInv'
  PROVE  AloneInv'
<1>1. \A p \in Callers : call'[p] = "none"
  BY TheOnlyCall, CallReturned DEF LifeInv, TypeInv
<1>2. QED
  BY <1>1 DEF AloneInv, Calm

\* A step that moves no call and leaves the transports alone.
LEMMA NoCallMoves ==
  ASSUME LifeInv, ~tangled, UNCHANGED <<call, pc, link, closing, started, tangled>>,
         OpenInv'
  PROVE  AloneInv'
BY DEF LifeInv, AloneInv, Phase, Early, Neither, Resting, Calm

LEMMA HandlesKeepAlone ==
  ASSUME LifeInv, ~tangled, NEW h \in Handles,
         \/ h \in Subs /\ Subscribe(h)
         \/ h \in Workers /\ (WorkerBegins(h) \/ WorkerStarts(h) \/ WorkerThrows(h))
  PROVE  AloneInv'
<1> USE DEF LifeInv, TypeInv, MessagingTypeOK, NatsTypeOK
<1>1. OpenInv
  BY DEF AloneInv
<1>2. CASE h \in Subs /\ Subscribe(h)
  <2>1. /\ at' = [at EXCEPT ![h] = "open"] /\ h \in listed' /\ listed \subseteq listed'
        /\ Available("bus") /\ h \notin Workers
    BY <1>2, NatsTransportsAssumption DEF Subscribe
  <2>2. UNCHANGED <<call, pc, link, closing, started, tangled, strays>>
    BY <1>2 DEF Subscribe, linkVars, callVars, history
  <2>3. OpenInv'
    BY <1>1, <2>1, <2>2 DEF OpenInv, Available, Early, Handles
  <2>4. QED
    BY <2>2, <2>3, NoCallMoves
<1>3. CASE h \in Workers /\ WorkerStarts(h)
  <2>1. /\ at' = [at EXCEPT ![h] = "open"] /\ h \in listed' /\ listed \subseteq listed'
        /\ h \notin Subs /\ strays \subseteq strays' /\ (~started => h \in strays')
    BY <1>3, NatsTransportsAssumption DEF WorkerStarts
  <2>2. UNCHANGED <<call, pc, link, closing, started, tangled>>
    BY <1>3 DEF WorkerStarts, linkVars, callVars
  <2>3. OpenInv'
    BY <1>1, <2>1, <2>2 DEF OpenInv, Early, Handles
  <2>4. QED
    BY <2>2, <2>3, NoCallMoves
<1>4. CASE h \in Workers /\ (WorkerBegins(h) \/ WorkerThrows(h))
  <2>1. /\ \A g \in Handles : at'[g] = "open" => at[g] = "open"
        /\ UNCHANGED <<call, pc, link, closing, started, tangled, listed, strays>>
    BY <1>4 DEF WorkerBegins, WorkerThrows, linkVars, callVars, history
  <2>2. OpenInv'
    BY <1>1, <2>1 DEF OpenInv, Early, Handles
  <2>3. QED
    BY <2>1, <2>2, NoCallMoves
<1>5. QED
  BY <1>2, <1>3, <1>4

LEMMA HandlersKeepAlone ==
  ASSUME LifeInv, ~tangled, Handle, Outside
  PROVE  AloneInv'
<1> USE DEF LifeInv, TypeInv, MessagingTypeOK, NatsTypeOK
<1>1. UNCHANGED <<call, pc, link, closing, started, tangled, strays>>
  BY DEF Handle, Arrive, Take, CloseTimesOut, Fetch, HandlerEnds, HandlerHangs, Closed,
         linkVars, Outside, callVars, history
<1>2. \A g \in Handles : at'[g] = "open" => at[g] = "open" /\ (g \in listed => g \in listed')
  BY DEF Handle, Arrive, Take, CloseTimesOut, Fetch, HandlerEnds, HandlerHangs, Closed, handleVars
<1>3. OpenInv
  BY DEF AloneInv
<1>4. OpenInv'
  BY <1>1, <1>2, <1>3 DEF OpenInv, Early, Handles
<1>5. QED
  BY <1>1, <1>4, NoCallMoves

\* A call begins alone, from rest.
LEMMA BeginsAlone ==
  ASSUME LifeInv, NEW o \in Callers, NEW kind \in {"start", "stop"}, Begin(o, kind), ~tangled'
  PROVE  /\ ~tangled /\ Resting /\ OpenInv
         /\ \A p \in Callers : call'[p] # "none" => p = o
         /\ call'[o] # "none"
<1>1. ~tangled /\ \A p \in Callers : call[p] = "none"
  BY DEF Begin
<1>2. \A p \in Callers : p # o => call'[p] = call[p]
  BY DEF Begin, LifeInv, TypeInv, MessagingTypeOK
<1>3. call'[o] = kind
  BY DEF Begin, LifeInv, TypeInv, MessagingTypeOK
<1>4. QED
  BY <1>1, <1>2, <1>3 DEF LifeInv, AloneInv, Calm

LEMMA StartBeginsAlone ==
  ASSUME LifeInv, NEW o \in Callers, StartBegins(o), ~tangled'
  PROVE  AloneInv'
<1> USE DEF LifeInv, TypeInv, MessagingTypeOK, NatsTypeOK
<1>1. /\ Resting /\ OpenInv /\ ~tangled
      /\ \A p \in Callers : call'[p] # "none" => p = o
      /\ call'[o] # "none"
  BY BeginsAlone DEF StartBegins
<1>2. ~started /\ UNCHANGED <<started, link, listed, at, strays>>
  BY DEF StartBegins, Begin, BeginConnect, handleVars
<1>3. closing' = [closing EXCEPT !["bus"] = FALSE] /\ GoTo(o, "connect", "bus")
  BY DEF StartBegins, BeginConnect
<1>4. pc'[o] = <<"connect", "bus">> /\ Neither'
  BY <1>1, <1>3 DEF GoTo, Resting, Neither, Transports
<1>5. pc'[o][1] = "connect" /\ pc'[o][2] = "bus"
  BY <1>4
<1>6. Phase(o)'
  BY <1>1, <1>2, <1>4, <1>5 DEF Phase, Early, Resting
<1>7. \A w \in Workers : at[w] = "open" => w \in strays
  <2>1. \A p \in Callers : call[p] = "none"
    BY DEF StartBegins, Begin, Calm, AloneInv
  <2>2. Idle[1] = "idle"
    BY DEF Idle
  <2>3. \A p \in Callers : ~Early(p)
    BY <2>1, <2>2 DEF Early
  <2>4. QED
    BY <1>1, <1>2, <2>3 DEF OpenInv
<1>8. OpenInv'
  BY <1>1, <1>2, <1>7 DEF OpenInv, Resting
<1>9. QED
  BY <1>1, <1>6, <1>8 DEF AloneInv, Calm

LEMMA StopBeginsAlone ==
  ASSUME LifeInv, NEW o \in Callers, StopBegins(o), ~tangled'
  PROVE  AloneInv'
<1> USE DEF LifeInv, TypeInv, MessagingTypeOK, NatsTypeOK
<1>1. /\ Resting /\ OpenInv
      /\ \A p \in Callers : call'[p] # "none" => p = o
      /\ call'[o] # "none"
  BY BeginsAlone DEF StopBegins
<1>2. ~started' /\ UNCHANGED <<link, closing, listed, at, strays>>
  BY DEF StopBegins, Begin, natsVars, linkVars, handleVars
<1>3. pc'[o] = <<"each", "queue">>
  BY DEF StopBegins, GoTo
<1>4. pc'[o][1] = "each" /\ pc'[o][2] = "queue"
  BY <1>3
<1>5. Phase(o)' /\ Early(o)'
  BY <1>1, <1>2, <1>4 DEF Phase, Early, Resting, Neither
<1>6. OpenInv'
  BY <1>1, <1>2, <1>5 DEF OpenInv
<1>7. QED
  BY <1>1, <1>5, <1>6 DEF AloneInv, Calm

LEMMA StartKeepsAlone ==
  ASSUME LifeInv, NEW o \in Callers, Start(o), ~tangled'
  PROVE  AloneInv'
<1> USE DEF LifeInv, TypeInv, MessagingTypeOK, NatsTypeOK
<1>1. pc[o][1] = "connect" /\ UNCHANGED <<tangled, strays, listed, at>>
  BY DEF Start, BusConnected, BusConnectThrows, QueueConnected, QueueConnectThrows, Keeps,
         Connected, ConnectThrows, handleVars, history
<1>2. call[o] # "none" /\ ~tangled
  BY <1>1, AtStep
<1>3. /\ Phase(o) /\ OpenInv /\ ~started
      /\ \A p \in Callers : ~Early(p)
  BY <1>1, <1>2, TheOnlyCall DEF Phase, Early
<1>4. \A w \in Workers : at[w] = "open" => w \in strays
  BY <1>3 DEF OpenInv
<1>5. CASE BusConnected(o)
  <2>1. pc[o][2] = "bus"
    BY <1>5 DEF BusConnected
  <2>2. link["bus"] = "down" /\ link["queue"] = "down" /\ Neither
    BY <1>1, <1>3, <2>1 DEF Phase
  <2>3. /\ link'["bus"] = "up" /\ link'["queue"] = "down" /\ Neither'
        /\ pc'[o] = <<"connect", "queue">> /\ UNCHANGED <<call, started>>
    BY <1>5, <2>2 DEF BusConnected, GoTo, Keeps, Neither, Transports
  <2>4. pc'[o][1] = "connect" /\ pc'[o][2] = "queue"
    BY <2>3
  <2>5. Phase(o)'
    BY <1>3, <2>3, <2>4 DEF Phase, Early
  <2>6. OpenInv'
    BY <1>1, <1>3, <1>4, <2>2, <2>3 DEF OpenInv
  <2>7. QED
    BY <1>1, <1>2, <2>3, <2>5, <2>6, CallGoesOn
<1>6. CASE BusConnectThrows(o)
  <2>1. pc[o][2] = "bus"
    BY <1>6 DEF BusConnectThrows
  <2>2. link["bus"] = "down" /\ link["queue"] = "down" /\ Neither
    BY <1>1, <1>3, <2>1 DEF Phase
  <2>3. /\ link'["bus"] = "down" /\ link'["queue"] = "down" /\ Neither'
        /\ Return(o) /\ UNCHANGED started
    BY <1>6, <2>2 DEF BusConnectThrows, ConnectThrows, Neither, Transports
  <2>4. OpenInv'
    BY <1>1, <1>3, <1>4, <2>2, <2>3 DEF OpenInv
  <2>5. QED
    BY <1>2, <1>3, <2>3, <2>4, CallEnds DEF Resting
<1>7. CASE QueueConnected(o)
  <2>1. pc[o][2] = "queue"
    BY <1>7 DEF QueueConnected
  <2>2. link["bus"] = "up" /\ link["queue"] = "down" /\ Neither
    BY <1>1, <1>3, <2>1 DEF Phase
  <2>3. /\ link'["bus"] = "up" /\ link'["queue"] = "up" /\ Neither'
        /\ Return(o) /\ started'
    BY <1>7, <2>2 DEF QueueConnected, Connected, Neither, Transports
  <2>4. OpenInv'
    BY <1>1, <1>3, <2>2, <2>3 DEF OpenInv, Neither
  <2>5. QED
    BY <1>2, <2>3, <2>4, CallEnds DEF Resting
<1>8. CASE QueueConnectThrows(o)
  <2>1. pc[o][2] = "queue"
    BY <1>8 DEF QueueConnectThrows
  <2>2. link["bus"] = "up" /\ link["queue"] = "down" /\ Neither
    BY <1>1, <1>3, <2>1 DEF Phase
  <2>3. /\ link'["bus"] = "up" /\ link'["queue"] = "down" /\ Neither'
        /\ pc'[o] = <<"close", "bus">> /\ UNCHANGED <<call, started>>
    BY <1>8, <2>2 DEF QueueConnectThrows, ConnectThrows, GoTo, Keeps, Neither, Transports
  <2>4. pc'[o][1] = "close" /\ pc'[o][2] = "bus"
    BY <2>3
  <2>5. Phase(o)'
    BY <1>3, <2>3, <2>4 DEF Phase, Early
  <2>6. OpenInv'
    BY <1>1, <1>3, <1>4, <2>2, <2>3 DEF OpenInv, Neither
  <2>7. QED
    BY <1>1, <1>2, <2>3, <2>5, <2>6, CallGoesOn
<1>9. QED
  BY <1>5, <1>6, <1>7, <1>8 DEF Start

LEMMA StopKeepsAlone ==
  ASSUME LifeInv, NEW o \in Callers, Stop(o), ~tangled'
  PROVE  AloneInv'
<1> USE DEF LifeInv, TypeInv, MessagingTypeOK, NatsTypeOK
<1>1. /\ pc[o][1] \in {"each", "closing"}
      /\ UNCHANGED <<call, tangled, strays, listed, link, closing, started>>
  BY DEF Stop, CloseNext, OneClosed, EachClosed, Keeps, natsVars, linkVars, handleVars, history
<1>2. call[o] # "none" /\ ~tangled
  BY <1>1, AtStep
<1>3. Phase(o) /\ OpenInv /\ Early(o)
  BY <1>1, <1>2, TheOnlyCall DEF Early
<1>4. /\ GoTo(o, "closing", pc[o][2]) \/ GoTo(o, "each", pc[o][2])
         \/ GoTo(o, "each", "bus") \/ GoTo(o, "close", "queue")
      /\ \A h \in Handles : at'[h] = "open" => at[h] = "open"
  BY DEF Stop, CloseNext, OneClosed, EachClosed, BeginClose, natsVars, handleVars
<1>5. pc'[o][1] \in {"each", "closing"} \/ (pc'[o][1] = "close" /\ pc'[o][2] = "queue")
  BY <1>4 DEF GoTo
<1>6. Early(o)'
  BY <1>5 DEF Early
<1>7. Phase(o)'
  BY <1>1, <1>3, <1>5 DEF Phase, Neither
<1>8. OpenInv'
  BY <1>1, <1>3, <1>4, <1>6 DEF OpenInv, Handles
<1>9. QED
  BY <1>1, <1>2, <1>7, <1>8, CallGoesOn

LEMMA ShutdownKeepsAlone ==
  ASSUME LifeInv, NEW o \in Callers, NEW t \in Transports, Shutdown(o, t), ~tangled'
  PROVE  AloneInv'
<1> USE DEF LifeInv, TypeInv, MessagingTypeOK, NatsTypeOK
<1>1. /\ pc[o] \in {<<"close", t>>, <<"await", t>>, <<"drop", t>>}
      /\ UNCHANGED <<tangled, strays, started>>
  BY DEF Shutdown, CloseSkipped, CloseTransport, HandlesClosed, HandlesLate, TransportClosed,
         After, Keeps, history
<1>2. pc[o][1] \in {"close", "await", "drop"} /\ pc[o][2] = t
  BY <1>1
<1>3. call[o] # "none" /\ ~tangled
  BY <1>1, <1>2, AtStep
<1>4. /\ Phase(o) /\ OpenInv /\ ~started
      /\ Early(o) <=> \E p \in Callers : Early(p)
  BY <1>3, TheOnlyCall DEF Phase
<1>5. t = "queue" \/ t = "bus"
  BY DEF Transports
<1>6. ~CloseSkipped(o, t)
  <2>1. SUFFICES ASSUME CloseSkipped(o, t) PROVE FALSE
    OBVIOUS
  <2>2. pc[o][1] = "close" /\ closing[t]
    BY <2>1 DEF CloseSkipped
  <2>3. Neither
    BY <1>2, <1>4, <1>5, <2>2 DEF Phase, Early
  <2>4. QED
    BY <1>5, <2>2, <2>3 DEF Neither
<1>7. CASE CloseTransport(o, t)
  <2>1. pc[o][1] = "close"
    BY <1>7 DEF CloseTransport
  <2>2. pc'[o] = <<"await", t>>
    BY <1>7 DEF CloseTransport, GoTo
  <2>3. pc'[o][1] = "await" /\ pc'[o][2] = t
    BY <2>2
  <2>4. /\ \A h \in Handles : at'[h] = "open" => at[h] = "open" /\ h \notin listed \cap HandlesOf(t)
        /\ UNCHANGED <<listed, call>> /\ closing' = [closing EXCEPT ![t] = TRUE]
        /\ t = "bus" => UNCHANGED link
        /\ link'["bus"] = link["bus"]
    BY <1>7 DEF CloseTransport, BeginShutdown, BeginClose, Keeps, Transports
  <2>5. CASE t = "queue"
    <3>1. Neither
      BY <1>2, <1>4, <2>1, <2>5 DEF Phase, Early
    <3>2. closing'["queue"] /\ closing'["bus"] = closing["bus"]
      BY <2>4, <2>5 DEF Transports
    <3>3. Phase(o)'
      BY <1>1, <1>4, <2>3, <2>5, <3>1, <3>2 DEF Phase, Early, Neither
    <3>4. \A w \in Workers : at'[w] = "open" => w \in strays'
      BY <1>1, <1>4, <2>4, <2>5 DEF OpenInv, Handles, HandlesOf
    <3>5. OpenInv'
      BY <1>1, <1>4, <2>4, <3>2, <3>4 DEF OpenInv, Handles
    <3>6. QED
      BY <1>1, <1>3, <2>4, <3>3, <3>5, CallGoesOn
  <2>6. CASE t = "bus"
    <3>1. Neither /\ link["queue"] = "down" /\ ~Early(o)
      BY <1>2, <1>4, <2>1, <2>6 DEF Phase, Early
    <3>2. closing'["bus"] /\ closing'["queue"] = closing["queue"] /\ link' = link
      BY <2>4, <2>6 DEF Transports
    <3>3. Phase(o)'
      BY <1>1, <1>4, <2>3, <2>6, <3>1, <3>2 DEF Phase, Early, Neither
    <3>4. \A s \in Subs : at'[s] # "open"
      BY <1>4, <2>4, <2>6, NatsTransportsAssumption DEF OpenInv, Handles, HandlesOf
    <3>5. \A w \in Workers : at[w] = "open" => w \in strays
      BY <1>4, <3>1 DEF OpenInv
    <3>6. OpenInv'
      BY <1>1, <1>4, <2>4, <3>4, <3>5 DEF OpenInv, Handles
    <3>7. QED
      BY <1>1, <1>3, <2>4, <3>3, <3>6, CallGoesOn
  <2>7. QED
    BY <1>5, <2>5, <2>6
<1>8. CASE HandlesClosed(o, t) \/ HandlesLate(o, t)
  <2>1. pc[o][1] = "await"
    BY <1>8 DEF HandlesClosed, HandlesLate
  <2>2. pc'[o] = <<"drop", t>>
    BY <1>8 DEF HandlesClosed, HandlesLate, GoTo
  <2>3. pc'[o][1] = "drop" /\ pc'[o][2] = t
    BY <2>2
  <2>4. UNCHANGED <<call, link, closing, at>> /\ listed \ HandlesOf(t) \subseteq listed'
    BY <1>8 DEF HandlesClosed, HandlesLate, Unlist, GiveUp, Keeps, linkVars
  <2>5. Phase(o)'
    BY <1>1, <1>2, <1>4, <1>5, <2>1, <2>3, <2>4 DEF Phase, Early, Neither
  <2>6. \A w \in Workers : at[w] = "open" => w \in strays
    BY <1>4, <2>1 DEF OpenInv, Early
  <2>7. t = "bus" => \A s \in Subs : at[s] # "open"
    BY <1>2, <1>4, <2>1 DEF OpenInv, Phase
  <2>8. OpenInv'
    BY <1>1, <1>4, <1>5, <2>4, <2>6, <2>7, NatsTransportsAssumption DEF OpenInv, Handles, HandlesOf
  <2>9. QED
    BY <1>1, <1>3, <2>4, <2>5, <2>8, CallGoesOn
<1>9. CASE TransportClosed(o, t)
  <2>1. /\ pc[o][1] = "drop" /\ After(o, t)
        /\ UNCHANGED <<listed, at>>
        /\ link' = [link EXCEPT ![t] = "down"] /\ closing' = [closing EXCEPT ![t] = FALSE]
    BY <1>9 DEF TransportClosed, Disconnect, handleVars
  <2>2. \A w \in Workers : at[w] = "open" => w \in strays
    BY <1>4, <2>1 DEF OpenInv, Early
  <2>3. CASE t = "queue"
    <3>1. closing["queue"] /\ ~closing["bus"]
      BY <1>2, <1>4, <2>1, <2>3 DEF Phase
    <3>2. Neither' /\ link'["queue"] = "down" /\ link'["bus"] = link["bus"]
          /\ closing'["bus"] = closing["bus"]
      BY <2>1, <2>3, <3>1 DEF Neither, Transports
    <3>3. pc'[o] = <<"close", "bus">> /\ UNCHANGED call
      BY <2>1, <2>3 DEF After, GoTo
    <3>4. pc'[o][1] = "close" /\ pc'[o][2] = "bus"
      BY <3>3
    <3>5. Phase(o)'
      BY <1>1, <1>4, <3>2, <3>4 DEF Phase, Early
    <3>6. OpenInv'
      BY <1>1, <1>4, <2>1, <2>2, <3>2 DEF OpenInv
    <3>7. QED
      BY <1>1, <1>3, <3>3, <3>5, <3>6, CallGoesOn
  <2>4. CASE t = "bus"
    <3>1. closing["bus"] /\ ~closing["queue"] /\ link["queue"] = "down"
      BY <1>2, <1>4, <2>1, <2>4 DEF Phase
    <3>2. Neither' /\ link'["bus"] = "down" /\ link'["queue"] = "down"
      BY <2>1, <2>4, <3>1 DEF Neither, Transports
    <3>3. Return(o)
      BY <2>1, <2>4 DEF After
    <3>4. OpenInv'
      BY <1>1, <1>4, <2>1, <2>2, <3>1 DEF OpenInv
    <3>5. Resting'
      BY <1>1, <1>4, <3>2 DEF Resting
    <3>6. QED
      BY <1>3, <3>3, <3>4, <3>5, CallEnds
  <2>5. QED
    BY <1>5, <2>3, <2>4
<1>10. QED
  BY <1>6, <1>7, <1>8, <1>9 DEF Shutdown

LEMMA AloneKept ==
  ASSUME LifeInv, [MessagingNext]_messagingVars
  PROVE  AloneInv'
<1> SUFFICES ASSUME ~tangled' PROVE AloneInv'
  BY DEF AloneInv
<1>1. CASE UNCHANGED messagingVars
  <2>1. UNCHANGED <<call, pc, link, closing, started, tangled, listed, at, strays>>
    BY <1>1 DEF messagingVars, natsVars, linkVars, handleVars, callVars, history
  <2>2. OpenInv'
    BY <2>1 DEF LifeInv, AloneInv, OpenInv, Early
  <2>3. QED
    BY <2>1, <2>2, NoCallMoves
<1>2. CASE Handle /\ Outside
  BY <1>2, HandlersKeepAlone DEF Outside, history
<1>3. ASSUME NEW h \in Handles,
             \/ h \in Subs /\ Subscribe(h)
             \/ h \in Workers /\ (WorkerBegins(h) \/ WorkerStarts(h) \/ WorkerThrows(h))
      PROVE  AloneInv'
  <2>1. UNCHANGED tangled
    BY <1>3 DEF Subscribe, WorkerBegins, WorkerStarts, WorkerThrows, history
  <2>2. QED
    BY <1>3, <2>1, HandlesKeepAlone
<1>4. QED
  BY <1>1, <1>2, <1>3, StartBeginsAlone, StopBeginsAlone, StartKeepsAlone, StopKeepsAlone,
     ShutdownKeepsAlone
  DEF MessagingNext, Call, Handles

\* A stop counts as clean from its end, when it was the only call, to the next call.
LEMMA CleanKept ==
  ASSUME LifeInv, [MessagingNext]_messagingVars
  PROVE  CleanInv'
<1> USE DEF LifeInv, TypeInv, MessagingTypeOK
<1>1. ASSUME NEW o \in Callers, StartBegins(o) \/ StopBegins(o) PROVE CleanInv'
  BY <1>1 DEF StartBegins, StopBegins, Begin, CleanInv
<1>2. ASSUME NEW o \in Callers, call[o] # "none" PROVE ~clean
  BY <1>2 DEF CleanInv, Calm
<1>3. ASSUME NEW o \in Callers, Start(o) \/ Stop(o) PROVE CleanInv'
  <2>1. pc[o][1] \in {"connect", "each", "closing"}
    <3>1. CASE Start(o)
      BY <3>1 DEF Start, BusConnected, BusConnectThrows, QueueConnected, QueueConnectThrows
    <3>2. CASE Stop(o)
      BY <3>2 DEF Stop, CloseNext, OneClosed, EachClosed
    <3>3. QED
      BY <1>3, <3>1, <3>2
  <2>2. UNCHANGED clean
    BY <1>3 DEF Start, BusConnected, BusConnectThrows, QueueConnected, QueueConnectThrows,
                Stop, CloseNext, OneClosed, EachClosed, Keeps, history
  <2>3. QED
    BY <1>2, <2>1, <2>2, AtStep DEF CleanInv
<1>4. ASSUME NEW o \in Callers, NEW t \in Transports, Shutdown(o, t) PROVE CleanInv'
  <2>1. pc[o] \in {<<"close", t>>, <<"await", t>>, <<"drop", t>>}
    BY <1>4 DEF Shutdown, CloseSkipped, CloseTransport, HandlesClosed, HandlesLate, TransportClosed
  <2>2. pc[o][1] # "idle"
    BY <2>1
  <2>3. ~clean /\ call[o] # "none"
    BY <1>2, <2>2, AtStep
  <2>4. \/ UNCHANGED clean
        \/ /\ t = "bus" /\ Return(o) /\ UNCHANGED <<started, tangled>>
           /\ clean' = (clean \/ (call[o] = "stop" /\ o \notin failed' /\ ~tangled))
    BY <1>4 DEF Shutdown, CloseSkipped, CloseTransport, HandlesClosed, HandlesLate,
                TransportClosed, After, Keeps, history, Transports
  <2>5. SUFFICES ASSUME clean' PROVE ~tangled' /\ ~started' /\ Calm'
    BY DEF CleanInv
  <2>6. Return(o) /\ ~tangled /\ UNCHANGED <<started, tangled>>
    BY <2>3, <2>4, <2>5
  <2>7. ~started /\ \A p \in Callers : p # o => call[p] = "none"
    BY <2>3, <2>6, TheOnlyCall DEF Phase
  <2>8. QED
    BY <2>6, <2>7, CallReturned DEF Calm
<1>5. ASSUME NEW h \in Handles,
             \/ h \in Subs /\ Subscribe(h)
             \/ h \in Workers /\ (WorkerBegins(h) \/ WorkerStarts(h) \/ WorkerThrows(h))
      PROVE  CleanInv'
  BY <1>5 DEF Subscribe, WorkerBegins, WorkerStarts, WorkerThrows, callVars, history, CleanInv, Calm
<1>6. CASE Handle /\ Outside
  BY <1>6 DEF Outside, callVars, history, CleanInv, Calm
<1>7. CASE UNCHANGED messagingVars
  BY <1>7 DEF messagingVars, callVars, history, CleanInv, Calm
<1>8. QED
  BY <1>1, <1>3, <1>4, <1>5, <1>6, <1>7 DEF MessagingNext, Call, Handles

LEMMA LifeInit == MessagingInit => WaitInv /\ AloneInv /\ CleanInv
<1> SUFFICES ASSUME MessagingInit PROVE WaitInv /\ AloneInv /\ CleanInv
  OBVIOUS
<1>1. \A h \in Handles : at[h] = "unused"
  BY DEF MessagingInit, NatsInit
<1>2. /\ \A o \in Callers : wait[o] = {} /\ call[o] = "none"
      /\ ~started /\ ~clean
      /\ link["bus"] = "down" /\ link["queue"] = "down" /\ Neither
  BY DEF MessagingInit, NatsInit, Neither, Transports
<1>3. QED
  BY <1>1, <1>2 DEF WaitInv, AloneInv, CleanInv, Resting, OpenInv, Handles

\* Between calls that did not overlap, both transports are connected exactly when messaging
\* is started; and after a stop that returned nothing is open and no handler runs, but for
\* what an earlier stop had given up waiting for and workers whose creation was under way
\* (ServerpodMessaging.start and stop, close of NatsMessageBus and NatsJetStreamJobQueue).
THEOREM LifecycleIsReported == MessagingSpec => []LifecycleHolds
<1>1. MessagingInit => LifeInv
  BY LifeInit, TypesInit DEF LifeInv
<1>2. LifeInv /\ [MessagingNext]_messagingVars => LifeInv'
  BY TypesKept, WaitKept, AloneKept, CleanKept DEF LifeInv
<1>3. LifeInv => LifecycleHolds
  <2> SUFFICES ASSUME LifeInv PROVE LifecycleHolds
    OBVIOUS
  <2>1. ConnectedIffStarted
    BY DEF ConnectedIffStarted, LifeInv, AloneInv, Calm, Resting, Transports
  <2>2. ASSUME clean
        PROVE  /\ \A t \in Transports : link[t] = "down" /\ ~closing[t]
               /\ \A h \in Handles \ (gaveUp \cup strays) :
                    at[h] \in {"unused", "creating", "closed"} /\ active[h] = 0
    <3>1. ~tangled /\ ~started /\ Calm /\ Resting /\ OpenInv
      BY <2>2 DEF LifeInv, CleanInv, AloneInv
    <3>2. Idle[1] = "idle"
      BY DEF Idle
    <3>3. \A o \in Callers : pc[o][1] = "idle"
      BY <3>1, <3>2 DEF LifeInv, TypeInv, MessagingTypeOK, Calm
    <3>4. \A o \in Callers : wait[o] = {} /\ ~Early(o)
      BY <3>3 DEF LifeInv, WaitInv, Early
    <3>5. ASSUME NEW h \in Handles \ (gaveUp \cup strays)
          PROVE  at[h] \in {"unused", "creating", "closed"} /\ active[h] = 0
      <4>1. at[h] # "closing"
        BY <3>4, <3>5 DEF LifeInv, WaitInv
      <4>2. at[h] # "open"
        BY <3>1, <3>4, <3>5 DEF OpenInv, Resting, Handles
      <4>3. at[h] \in {"unused", "creating", "closed"}
        BY <4>1, <4>2 DEF LifeInv, TypeInv, MessagingTypeOK, NatsTypeOK
      <4>4. QED
        BY <3>5, <4>3 DEF LifeInv, TypeInv, ActiveInv
    <3>6. QED
      BY <3>1, <3>5 DEF Resting, Neither, Transports
  <2>3. QED
    BY <2>1, <2>2 DEF LifecycleHolds, StoppedIsQuiet
<1>4. QED
  BY <1>1, <1>2, <1>3, PTL DEF MessagingSpec

--------------------------------------------------------------------------------
(* The dialogs of the website. *)

\* What an event keeps of the two dialogs: that each says whether it is shown.  Which
\* results they list does not matter here.
DialogShape ==
  /\ dialogClass \in BOOLEAN
  /\ DOMAIN dialog = Mounts
  /\ \A m \in Mounts : /\ {"open", "query", "selected"} \subseteq DOMAIN dialog[m]
                       /\ dialog[m].open \in BOOLEAN

LockInv == DialogShape /\ ScrollLockNeedsDialog

LEMMA InitLock == Init => LockInv
<1> SUFFICES ASSUME Init PROVE LockInv
  OBVIOUS
<1>1. dialog = [m \in Mounts |-> Fresh] /\ dialogClass = FALSE
  BY DEF Init
<1>2. /\ {"open", "query", "selected"} \subseteq DOMAIN Fresh
      /\ Fresh.open = FALSE
  BY DEF Fresh
<1>3. QED
  BY <1>1, <1>2 DEF LockInv, DialogShape, ScrollLockNeedsDialog

\* Moving the highlighted result shows and hides nothing.
LEMMA SelectKeepsLock ==
  ASSUME LockInv, NEW m \in Mounts, NEW index, Select(m, index)
  PROVE  LockInv'
BY DEF LockInv, DialogShape, ScrollLockNeedsDialog, Select, IsOpen, Mounts

\* Leaving a page takes the lock with the dialog of the menu, and leaves it to the
\* dialog of the header.
LEMMA NavigateKeepsLock ==
  ASSUME LockInv, NEW target, NEW shown, NEW locked \in BOOLEAN,
         DOMAIN shown = Mounts,
         \A m \in Mounts : /\ {"open", "query", "selected"} \subseteq DOMAIN shown[m]
                           /\ shown[m].open \in BOOLEAN,
         locked => \E m \in Mounts : shown[m].open,
         Navigate(target, shown, locked)
  PROVE  LockInv'
<1> DEFINE unmount == menuOpen /\ PageAt(target) # pathname
<1>1. CASE unmount
  <2>1. /\ dialog' = [shown EXCEPT !["menu"] = Fresh]
        /\ dialogClass' = (locked /\ ~shown["menu"].open)
    BY <1>1 DEF Navigate
  <2>2. QED
    BY <2>1 DEF LockInv, DialogShape, ScrollLockNeedsDialog, IsOpen, Mounts, Fresh
<1>2. CASE ~unmount
  <2>1. dialog' = shown /\ dialogClass' = locked
    BY <1>2 DEF Navigate
  <2>2. QED
    BY <2>1 DEF LockInv, DialogShape, ScrollLockNeedsDialog, IsOpen, Mounts
<1>3. QED
  BY <1>1, <1>2

\* However the dialogs of the header and of the menu are opened, closed, toggled
\* together or unmounted, neither leaves the page locked behind it
\* (search-dialog.tsx, the effect on open; site-header.tsx, the effect on pathname).
THEOREM ScrollLockIsReleased == Spec => []ScrollLockNeedsDialog
<1>1. LockInv /\ [Next]_vars => LockInv'
  <2> SUFFICES ASSUME LockInv, [Next]_vars PROVE LockInv'
    OBVIOUS
  <2> USE DEF LockInv, DialogShape, ScrollLockNeedsDialog, IsOpen
  <2>1. ASSUME NEW m \in Mounts, OpenDialog(m) PROVE LockInv'
    BY <2>1 DEF OpenDialog, SetOpen, RestartSelection
  <2>2. ASSUME NEW m \in Mounts, Close(m) PROVE LockInv'
    BY <2>2 DEF Close, Unlock, Fresh
  <2>3. ASSUME NEW m \in Mounts, NEW q \in Queries, Type(m, q) PROVE LockInv'
    BY <2>3 DEF Type, RestartSelection
  <2>4. ASSUME NEW m \in Mounts, NEW step, Arrow(m, step) PROVE LockInv'
    BY <2>4, SelectKeepsLock DEF Arrow
  <2>5. ASSUME NEW m \in Mounts, NEW index \in 0..11, PointAt(m, index) PROVE LockInv'
    BY <2>5, SelectKeepsLock DEF PointAt
  <2>6. ASSUME NEW m \in Mounts, NEW index, OpenResult(m, index) PROVE LockInv'
    <3>1. Navigate(results(m)[index + 1], [dialog EXCEPT ![m] = Fresh], FALSE)
      BY <2>6 DEF OpenResult
    <3>2. /\ DOMAIN [dialog EXCEPT ![m] = Fresh] = Mounts
          /\ \A n \in Mounts :
               /\ {"open", "query", "selected"} \subseteq DOMAIN [dialog EXCEPT ![m] = Fresh][n]
               /\ [dialog EXCEPT ![m] = Fresh][n].open \in BOOLEAN
      BY DEF Fresh
    <3>3. QED
      BY <3>1, <3>2, NavigateKeepsLock
  <2>7. ASSUME SearchKey PROVE LockInv'
    <3>1. /\ DOMAIN dialog' = Mounts
          /\ \A m \in Mounts : /\ {"open", "query", "selected"} \subseteq DOMAIN dialog'[m]
                               /\ dialog'[m].open \in BOOLEAN
      BY <2>7 DEF SearchKey, SetOpen, RestartSelection
    <3>2. QED
      BY <2>7, <3>1 DEF SearchKey
  <2>8. ASSUME EscapeKey PROVE LockInv'
    BY <2>8 DEF EscapeKey, SetOpen, RestartSelection
  <2>9. ASSUME FollowLink PROVE LockInv'
    BY <2>9, NavigateKeepsLock DEF FollowLink
  <2>10. ASSUME ToggleMenu PROVE LockInv'
    BY <2>10 DEF ToggleMenu, Unlock, Fresh, Mounts
  <2>11. CASE UNCHANGED vars
    BY <2>11 DEF vars
  <2>12. QED
    BY <2>1, <2>2, <2>3, <2>4, <2>5, <2>6, <2>7, <2>8, <2>9, <2>10, <2>11
    DEF Next, ArrowDown, ArrowUp, EnterKey, ClickResult
<1>2. LockInv => ScrollLockNeedsDialog
  BY DEF LockInv
<1>3. QED
  BY InitLock, <1>1, <1>2, PTL DEF Spec

--------------------------------------------------------------------------------
(* The documentation website: sort(). *)

\* Of a finite set of catalogue indexes, sort() lists every member once, and a member
\* that precedes another one before it, whatever the weights.
LEMMA SortedLists ==
  ASSUME NEW S \in SUBSET Int, IsFiniteSet(S), NEW weight \in [S -> Int]
  PROVE  /\ Cardinality(S) \in Nat
         /\ Sorted(S, weight) \in Bijection(1..Cardinality(S), S)
         /\ \A k, l \in 1..Cardinality(S) :
              Precedes(Sorted(S, weight)[k], Sorted(S, weight)[l], weight) => k < l
<1> DEFINE below(i) == {j \in S : Precedes(j, i, weight)}
           rank == [i \in S |-> Cardinality(below(i))]
           n == Cardinality(S)
           place(k) == CHOOSE i \in S : rank[i] = k - 1
<1>1. n \in Nat
  BY FS_CardinalityType
<1>2. ASSUME NEW i \in S
      PROVE  /\ IsFiniteSet(below(i)) /\ rank[i] \in 0..(n - 1)
  <2>1. below(i) \subseteq S \ {i}
    BY DEF Precedes
  <2>2. IsFiniteSet(S \ {i}) /\ Cardinality(S \ {i}) = n - 1
    BY <1>1, FS_RemoveElement
  <2> HIDE DEF below, n
  <2>3. IsFiniteSet(below(i)) /\ Cardinality(below(i)) <= n - 1
    BY <2>1, <2>2, FS_Subset
  <2>4. Cardinality(below(i)) \in Nat
    BY <2>3, FS_CardinalityType
  <2>5. QED
    BY <1>1, <2>3, <2>4
<1>3. ASSUME NEW i \in S, NEW j \in S, Precedes(i, j, weight)
      PROVE  rank[i] < rank[j]
  <2>1. below(i) \subseteq below(j)
    <3>1. ASSUME NEW x \in S, Precedes(x, i, weight) PROVE Precedes(x, j, weight)
      <4>1. /\ x \in Int /\ i \in Int /\ j \in Int
            /\ weight[x] \in Int /\ weight[i] \in Int /\ weight[j] \in Int
        OBVIOUS
      <4>2. QED
        BY <1>3, <3>1, <4>1 DEF Precedes
    <3>2. QED
      BY <3>1
  <2>2. i \in below(j) /\ i \notin below(i)
    BY <1>3 DEF Precedes
  <2> HIDE DEF below
  <2>3. /\ Cardinality(below(i)) <= Cardinality(below(j))
        /\ Cardinality(below(i)) # Cardinality(below(j))
    BY <1>2, <2>1, <2>2, FS_Subset
  <2>4. Cardinality(below(i)) \in Nat /\ Cardinality(below(j)) \in Nat
    BY <1>2, FS_CardinalityType
  <2>5. QED
    BY <2>3, <2>4
<1>4. \A i, j \in S : i = j \/ Precedes(i, j, weight) \/ Precedes(j, i, weight)
  BY DEF Precedes
<1>5. ASSUME NEW i \in S PROVE rank[i] \in Int
  <2>1. rank[i] \in 0..(n - 1)
    BY <1>2
  <2> HIDE DEF rank, n
  <2>2. QED
    BY <1>1, <2>1
<1> HIDE DEF rank
<1>6. \A i, j \in S : rank[i] = rank[j] => i = j
  BY <1>3, <1>4, <1>5
<1>7. rank \in [S -> 0..(n - 1)]
  BY <1>2 DEF rank
<1>8. rank \in Surjection(S, 0..(n - 1))
  <2>1. IsFiniteSet(0..(n - 1)) /\ Cardinality(0..(n - 1)) = n
    <3>1. /\ IsFiniteSet(0..(n - 1))
          /\ Cardinality(0..(n - 1)) = IF 0 > n - 1 THEN 0 ELSE (n - 1) - 0 + 1
      BY <1>1, FS_Interval
    <3>2. QED
      BY <1>1, <3>1
  <2>2. rank \in Injection(S, 0..(n - 1))
    BY <1>6, <1>7, Fun_IsInj
  <2>3. QED
    BY <2>1, <2>2, FS_Injection DEF n
<1>9. ASSUME NEW k \in 1..n PROVE place(k) \in S /\ rank[place(k)] = k - 1
  <2>1. k - 1 \in 0..(n - 1)
    BY <1>1
  <2>2. \E i \in S : rank[i] = k - 1
    BY <1>8, <2>1 DEF Surjection
  <2>3. QED
    BY <2>2
<1>10. ASSUME NEW k \in 1..n PROVE Sorted(S, weight)[k] = place(k)
  BY <1>2 DEF Sorted, rank
<1>11. Sorted(S, weight) \in [1..n -> S]
  <2>1. Sorted(S, weight) = [k \in 1..n |-> Sorted(S, weight)[k]]
    BY DEF Sorted
  <2>2. \A k \in 1..n : Sorted(S, weight)[k] \in S
    BY <1>9, <1>10
  <2>3. QED
    BY <2>1, <2>2
<1> HIDE DEF place, n
<1>12. \A k, l \in 1..n : Sorted(S, weight)[k] = Sorted(S, weight)[l] => k = l
  BY <1>1, <1>9, <1>10
<1>13. ASSUME NEW i \in S PROVE \E k \in 1..n : Sorted(S, weight)[k] = i
  <2>1. rank[i] + 1 \in 1..n /\ rank[i] \in 0..(n - 1)
    BY <1>1, <1>7
  <2>2. place(rank[i] + 1) \in S /\ rank[place(rank[i] + 1)] = rank[i]
    BY <1>9, <2>1
  <2>3. place(rank[i] + 1) = i
    BY <1>6, <2>2
  <2>4. QED
    BY <1>10, <2>1, <2>3
<1>14. ASSUME NEW k \in 1..n, NEW l \in 1..n,
              Precedes(Sorted(S, weight)[k], Sorted(S, weight)[l], weight)
       PROVE  k < l
  <2>1. place(k) \in S /\ place(l) \in S /\ Precedes(place(k), place(l), weight)
    BY <1>9, <1>10, <1>14
  <2>2. rank[place(k)] < rank[place(l)]
    BY <1>3, <2>1
  <2>3. QED
    BY <1>1, <1>9, <2>2
<1>15. Sorted(S, weight) \in Bijection(1..n, S)
  BY <1>11, <1>12, <1>13, Fun_IsBij
<1>16. QED
  BY <1>1, <1>14, <1>15 DEF n

--------------------------------------------------------------------------------
(* The catalogue. *)

\* SMT takes no name with a space in it: the proofs below speak of categoryOrder[c].
LEMMA CategoryNames ==
  /\ DOMAIN categoryOrder = 1..7
  /\ categoryOrder[1] = "Getting started" /\ categoryOrder[2] = "Core concepts"
  /\ categoryOrder[3] = "Reliability" /\ categoryOrder[4] = "Transports"
  /\ categoryOrder[5] = "Integrations" /\ categoryOrder[6] = "Operations"
  /\ categoryOrder[7] = "Reference"
<1>1. DOMAIN categoryOrder = 1..7
  <2> DEFINE a == "Getting started"
             b == "Core concepts"
  <2>1. categoryOrder =
          <<a, b, "Reliability", "Transports", "Integrations", "Operations", "Reference">>
    BY Zenon DEF categoryOrder
  <2> HIDE DEF a, b
  <2>2. QED
    BY <2>1
<1>2. categoryOrder[1] = "Getting started"
  BY Zenon DEF categoryOrder
<1>3. categoryOrder[2] = "Core concepts"
  BY Zenon DEF categoryOrder
<1>4. categoryOrder[3] = "Reliability"
  BY Zenon DEF categoryOrder
<1>5. categoryOrder[4] = "Transports"
  BY Zenon DEF categoryOrder
<1>6. categoryOrder[5] = "Integrations"
  BY Zenon DEF categoryOrder
<1>7. categoryOrder[6] = "Operations"
  BY Zenon DEF categoryOrder
<1>8. categoryOrder[7] = "Reference"
  BY Zenon DEF categoryOrder
<1>9. QED
  BY <1>1, <1>2, <1>3, <1>4, <1>5, <1>6, <1>7, <1>8, Zenon

LEMMA CategoriesDiffer ==
  \A c, d \in 1..7 : categoryOrder[c] = categoryOrder[d] => c = d
<1> DEFINE a == categoryOrder[1]
           b == categoryOrder[2]
           Others == {"Reliability", "Transports", "Integrations", "Operations",
                      "Reference"}
<1>1. a # b /\ a \notin Others /\ b \notin Others
  BY CategoryNames, Zenon
<1>2. /\ categoryOrder[3] = "Reliability" /\ categoryOrder[4] = "Transports"
      /\ categoryOrder[5] = "Integrations" /\ categoryOrder[6] = "Operations"
      /\ categoryOrder[7] = "Reference"
  BY CategoryNames, Zenon
<1>3. QED
  BY <1>1, <1>2

\* A content file: the pages of one category, numbered from 1 in the order of the file.
IsFile(s, c, slugs) ==
  /\ s \in Seq({s[i] : i \in DOMAIN s})
  /\ Len(s) = Len(slugs) /\ DOMAIN s = DOMAIN slugs
  /\ \A i \in DOMAIN slugs :
       s[i].slug = slugs[i] /\ s[i].category = categoryOrder[c] /\ s[i].order = i

LEMMA GettingStartedFile ==
  IsFile(GettingStartedDocs, 1,
    <<"introduction", "installation", "quick-start", "configuration">>)
<1> DEFINE slugs == <<"introduction", "installation", "quick-start", "configuration">>
           P == {GettingStartedDocs[i] : i \in DOMAIN GettingStartedDocs}
<1>1. /\ DOMAIN GettingStartedDocs = 1..4 /\ Len(GettingStartedDocs) = 4
      /\ GettingStartedDocs[1] = IntroductionPage
      /\ GettingStartedDocs[2] = InstallationPage
      /\ GettingStartedDocs[3] = QuickStartPage
      /\ GettingStartedDocs[4] = ConfigurationPage
  BY DEF GettingStartedDocs
<1>2. GettingStartedDocs \in Seq(P)
  <2>1. /\ IntroductionPage \in P /\ InstallationPage \in P
        /\ QuickStartPage \in P /\ ConfigurationPage \in P
    BY <1>1
  <2> HIDE DEF P
  <2>2. QED
    BY <2>1 DEF GettingStartedDocs
<1>3. /\ IntroductionPage.slug = "introduction"
      /\ IntroductionPage.category = categoryOrder[1] /\ IntroductionPage.order = 1
  BY CategoryNames, Zenon DEF IntroductionPage, Page
<1>4. /\ InstallationPage.slug = "installation"
      /\ InstallationPage.category = categoryOrder[1] /\ InstallationPage.order = 2
  BY CategoryNames, Zenon DEF InstallationPage, Page
<1>5. /\ QuickStartPage.slug = "quick-start"
      /\ QuickStartPage.category = categoryOrder[1] /\ QuickStartPage.order = 3
  BY CategoryNames, Zenon DEF QuickStartPage, Page
<1>6. /\ ConfigurationPage.slug = "configuration"
      /\ ConfigurationPage.category = categoryOrder[1] /\ ConfigurationPage.order = 4
  BY CategoryNames, Zenon DEF ConfigurationPage, Page
<1>7. DOMAIN slugs = 1..4 /\ Len(slugs) = 4
  OBVIOUS
<1>8. \A i \in 1..4 :
          /\ GettingStartedDocs[i].slug = slugs[i]
          /\ GettingStartedDocs[i].category = categoryOrder[1]
          /\ GettingStartedDocs[i].order = i
  BY <1>1, <1>3, <1>4, <1>5, <1>6
<1> HIDE DEF slugs
<1>9. QED
  BY <1>1, <1>2, <1>7, <1>8 DEF IsFile, slugs

LEMMA CoreConceptFile ==
  IsFile(CoreConceptDocs, 2,
    <<"message-bus", "durable-jobs", "capabilities", "headers-and-context",
      "typed-codecs", "retries-and-failures", "dead-letters">>)
<1> DEFINE slugs == <<"message-bus", "durable-jobs", "capabilities",
                      "headers-and-context", "typed-codecs",
                      "retries-and-failures", "dead-letters">>
           P == {CoreConceptDocs[i] : i \in DOMAIN CoreConceptDocs}
<1>1. /\ DOMAIN CoreConceptDocs = 1..7 /\ Len(CoreConceptDocs) = 7
      /\ CoreConceptDocs[1] = MessageBusPage
      /\ CoreConceptDocs[2] = DurableJobsPage
      /\ CoreConceptDocs[3] = CapabilitiesPage
      /\ CoreConceptDocs[4] = HeadersAndContextPage
      /\ CoreConceptDocs[5] = TypedCodecsPage
      /\ CoreConceptDocs[6] = RetriesAndFailuresPage
      /\ CoreConceptDocs[7] = DeadLettersPage
  BY DEF CoreConceptDocs
<1>2. CoreConceptDocs \in Seq(P)
  <2>1. /\ MessageBusPage \in P /\ DurableJobsPage \in P
        /\ CapabilitiesPage \in P /\ HeadersAndContextPage \in P
        /\ TypedCodecsPage \in P /\ RetriesAndFailuresPage \in P
        /\ DeadLettersPage \in P
    BY <1>1
  <2> HIDE DEF P
  <2>2. QED
    BY <2>1 DEF CoreConceptDocs
<1>3. /\ MessageBusPage.slug = "message-bus"
      /\ MessageBusPage.category = categoryOrder[2] /\ MessageBusPage.order = 1
  BY CategoryNames, Zenon DEF MessageBusPage, Page
<1>4. /\ DurableJobsPage.slug = "durable-jobs"
      /\ DurableJobsPage.category = categoryOrder[2] /\ DurableJobsPage.order = 2
  BY CategoryNames, Zenon DEF DurableJobsPage, Page
<1>5. /\ CapabilitiesPage.slug = "capabilities"
      /\ CapabilitiesPage.category = categoryOrder[2] /\ CapabilitiesPage.order = 3
  BY CategoryNames, Zenon DEF CapabilitiesPage, Page
<1>6. /\ HeadersAndContextPage.slug = "headers-and-context"
      /\ HeadersAndContextPage.category = categoryOrder[2]
      /\ HeadersAndContextPage.order = 4
  BY CategoryNames, Zenon DEF HeadersAndContextPage, Page
<1>7. /\ TypedCodecsPage.slug = "typed-codecs"
      /\ TypedCodecsPage.category = categoryOrder[2] /\ TypedCodecsPage.order = 5
  BY CategoryNames, Zenon DEF TypedCodecsPage, Page
<1>8. /\ RetriesAndFailuresPage.slug = "retries-and-failures"
      /\ RetriesAndFailuresPage.category = categoryOrder[2]
      /\ RetriesAndFailuresPage.order = 6
  BY CategoryNames, Zenon DEF RetriesAndFailuresPage, Page
<1>9. /\ DeadLettersPage.slug = "dead-letters"
      /\ DeadLettersPage.category = categoryOrder[2] /\ DeadLettersPage.order = 7
  BY CategoryNames, Zenon DEF DeadLettersPage, Page
<1>10. DOMAIN slugs = 1..7 /\ Len(slugs) = 7
  OBVIOUS
<1>11. \A i \in 1..7 :
          /\ CoreConceptDocs[i].slug = slugs[i]
          /\ CoreConceptDocs[i].category = categoryOrder[2]
          /\ CoreConceptDocs[i].order = i
  BY <1>1, <1>3, <1>4, <1>5, <1>6, <1>7, <1>8, <1>9
<1> HIDE DEF slugs
<1>12. QED
  BY <1>1, <1>2, <1>10, <1>11 DEF IsFile, slugs

LEMMA ReliabilityFile ==
  IsFile(ReliabilityDocs, 3,
    <<"delivery-semantics", "idempotency", "transactional-outbox",
      "inbox-processing", "schema-evolution">>)
<1> DEFINE slugs == <<"delivery-semantics", "idempotency", "transactional-outbox",
                      "inbox-processing", "schema-evolution">>
           P == {ReliabilityDocs[i] : i \in DOMAIN ReliabilityDocs}
<1>1. /\ DOMAIN ReliabilityDocs = 1..5 /\ Len(ReliabilityDocs) = 5
      /\ ReliabilityDocs[1] = DeliverySemanticsPage
      /\ ReliabilityDocs[2] = IdempotencyPage
      /\ ReliabilityDocs[3] = TransactionalOutboxPage
      /\ ReliabilityDocs[4] = InboxProcessingPage
      /\ ReliabilityDocs[5] = SchemaEvolutionPage
  BY DEF ReliabilityDocs
<1>2. ReliabilityDocs \in Seq(P)
  <2>1. /\ DeliverySemanticsPage \in P /\ IdempotencyPage \in P
        /\ TransactionalOutboxPage \in P /\ InboxProcessingPage \in P
        /\ SchemaEvolutionPage \in P
    BY <1>1
  <2> HIDE DEF P
  <2>2. QED
    BY <2>1 DEF ReliabilityDocs
<1>3. /\ DeliverySemanticsPage.slug = "delivery-semantics"
      /\ DeliverySemanticsPage.category = categoryOrder[3]
      /\ DeliverySemanticsPage.order = 1
  BY CategoryNames, Zenon DEF DeliverySemanticsPage, Page
<1>4. /\ IdempotencyPage.slug = "idempotency"
      /\ IdempotencyPage.category = categoryOrder[3] /\ IdempotencyPage.order = 2
  BY CategoryNames, Zenon DEF IdempotencyPage, Page
<1>5. /\ TransactionalOutboxPage.slug = "transactional-outbox"
      /\ TransactionalOutboxPage.category = categoryOrder[3]
      /\ TransactionalOutboxPage.order = 3
  BY CategoryNames, Zenon DEF TransactionalOutboxPage, Page
<1>6. /\ InboxProcessingPage.slug = "inbox-processing"
      /\ InboxProcessingPage.category = categoryOrder[3]
      /\ InboxProcessingPage.order = 4
  BY CategoryNames, Zenon DEF InboxProcessingPage, Page
<1>7. /\ SchemaEvolutionPage.slug = "schema-evolution"
      /\ SchemaEvolutionPage.category = categoryOrder[3]
      /\ SchemaEvolutionPage.order = 5
  BY CategoryNames, Zenon DEF SchemaEvolutionPage, Page
<1>8. DOMAIN slugs = 1..5 /\ Len(slugs) = 5
  OBVIOUS
<1>9. \A i \in 1..5 :
          /\ ReliabilityDocs[i].slug = slugs[i]
          /\ ReliabilityDocs[i].category = categoryOrder[3]
          /\ ReliabilityDocs[i].order = i
  BY <1>1, <1>3, <1>4, <1>5, <1>6, <1>7
<1> HIDE DEF slugs
<1>10. QED
  BY <1>1, <1>2, <1>8, <1>9 DEF IsFile, slugs

LEMMA TransportFile ==
  IsFile(TransportDocs, 4,
    <<"nats-core", "jetstream", "rabbitmq", "kafka">>)
<1> DEFINE slugs == <<"nats-core", "jetstream", "rabbitmq", "kafka">>
           P == {TransportDocs[i] : i \in DOMAIN TransportDocs}
<1>1. /\ DOMAIN TransportDocs = 1..4 /\ Len(TransportDocs) = 4
      /\ TransportDocs[1] = NatsCorePage
      /\ TransportDocs[2] = JetstreamPage
      /\ TransportDocs[3] = RabbitmqPage
      /\ TransportDocs[4] = KafkaPage
  BY DEF TransportDocs
<1>2. TransportDocs \in Seq(P)
  <2>1. /\ NatsCorePage \in P /\ JetstreamPage \in P
        /\ RabbitmqPage \in P /\ KafkaPage \in P
    BY <1>1
  <2> HIDE DEF P
  <2>2. QED
    BY <2>1 DEF TransportDocs
<1>3. /\ NatsCorePage.slug = "nats-core"
      /\ NatsCorePage.category = categoryOrder[4] /\ NatsCorePage.order = 1
  BY CategoryNames, Zenon DEF NatsCorePage, Page
<1>4. /\ JetstreamPage.slug = "jetstream"
      /\ JetstreamPage.category = categoryOrder[4] /\ JetstreamPage.order = 2
  BY CategoryNames, Zenon DEF JetstreamPage, Page
<1>5. /\ RabbitmqPage.slug = "rabbitmq"
      /\ RabbitmqPage.category = categoryOrder[4] /\ RabbitmqPage.order = 3
  BY CategoryNames, Zenon DEF RabbitmqPage, Page
<1>6. /\ KafkaPage.slug = "kafka"
      /\ KafkaPage.category = categoryOrder[4] /\ KafkaPage.order = 4
  BY CategoryNames, Zenon DEF KafkaPage, Page
<1>7. DOMAIN slugs = 1..4 /\ Len(slugs) = 4
  OBVIOUS
<1>8. \A i \in 1..4 :
          /\ TransportDocs[i].slug = slugs[i]
          /\ TransportDocs[i].category = categoryOrder[4] /\ TransportDocs[i].order = i
  BY <1>1, <1>3, <1>4, <1>5, <1>6
<1> HIDE DEF slugs
<1>9. QED
  BY <1>1, <1>2, <1>7, <1>8 DEF IsFile, slugs

LEMMA IntegrationFile ==
  IsFile(IntegrationDocs, 5,
    <<"postgresql", "serverpod", "observability">>)
<1> DEFINE slugs == <<"postgresql", "serverpod", "observability">>
           P == {IntegrationDocs[i] : i \in DOMAIN IntegrationDocs}
<1>1. /\ DOMAIN IntegrationDocs = 1..3 /\ Len(IntegrationDocs) = 3
      /\ IntegrationDocs[1] = PostgresqlPage
      /\ IntegrationDocs[2] = ServerpodPage
      /\ IntegrationDocs[3] = ObservabilityPage
  BY DEF IntegrationDocs
<1>2. IntegrationDocs \in Seq(P)
  <2>1. /\ PostgresqlPage \in P /\ ServerpodPage \in P
        /\ ObservabilityPage \in P
    BY <1>1
  <2> HIDE DEF P
  <2>2. QED
    BY <2>1 DEF IntegrationDocs
<1>3. /\ PostgresqlPage.slug = "postgresql"
      /\ PostgresqlPage.category = categoryOrder[5] /\ PostgresqlPage.order = 1
  BY CategoryNames, Zenon DEF PostgresqlPage, Page
<1>4. /\ ServerpodPage.slug = "serverpod"
      /\ ServerpodPage.category = categoryOrder[5] /\ ServerpodPage.order = 2
  BY CategoryNames, Zenon DEF ServerpodPage, Page
<1>5. /\ ObservabilityPage.slug = "observability"
      /\ ObservabilityPage.category = categoryOrder[5] /\ ObservabilityPage.order = 3
  BY CategoryNames, Zenon DEF ObservabilityPage, Page
<1>6. DOMAIN slugs = 1..3 /\ Len(slugs) = 3
  OBVIOUS
<1>7. \A i \in 1..3 :
          /\ IntegrationDocs[i].slug = slugs[i]
          /\ IntegrationDocs[i].category = categoryOrder[5]
          /\ IntegrationDocs[i].order = i
  BY <1>1, <1>3, <1>4, <1>5
<1> HIDE DEF slugs
<1>8. QED
  BY <1>1, <1>2, <1>6, <1>7 DEF IsFile, slugs

LEMMA OperationsFile ==
  IsFile(OperationsDocs, 6,
    <<"production-deployment", "health-checks", "graceful-shutdown", "testing",
      "github-pages", "incident-response">>)
<1> DEFINE slugs == <<"production-deployment", "health-checks", "graceful-shutdown",
                      "testing", "github-pages",
                      "incident-response">>
           P == {OperationsDocs[i] : i \in DOMAIN OperationsDocs}
<1>1. /\ DOMAIN OperationsDocs = 1..6 /\ Len(OperationsDocs) = 6
      /\ OperationsDocs[1] = ProductionDeploymentPage
      /\ OperationsDocs[2] = HealthChecksPage
      /\ OperationsDocs[3] = GracefulShutdownPage
      /\ OperationsDocs[4] = TestingPage
      /\ OperationsDocs[5] = GithubPagesPage
      /\ OperationsDocs[6] = IncidentResponsePage
  BY DEF OperationsDocs
<1>2. OperationsDocs \in Seq(P)
  <2>1. /\ ProductionDeploymentPage \in P /\ HealthChecksPage \in P
        /\ GracefulShutdownPage \in P /\ TestingPage \in P
        /\ GithubPagesPage \in P /\ IncidentResponsePage \in P
    BY <1>1
  <2> HIDE DEF P
  <2>2. QED
    BY <2>1 DEF OperationsDocs
<1>3. /\ ProductionDeploymentPage.slug = "production-deployment"
      /\ ProductionDeploymentPage.category = categoryOrder[6]
      /\ ProductionDeploymentPage.order = 1
  BY CategoryNames, Zenon DEF ProductionDeploymentPage, Page
<1>4. /\ HealthChecksPage.slug = "health-checks"
      /\ HealthChecksPage.category = categoryOrder[6] /\ HealthChecksPage.order = 2
  BY CategoryNames, Zenon DEF HealthChecksPage, Page
<1>5. /\ GracefulShutdownPage.slug = "graceful-shutdown"
      /\ GracefulShutdownPage.category = categoryOrder[6]
      /\ GracefulShutdownPage.order = 3
  BY CategoryNames, Zenon DEF GracefulShutdownPage, Page
<1>6. /\ TestingPage.slug = "testing"
      /\ TestingPage.category = categoryOrder[6] /\ TestingPage.order = 4
  BY CategoryNames, Zenon DEF TestingPage, Page
<1>7. /\ GithubPagesPage.slug = "github-pages"
      /\ GithubPagesPage.category = categoryOrder[6] /\ GithubPagesPage.order = 5
  BY CategoryNames, Zenon DEF GithubPagesPage, Page
<1>8. /\ IncidentResponsePage.slug = "incident-response"
      /\ IncidentResponsePage.category = categoryOrder[6]
      /\ IncidentResponsePage.order = 6
  BY CategoryNames, Zenon DEF IncidentResponsePage, Page
<1>9. DOMAIN slugs = 1..6 /\ Len(slugs) = 6
  OBVIOUS
<1>10. \A i \in 1..6 :
          /\ OperationsDocs[i].slug = slugs[i]
          /\ OperationsDocs[i].category = categoryOrder[6]
          /\ OperationsDocs[i].order = i
  BY <1>1, <1>3, <1>4, <1>5, <1>6, <1>7, <1>8
<1> HIDE DEF slugs
<1>11. QED
  BY <1>1, <1>2, <1>9, <1>10 DEF IsFile, slugs

LEMMA ReferenceFile ==
  IsFile(ReferenceDocs, 7,
    <<"api-reference", "configuration-reference", "capability-matrix", "faq",
      "roadmap">>)
<1> DEFINE slugs == <<"api-reference", "configuration-reference",
                      "capability-matrix", "faq", "roadmap">>
           P == {ReferenceDocs[i] : i \in DOMAIN ReferenceDocs}
<1>1. /\ DOMAIN ReferenceDocs = 1..5 /\ Len(ReferenceDocs) = 5
      /\ ReferenceDocs[1] = ApiReferencePage
      /\ ReferenceDocs[2] = ConfigurationReferencePage
      /\ ReferenceDocs[3] = CapabilityMatrixPage
      /\ ReferenceDocs[4] = FaqPage
      /\ ReferenceDocs[5] = RoadmapPage
  BY DEF ReferenceDocs
<1>2. ReferenceDocs \in Seq(P)
  <2>1. /\ ApiReferencePage \in P /\ ConfigurationReferencePage \in P
        /\ CapabilityMatrixPage \in P /\ FaqPage \in P
        /\ RoadmapPage \in P
    BY <1>1
  <2> HIDE DEF P
  <2>2. QED
    BY <2>1 DEF ReferenceDocs
<1>3. /\ ApiReferencePage.slug = "api-reference"
      /\ ApiReferencePage.category = categoryOrder[7] /\ ApiReferencePage.order = 1
  BY CategoryNames, Zenon DEF ApiReferencePage, Page
<1>4. /\ ConfigurationReferencePage.slug = "configuration-reference"
      /\ ConfigurationReferencePage.category = categoryOrder[7]
      /\ ConfigurationReferencePage.order = 2
  BY CategoryNames, Zenon DEF ConfigurationReferencePage, Page
<1>5. /\ CapabilityMatrixPage.slug = "capability-matrix"
      /\ CapabilityMatrixPage.category = categoryOrder[7]
      /\ CapabilityMatrixPage.order = 3
  BY CategoryNames, Zenon DEF CapabilityMatrixPage, Page
<1>6. /\ FaqPage.slug = "faq"
      /\ FaqPage.category = categoryOrder[7] /\ FaqPage.order = 4
  BY CategoryNames, Zenon DEF FaqPage, Page
<1>7. /\ RoadmapPage.slug = "roadmap"
      /\ RoadmapPage.category = categoryOrder[7] /\ RoadmapPage.order = 5
  BY CategoryNames, Zenon DEF RoadmapPage, Page
<1>8. DOMAIN slugs = 1..5 /\ Len(slugs) = 5
  OBVIOUS
<1>9. \A i \in 1..5 :
          /\ ReferenceDocs[i].slug = slugs[i]
          /\ ReferenceDocs[i].category = categoryOrder[7] /\ ReferenceDocs[i].order = i
  BY <1>1, <1>3, <1>4, <1>5, <1>6, <1>7
<1> HIDE DEF slugs
<1>10. QED
  BY <1>1, <1>2, <1>8, <1>9 DEF IsFile, slugs

Joins(r, s, t) ==
  /\ Len(r) = Len(s) + Len(t)
  /\ \A k \in 1..Len(s) : r[k] = s[k]
  /\ \A k \in 1..Len(t) : r[Len(s) + k] = t[k]

LEMMA Spread ==
  ASSUME NEW P, NEW s \in Seq(P), NEW t \in Seq(P)
  PROVE  s \o t \in Seq(P) /\ Joins(s \o t, s, t)
BY DEF Joins

\* The catalogue lists the content files one after the other.
LEMMA Catalogue ==
  /\ Len(docs) = 34 /\ DOMAIN docs = 1..34
  /\ \A k \in 1..4 : docs[k] = GettingStartedDocs[k]
  /\ \A k \in 1..7 : docs[4 + k] = CoreConceptDocs[k]
  /\ \A k \in 1..5 : docs[11 + k] = ReliabilityDocs[k]
  /\ \A k \in 1..4 : docs[16 + k] = TransportDocs[k]
  /\ \A k \in 1..3 : docs[20 + k] = IntegrationDocs[k]
  /\ \A k \in 1..6 : docs[23 + k] = OperationsDocs[k]
  /\ \A k \in 1..5 : docs[29 + k] = ReferenceDocs[k]
<1> DEFINE P == UNION {{s[i] : i \in DOMAIN s} :
                        s \in {GettingStartedDocs, CoreConceptDocs, ReliabilityDocs,
                               TransportDocs, IntegrationDocs, OperationsDocs,
                               ReferenceDocs}}
<1>1. /\ GettingStartedDocs \in Seq(P) /\ Len(GettingStartedDocs) = 4
      /\ CoreConceptDocs \in Seq(P) /\ Len(CoreConceptDocs) = 7
      /\ ReliabilityDocs \in Seq(P) /\ Len(ReliabilityDocs) = 5
      /\ TransportDocs \in Seq(P) /\ Len(TransportDocs) = 4
      /\ IntegrationDocs \in Seq(P) /\ Len(IntegrationDocs) = 3
      /\ OperationsDocs \in Seq(P) /\ Len(OperationsDocs) = 6
      /\ ReferenceDocs \in Seq(P) /\ Len(ReferenceDocs) = 5
  <2>1. GettingStartedDocs \in Seq(P) /\ Len(GettingStartedDocs) = 4
    BY GettingStartedFile DEF IsFile
  <2>2. CoreConceptDocs \in Seq(P) /\ Len(CoreConceptDocs) = 7
    BY CoreConceptFile DEF IsFile
  <2>3. ReliabilityDocs \in Seq(P) /\ Len(ReliabilityDocs) = 5
    BY ReliabilityFile DEF IsFile
  <2>4. TransportDocs \in Seq(P) /\ Len(TransportDocs) = 4
    BY TransportFile DEF IsFile
  <2>5. IntegrationDocs \in Seq(P) /\ Len(IntegrationDocs) = 3
    BY IntegrationFile DEF IsFile
  <2>6. OperationsDocs \in Seq(P) /\ Len(OperationsDocs) = 6
    BY OperationsFile DEF IsFile
  <2>7. ReferenceDocs \in Seq(P) /\ Len(ReferenceDocs) = 5
    BY ReferenceFile DEF IsFile
  <2>8. QED
    BY <2>1, <2>2, <2>3, <2>4, <2>5, <2>6, <2>7
<1> HIDE DEF P
<1> DEFINE s2 == GettingStartedDocs \o CoreConceptDocs
           s3 == s2 \o ReliabilityDocs
           s4 == s3 \o TransportDocs
           s5 == s4 \o IntegrationDocs
           s6 == s5 \o OperationsDocs
           s7 == s6 \o ReferenceDocs
<1>2. /\ s2 \in Seq(P) /\ Len(s2) = 11
      /\ \A k \in 1..4 : s2[k] = GettingStartedDocs[k]
      /\ \A k \in 1..7 : s2[4 + k] = CoreConceptDocs[k]
  <2>1. /\ GettingStartedDocs \in Seq(P) /\ Len(GettingStartedDocs) = 4
        /\ CoreConceptDocs \in Seq(P) /\ Len(CoreConceptDocs) = 7
    BY <1>1
  <2>2. s2 \in Seq(P) /\ Joins(s2, GettingStartedDocs, CoreConceptDocs)
    BY <2>1, Spread
  <2> HIDE DEF s2
  <2>3. QED
    BY <2>1, <2>2 DEF Joins
<1> HIDE DEF s2
<1>3. /\ s3 \in Seq(P) /\ Len(s3) = 16
      /\ \A k \in 1..11 : s3[k] = s2[k]
      /\ \A k \in 1..5 : s3[11 + k] = ReliabilityDocs[k]
  <2>1. /\ s2 \in Seq(P) /\ Len(s2) = 11
        /\ ReliabilityDocs \in Seq(P) /\ Len(ReliabilityDocs) = 5
    BY <1>1, <1>2
  <2>2. s3 \in Seq(P) /\ Joins(s3, s2, ReliabilityDocs)
    BY <2>1, Spread
  <2> HIDE DEF s3
  <2>3. QED
    BY <2>1, <2>2 DEF Joins
<1> HIDE DEF s3
<1>4. /\ s4 \in Seq(P) /\ Len(s4) = 20
      /\ \A k \in 1..16 : s4[k] = s3[k]
      /\ \A k \in 1..4 : s4[16 + k] = TransportDocs[k]
  <2>1. /\ s3 \in Seq(P) /\ Len(s3) = 16
        /\ TransportDocs \in Seq(P) /\ Len(TransportDocs) = 4
    BY <1>1, <1>3
  <2>2. s4 \in Seq(P) /\ Joins(s4, s3, TransportDocs)
    BY <2>1, Spread
  <2> HIDE DEF s4
  <2>3. QED
    BY <2>1, <2>2 DEF Joins
<1> HIDE DEF s4
<1>5. /\ s5 \in Seq(P) /\ Len(s5) = 23
      /\ \A k \in 1..20 : s5[k] = s4[k]
      /\ \A k \in 1..3 : s5[20 + k] = IntegrationDocs[k]
  <2>1. /\ s4 \in Seq(P) /\ Len(s4) = 20
        /\ IntegrationDocs \in Seq(P) /\ Len(IntegrationDocs) = 3
    BY <1>1, <1>4
  <2>2. s5 \in Seq(P) /\ Joins(s5, s4, IntegrationDocs)
    BY <2>1, Spread
  <2> HIDE DEF s5
  <2>3. QED
    BY <2>1, <2>2 DEF Joins
<1> HIDE DEF s5
<1>6. /\ s6 \in Seq(P) /\ Len(s6) = 29
      /\ \A k \in 1..23 : s6[k] = s5[k]
      /\ \A k \in 1..6 : s6[23 + k] = OperationsDocs[k]
  <2>1. /\ s5 \in Seq(P) /\ Len(s5) = 23
        /\ OperationsDocs \in Seq(P) /\ Len(OperationsDocs) = 6
    BY <1>1, <1>5
  <2>2. s6 \in Seq(P) /\ Joins(s6, s5, OperationsDocs)
    BY <2>1, Spread
  <2> HIDE DEF s6
  <2>3. QED
    BY <2>1, <2>2 DEF Joins
<1> HIDE DEF s6
<1>7. /\ s7 \in Seq(P) /\ Len(s7) = 34
      /\ \A k \in 1..29 : s7[k] = s6[k]
      /\ \A k \in 1..5 : s7[29 + k] = ReferenceDocs[k]
  <2>1. /\ s6 \in Seq(P) /\ Len(s6) = 29
        /\ ReferenceDocs \in Seq(P) /\ Len(ReferenceDocs) = 5
    BY <1>1, <1>6
  <2>2. s7 \in Seq(P) /\ Joins(s7, s6, ReferenceDocs)
    BY <2>1, Spread
  <2> HIDE DEF s7
  <2>3. QED
    BY <2>1, <2>2 DEF Joins
<1> HIDE DEF s7
<1>8. docs = s7
  BY DEF docs, s2, s3, s4, s5, s6, s7
<1>9. /\ \A k \in 1..4 : s2[k] = GettingStartedDocs[k]
      /\ \A k \in 1..7 : s2[4 + k] = CoreConceptDocs[k]
      /\ \A k \in 1..11 : s3[k] = s2[k]
      /\ \A k \in 1..5 : s3[11 + k] = ReliabilityDocs[k]
      /\ \A k \in 1..16 : s4[k] = s3[k]
      /\ \A k \in 1..4 : s4[16 + k] = TransportDocs[k]
      /\ \A k \in 1..20 : s5[k] = s4[k]
      /\ \A k \in 1..3 : s5[20 + k] = IntegrationDocs[k]
      /\ \A k \in 1..23 : s6[k] = s5[k]
      /\ \A k \in 1..6 : s6[23 + k] = OperationsDocs[k]
      /\ \A k \in 1..29 : s7[k] = s6[k]
      /\ \A k \in 1..5 : s7[29 + k] = ReferenceDocs[k]
  BY <1>2, <1>3, <1>4, <1>5, <1>6, <1>7, Zenon
<1>10. \A k \in 1..4 : s7[k] = GettingStartedDocs[k]
  BY <1>9
<1>11. \A k \in 1..7 : s7[4 + k] = CoreConceptDocs[k]
  BY <1>9
<1>12. \A k \in 1..5 : s7[11 + k] = ReliabilityDocs[k]
  BY <1>9
<1>13. \A k \in 1..4 : s7[16 + k] = TransportDocs[k]
  BY <1>9
<1>14. \A k \in 1..3 : s7[20 + k] = IntegrationDocs[k]
  BY <1>9
<1>15. \A k \in 1..6 : s7[23 + k] = OperationsDocs[k]
  BY <1>9
<1>16. QED
  BY <1>7, <1>8, <1>9, <1>10, <1>11, <1>12, <1>13, <1>14, <1>15

\* The addresses of the pages, and their place in the category.
LEMMA PageSlugs ==
  /\ docs[1].slug = "introduction" /\ docs[2].slug = "installation"
  /\ docs[3].slug = "quick-start" /\ docs[4].slug = "configuration"
  /\ docs[5].slug = "message-bus" /\ docs[6].slug = "durable-jobs"
  /\ docs[7].slug = "capabilities" /\ docs[8].slug = "headers-and-context"
  /\ docs[9].slug = "typed-codecs" /\ docs[10].slug = "retries-and-failures"
  /\ docs[11].slug = "dead-letters"
  /\ docs[12].slug = "delivery-semantics" /\ docs[13].slug = "idempotency"
  /\ docs[14].slug = "transactional-outbox" /\ docs[15].slug = "inbox-processing"
  /\ docs[16].slug = "schema-evolution"
  /\ docs[17].slug = "nats-core" /\ docs[18].slug = "jetstream"
  /\ docs[19].slug = "rabbitmq" /\ docs[20].slug = "kafka"
  /\ docs[21].slug = "postgresql" /\ docs[22].slug = "serverpod"
  /\ docs[23].slug = "observability"
  /\ docs[24].slug = "production-deployment" /\ docs[25].slug = "health-checks"
  /\ docs[26].slug = "graceful-shutdown" /\ docs[27].slug = "testing"
  /\ docs[28].slug = "github-pages" /\ docs[29].slug = "incident-response"
  /\ docs[30].slug = "api-reference" /\ docs[31].slug = "configuration-reference"
  /\ docs[32].slug = "capability-matrix" /\ docs[33].slug = "faq"
  /\ docs[34].slug = "roadmap"
<1>1. /\ docs[1].slug = "introduction" /\ docs[2].slug = "installation"
      /\ docs[3].slug = "quick-start" /\ docs[4].slug = "configuration"
  <2>1. \A k \in 1..4 : docs[k] = GettingStartedDocs[k]
    BY Catalogue
  <2>2. /\ GettingStartedDocs[1].slug = "introduction"
        /\ GettingStartedDocs[2].slug = "installation"
        /\ GettingStartedDocs[3].slug = "quick-start"
        /\ GettingStartedDocs[4].slug = "configuration"
    BY GettingStartedFile DEF IsFile
  <2>3. QED
    BY <2>1, <2>2
<1>2. /\ docs[5].slug = "message-bus" /\ docs[6].slug = "durable-jobs"
      /\ docs[7].slug = "capabilities" /\ docs[8].slug = "headers-and-context"
      /\ docs[9].slug = "typed-codecs" /\ docs[10].slug = "retries-and-failures"
      /\ docs[11].slug = "dead-letters"
  <2>1. \A k \in 1..7 : docs[4 + k] = CoreConceptDocs[k]
    BY Catalogue
  <2>2. /\ CoreConceptDocs[1].slug = "message-bus"
        /\ CoreConceptDocs[2].slug = "durable-jobs"
        /\ CoreConceptDocs[3].slug = "capabilities"
        /\ CoreConceptDocs[4].slug = "headers-and-context"
        /\ CoreConceptDocs[5].slug = "typed-codecs"
        /\ CoreConceptDocs[6].slug = "retries-and-failures"
        /\ CoreConceptDocs[7].slug = "dead-letters"
    BY CoreConceptFile DEF IsFile
  <2>3. QED
    BY <2>1, <2>2
<1>3. /\ docs[12].slug = "delivery-semantics" /\ docs[13].slug = "idempotency"
      /\ docs[14].slug = "transactional-outbox" /\ docs[15].slug = "inbox-processing"
      /\ docs[16].slug = "schema-evolution"
  <2>1. \A k \in 1..5 : docs[11 + k] = ReliabilityDocs[k]
    BY Catalogue
  <2>2. /\ ReliabilityDocs[1].slug = "delivery-semantics"
        /\ ReliabilityDocs[2].slug = "idempotency"
        /\ ReliabilityDocs[3].slug = "transactional-outbox"
        /\ ReliabilityDocs[4].slug = "inbox-processing"
        /\ ReliabilityDocs[5].slug = "schema-evolution"
    BY ReliabilityFile DEF IsFile
  <2>3. QED
    BY <2>1, <2>2
<1>4. /\ docs[17].slug = "nats-core" /\ docs[18].slug = "jetstream"
      /\ docs[19].slug = "rabbitmq" /\ docs[20].slug = "kafka"
  <2>1. \A k \in 1..4 : docs[16 + k] = TransportDocs[k]
    BY Catalogue
  <2>2. /\ TransportDocs[1].slug = "nats-core" /\ TransportDocs[2].slug = "jetstream"
        /\ TransportDocs[3].slug = "rabbitmq" /\ TransportDocs[4].slug = "kafka"
    BY TransportFile DEF IsFile
  <2>3. QED
    BY <2>1, <2>2
<1>5. /\ docs[21].slug = "postgresql" /\ docs[22].slug = "serverpod"
      /\ docs[23].slug = "observability"
  <2>1. \A k \in 1..3 : docs[20 + k] = IntegrationDocs[k]
    BY Catalogue
  <2>2. /\ IntegrationDocs[1].slug = "postgresql"
        /\ IntegrationDocs[2].slug = "serverpod"
        /\ IntegrationDocs[3].slug = "observability"
    BY IntegrationFile DEF IsFile
  <2>3. QED
    BY <2>1, <2>2
<1>6. /\ docs[24].slug = "production-deployment" /\ docs[25].slug = "health-checks"
      /\ docs[26].slug = "graceful-shutdown" /\ docs[27].slug = "testing"
      /\ docs[28].slug = "github-pages" /\ docs[29].slug = "incident-response"
  <2>1. \A k \in 1..6 : docs[23 + k] = OperationsDocs[k]
    BY Catalogue
  <2>2. /\ OperationsDocs[1].slug = "production-deployment"
        /\ OperationsDocs[2].slug = "health-checks"
        /\ OperationsDocs[3].slug = "graceful-shutdown"
        /\ OperationsDocs[4].slug = "testing"
        /\ OperationsDocs[5].slug = "github-pages"
        /\ OperationsDocs[6].slug = "incident-response"
    BY OperationsFile DEF IsFile
  <2>3. QED
    BY <2>1, <2>2
<1>7. /\ docs[30].slug = "api-reference" /\ docs[31].slug = "configuration-reference"
      /\ docs[32].slug = "capability-matrix" /\ docs[33].slug = "faq"
      /\ docs[34].slug = "roadmap"
  <2>1. \A k \in 1..5 : docs[29 + k] = ReferenceDocs[k]
    BY Catalogue
  <2>2. /\ ReferenceDocs[1].slug = "api-reference"
        /\ ReferenceDocs[2].slug = "configuration-reference"
        /\ ReferenceDocs[3].slug = "capability-matrix"
        /\ ReferenceDocs[4].slug = "faq" /\ ReferenceDocs[5].slug = "roadmap"
    BY ReferenceFile DEF IsFile
  <2>3. QED
    BY <2>1, <2>2
<1>8. QED
  BY <1>1, <1>2, <1>3, <1>4, <1>5, <1>6, <1>7

LEMMA PagePlaces ==
  /\ \A i \in 1..4 : docs[i].category = categoryOrder[1] /\ docs[i].order = i
  /\ \A i \in 5..11 : docs[i].category = categoryOrder[2] /\ docs[i].order = i - 4
  /\ \A i \in 12..16 : docs[i].category = categoryOrder[3] /\ docs[i].order = i - 11
  /\ \A i \in 17..20 : docs[i].category = categoryOrder[4] /\ docs[i].order = i - 16
  /\ \A i \in 21..23 : docs[i].category = categoryOrder[5] /\ docs[i].order = i - 20
  /\ \A i \in 24..29 : docs[i].category = categoryOrder[6] /\ docs[i].order = i - 23
  /\ \A i \in 30..34 : docs[i].category = categoryOrder[7] /\ docs[i].order = i - 29
<1>1. \A i \in 1..4 : docs[i].category = categoryOrder[1] /\ docs[i].order = i
  <2>1. \A k \in 1..4 : docs[k] = GettingStartedDocs[k]
    BY Catalogue
  <2>2. \A k \in 1..4 : /\ GettingStartedDocs[k].category = categoryOrder[1]
                        /\ GettingStartedDocs[k].order = k
    BY GettingStartedFile DEF IsFile
  <2>3. QED
    BY <2>1, <2>2
<1>2. \A i \in 5..11 : docs[i].category = categoryOrder[2] /\ docs[i].order = i - 4
  <2>1. \A k \in 1..7 : docs[4 + k] = CoreConceptDocs[k]
    BY Catalogue
  <2>2. \A k \in 1..7 : /\ CoreConceptDocs[k].category = categoryOrder[2]
                        /\ CoreConceptDocs[k].order = k
    BY CoreConceptFile DEF IsFile
  <2>3. \A i \in 5..11 : i - 4 \in 1..7 /\ 4 + (i - 4) = i
    OBVIOUS
  <2>4. QED
    BY <2>1, <2>2, <2>3
<1>3. \A i \in 12..16 : docs[i].category = categoryOrder[3] /\ docs[i].order = i - 11
  <2>1. \A k \in 1..5 : docs[11 + k] = ReliabilityDocs[k]
    BY Catalogue
  <2>2. \A k \in 1..5 : /\ ReliabilityDocs[k].category = categoryOrder[3]
                        /\ ReliabilityDocs[k].order = k
    BY ReliabilityFile DEF IsFile
  <2>3. \A i \in 12..16 : i - 11 \in 1..5 /\ 11 + (i - 11) = i
    OBVIOUS
  <2>4. QED
    BY <2>1, <2>2, <2>3
<1>4. \A i \in 17..20 : docs[i].category = categoryOrder[4] /\ docs[i].order = i - 16
  <2>1. \A k \in 1..4 : docs[16 + k] = TransportDocs[k]
    BY Catalogue
  <2>2. \A k \in 1..4 : /\ TransportDocs[k].category = categoryOrder[4]
                        /\ TransportDocs[k].order = k
    BY TransportFile DEF IsFile
  <2>3. \A i \in 17..20 : i - 16 \in 1..4 /\ 16 + (i - 16) = i
    OBVIOUS
  <2>4. QED
    BY <2>1, <2>2, <2>3
<1>5. \A i \in 21..23 : docs[i].category = categoryOrder[5] /\ docs[i].order = i - 20
  <2>1. \A k \in 1..3 : docs[20 + k] = IntegrationDocs[k]
    BY Catalogue
  <2>2. \A k \in 1..3 : /\ IntegrationDocs[k].category = categoryOrder[5]
                        /\ IntegrationDocs[k].order = k
    BY IntegrationFile DEF IsFile
  <2>3. \A i \in 21..23 : i - 20 \in 1..3 /\ 20 + (i - 20) = i
    OBVIOUS
  <2>4. QED
    BY <2>1, <2>2, <2>3
<1>6. \A i \in 24..29 : docs[i].category = categoryOrder[6] /\ docs[i].order = i - 23
  <2>1. \A k \in 1..6 : docs[23 + k] = OperationsDocs[k]
    BY Catalogue
  <2>2. \A k \in 1..6 : /\ OperationsDocs[k].category = categoryOrder[6]
                        /\ OperationsDocs[k].order = k
    BY OperationsFile DEF IsFile
  <2>3. \A i \in 24..29 : i - 23 \in 1..6 /\ 23 + (i - 23) = i
    OBVIOUS
  <2>4. QED
    BY <2>1, <2>2, <2>3
<1>7. \A i \in 30..34 : docs[i].category = categoryOrder[7] /\ docs[i].order = i - 29
  <2>1. \A k \in 1..5 : docs[29 + k] = ReferenceDocs[k]
    BY Catalogue
  <2>2. \A k \in 1..5 : /\ ReferenceDocs[k].category = categoryOrder[7]
                        /\ ReferenceDocs[k].order = k
    BY ReferenceFile DEF IsFile
  <2>3. \A i \in 30..34 : i - 29 \in 1..5 /\ 29 + (i - 29) = i
    OBVIOUS
  <2>4. QED
    BY <2>1, <2>2, <2>3
<1>8. QED
  BY <1>1, <1>2, <1>3, <1>4, <1>5, <1>6, <1>7

\* The pages of a content file, sorted by their numbers, are the file.
LEMMA SortedInterval ==
  ASSUME NEW a \in Nat, NEW n \in Nat, NEW weight,
         \A i \in (a + 1)..(a + n) : weight[i] = i - a
  PROVE  Sorted((a + 1)..(a + n), weight) = [k \in 1..n |-> a + k]
<1> DEFINE S == (a + 1)..(a + n)
           below(i) == {j \in S : Precedes(j, i, weight)}
<1>1. IsFiniteSet(S) /\ Cardinality(S) = n
  <2>1. a + 1 \in Int /\ a + n \in Int
    OBVIOUS
  <2>2. /\ IsFiniteSet(S)
        /\ Cardinality(S) = IF a + 1 > a + n THEN 0 ELSE (a + n) - (a + 1) + 1
    BY <2>1, FS_Interval, Zenon
  <2> HIDE DEF S
  <2>3. QED
    BY <2>2
<1>2. ASSUME NEW i \in S PROVE Cardinality(below(i)) = i - a - 1
  <2>1. below(i) = (a + 1)..(i - 1)
    BY DEF Precedes
  <2>2. a + 1 \in Int /\ i - 1 \in Int
    OBVIOUS
  <2>3. Cardinality((a + 1)..(i - 1))
          = IF a + 1 > i - 1 THEN 0 ELSE (i - 1) - (a + 1) + 1
    BY <2>2, FS_Interval, Zenon
  <2>4. i \in Int /\ a + 1 <= i
    OBVIOUS
  <2> HIDE DEF below, S
  <2>5. QED
    BY <2>1, <2>3, <2>4
<1>3. ASSUME NEW k \in 1..n
      PROVE  (CHOOSE i \in S : Cardinality(below(i)) = k - 1) = a + k
  <2>1. a + k \in S /\ \A i \in S : i - a - 1 = k - 1 <=> i = a + k
    OBVIOUS
  <2> HIDE DEF S, below
  <2>2. \A i \in S : Cardinality(below(i)) = k - 1 <=> i = a + k
    BY <1>2, <2>1
  <2>3. QED
    BY <2>1, <2>2
<1>4. Sorted(S, weight) =
        [k \in 1..n |-> CHOOSE i \in S : Cardinality(below(i)) = k - 1]
  <2>1. Sorted(S, weight) =
          [k \in 1..Cardinality(S) |-> CHOOSE i \in S : Cardinality(below(i)) = k - 1]
    BY DEF Sorted
  <2> HIDE DEF S, below
  <2>2. QED
    BY <1>1, <2>1
<1> HIDE DEF below
<1>5. QED
  BY <1>3, <1>4

\* The pages of the catalogue from the (a + 1)st on are those of category c.
ListedFrom(s, c, a, n) ==
  /\ \A k \in 1..n : docs[a + k] = s[k]
  /\ \A i \in 1..34 : docs[i].category = categoryOrder[c] <=> i \in (a + 1)..(a + n)

LEMMA CategoryIsFile ==
  ASSUME NEW c \in 1..7, NEW a \in Nat, NEW n \in Nat, a + n <= 34,
         NEW s, NEW slugs, IsFile(s, c, slugs), DOMAIN slugs = 1..n,
         ListedFrom(s, c, a, n)
  PROVE  docCategories[c] = s
<1> DEFINE pages == {i \in DOMAIN docs : docs[i].category = categoryOrder[c]}
           order == [i \in pages |-> docs[i].order]
<1>1. pages = (a + 1)..(a + n)
  <2>1. (a + 1)..(a + n) \subseteq 1..34
    OBVIOUS
  <2>2. DOMAIN docs = 1..34
    BY Catalogue
  <2>3. \A i \in 1..34 : docs[i].category = categoryOrder[c] <=> i \in (a + 1)..(a + n)
    BY DEF ListedFrom
  <2>4. QED
    BY <2>1, <2>2, <2>3, Zenon
<1>2. \A i \in (a + 1)..(a + n) : order[i] = i - a
  <2>1. \A k \in 1..n : docs[a + k].order = k
    BY DEF IsFile, ListedFrom
  <2>2. \A i \in (a + 1)..(a + n) : i - a \in 1..n /\ a + (i - a) = i
    OBVIOUS
  <2>3. \A i \in (a + 1)..(a + n) : docs[i].order = i - a
    BY <2>1, <2>2
  <2> HIDE DEF pages
  <2>4. QED
    BY <1>1, <2>3
<1>3. docCategories[c] =
        LET sorted == Sorted(pages, order) IN [k \in DOMAIN sorted |-> docs[sorted[k]]]
  BY CategoryNames, Zenon DEF docCategories
<1> HIDE DEF pages, order
<1>4. Sorted(pages, order) = [k \in 1..n |-> a + k]
  BY <1>1, <1>2, SortedInterval
<1>5. docCategories[c] = [k \in 1..n |-> docs[a + k]]
  BY <1>3, <1>4
<1>6. s = [k \in 1..n |-> s[k]]
  BY DEF IsFile
<1>7. \A k \in 1..n : docs[a + k] = s[k]
  BY DEF ListedFrom
<1>8. QED
  BY <1>5, <1>6, <1>7

\* The sidebar shows the content files in the order of the catalogue.
LEMMA Sidebar ==
  /\ docCategories[1] = GettingStartedDocs
  /\ docCategories[2] = CoreConceptDocs
  /\ docCategories[3] = ReliabilityDocs
  /\ docCategories[4] = TransportDocs
  /\ docCategories[5] = IntegrationDocs
  /\ docCategories[6] = OperationsDocs
  /\ docCategories[7] = ReferenceDocs
  /\ SidebarOrder = docs
<1>0. \A i \in 1..34, c \in 1..7 :
        docs[i].category = categoryOrder[c] <=>
          \/ c = 1 /\ i \in 1..4
          \/ c = 2 /\ i \in 5..11
          \/ c = 3 /\ i \in 12..16
          \/ c = 4 /\ i \in 17..20
          \/ c = 5 /\ i \in 21..23
          \/ c = 6 /\ i \in 24..29
          \/ c = 7 /\ i \in 30..34
  BY PagePlaces, CategoriesDiffer
<1>1. docCategories[1] = GettingStartedDocs
  <2>1. \A i \in 1..34 :
          docs[i].category = categoryOrder[1] <=> i \in (0 + 1)..(0 + 4)
    BY <1>0
  <2>2. \A k \in 1..4 : docs[0 + k] = GettingStartedDocs[k]
    BY Catalogue
  <2>3. ListedFrom(GettingStartedDocs, 1, 0, 4)
    BY <2>1, <2>2 DEF ListedFrom
  <2>4. PICK slugs : IsFile(GettingStartedDocs, 1, slugs) /\ DOMAIN slugs = 1..4
    BY GettingStartedFile
  <2>5. 1 \in 1..7 /\ 0 \in Nat /\ 4 \in Nat /\ 0 + 4 <= 34
    OBVIOUS
  <2>6. QED
    BY <2>3, <2>4, <2>5, CategoryIsFile
<1>2. docCategories[2] = CoreConceptDocs
  <2>1. \A i \in 1..34 :
          docs[i].category = categoryOrder[2] <=> i \in (4 + 1)..(4 + 7)
    BY <1>0
  <2>2. \A k \in 1..7 : docs[4 + k] = CoreConceptDocs[k]
    BY Catalogue
  <2>3. ListedFrom(CoreConceptDocs, 2, 4, 7)
    BY <2>1, <2>2 DEF ListedFrom
  <2>4. PICK slugs : IsFile(CoreConceptDocs, 2, slugs) /\ DOMAIN slugs = 1..7
    BY CoreConceptFile
  <2>5. 2 \in 1..7 /\ 4 \in Nat /\ 7 \in Nat /\ 4 + 7 <= 34
    OBVIOUS
  <2>6. QED
    BY <2>3, <2>4, <2>5, CategoryIsFile
<1>3. docCategories[3] = ReliabilityDocs
  <2>1. \A i \in 1..34 :
          docs[i].category = categoryOrder[3] <=> i \in (11 + 1)..(11 + 5)
    BY <1>0
  <2>2. \A k \in 1..5 : docs[11 + k] = ReliabilityDocs[k]
    BY Catalogue
  <2>3. ListedFrom(ReliabilityDocs, 3, 11, 5)
    BY <2>1, <2>2 DEF ListedFrom
  <2>4. PICK slugs : IsFile(ReliabilityDocs, 3, slugs) /\ DOMAIN slugs = 1..5
    BY ReliabilityFile
  <2>5. 3 \in 1..7 /\ 11 \in Nat /\ 5 \in Nat /\ 11 + 5 <= 34
    OBVIOUS
  <2>6. QED
    BY <2>3, <2>4, <2>5, CategoryIsFile
<1>4. docCategories[4] = TransportDocs
  <2>1. \A i \in 1..34 :
          docs[i].category = categoryOrder[4] <=> i \in (16 + 1)..(16 + 4)
    BY <1>0
  <2>2. \A k \in 1..4 : docs[16 + k] = TransportDocs[k]
    BY Catalogue
  <2>3. ListedFrom(TransportDocs, 4, 16, 4)
    BY <2>1, <2>2 DEF ListedFrom
  <2>4. PICK slugs : IsFile(TransportDocs, 4, slugs) /\ DOMAIN slugs = 1..4
    BY TransportFile
  <2>5. 4 \in 1..7 /\ 16 \in Nat /\ 4 \in Nat /\ 16 + 4 <= 34
    OBVIOUS
  <2>6. QED
    BY <2>3, <2>4, <2>5, CategoryIsFile
<1>5. docCategories[5] = IntegrationDocs
  <2>1. \A i \in 1..34 :
          docs[i].category = categoryOrder[5] <=> i \in (20 + 1)..(20 + 3)
    BY <1>0
  <2>2. \A k \in 1..3 : docs[20 + k] = IntegrationDocs[k]
    BY Catalogue
  <2>3. ListedFrom(IntegrationDocs, 5, 20, 3)
    BY <2>1, <2>2 DEF ListedFrom
  <2>4. PICK slugs : IsFile(IntegrationDocs, 5, slugs) /\ DOMAIN slugs = 1..3
    BY IntegrationFile
  <2>5. 5 \in 1..7 /\ 20 \in Nat /\ 3 \in Nat /\ 20 + 3 <= 34
    OBVIOUS
  <2>6. QED
    BY <2>3, <2>4, <2>5, CategoryIsFile
<1>6. docCategories[6] = OperationsDocs
  <2>1. \A i \in 1..34 :
          docs[i].category = categoryOrder[6] <=> i \in (23 + 1)..(23 + 6)
    BY <1>0
  <2>2. \A k \in 1..6 : docs[23 + k] = OperationsDocs[k]
    BY Catalogue
  <2>3. ListedFrom(OperationsDocs, 6, 23, 6)
    BY <2>1, <2>2 DEF ListedFrom
  <2>4. PICK slugs : IsFile(OperationsDocs, 6, slugs) /\ DOMAIN slugs = 1..6
    BY OperationsFile
  <2>5. 6 \in 1..7 /\ 23 \in Nat /\ 6 \in Nat /\ 23 + 6 <= 34
    OBVIOUS
  <2>6. QED
    BY <2>3, <2>4, <2>5, CategoryIsFile
<1>7. docCategories[7] = ReferenceDocs
  <2>1. \A i \in 1..34 :
          docs[i].category = categoryOrder[7] <=> i \in (29 + 1)..(29 + 5)
    BY <1>0
  <2>2. \A k \in 1..5 : docs[29 + k] = ReferenceDocs[k]
    BY Catalogue
  <2>3. ListedFrom(ReferenceDocs, 7, 29, 5)
    BY <2>1, <2>2 DEF ListedFrom
  <2>4. PICK slugs : IsFile(ReferenceDocs, 7, slugs) /\ DOMAIN slugs = 1..5
    BY ReferenceFile
  <2>5. 7 \in 1..7 /\ 29 \in Nat /\ 5 \in Nat /\ 29 + 5 <= 34
    OBVIOUS
  <2>6. QED
    BY <2>3, <2>4, <2>5, CategoryIsFile
<1>8. SidebarOrder = docs
  BY <1>1, <1>2, <1>3, <1>4, <1>5, <1>6, <1>7, Zenon DEF SidebarOrder, docs
<1>9. QED
  BY <1>1, <1>2, <1>3, <1>4, <1>5, <1>6, <1>7, <1>8, Zenon

LEMMA SlugsDiffer == \A i, j \in 1..34 : docs[i].slug = docs[j].slug => i = j
<1> DEFINE A1 == {"introduction", "installation", "quick-start", "configuration"}
           A2 == {"message-bus", "durable-jobs", "capabilities",
                 "headers-and-context", "typed-codecs", "retries-and-failures",
                 "dead-letters"}
           A3 == {"delivery-semantics", "idempotency", "transactional-outbox",
                 "inbox-processing", "schema-evolution"}
           A4 == {"nats-core", "jetstream", "rabbitmq", "kafka"}
           A5 == {"postgresql", "serverpod", "observability"}
           A6 == {"production-deployment", "health-checks", "graceful-shutdown",
                 "testing", "github-pages", "incident-response"}
           A7 == {"api-reference", "configuration-reference",
                 "capability-matrix", "faq", "roadmap"}
<1>1. \A i \in 1..4 : /\ docs[i].slug \in A1
                      /\ \A j \in 1..4 : docs[i].slug = docs[j].slug => i = j
  BY PageSlugs
<1>2. \A i \in 5..11 : /\ docs[i].slug \in A2
                       /\ \A j \in 5..11 : docs[i].slug = docs[j].slug => i = j
  BY PageSlugs
<1>3. \A i \in 12..16 : /\ docs[i].slug \in A3
                        /\ \A j \in 12..16 : docs[i].slug = docs[j].slug => i = j
  BY PageSlugs
<1>4. \A i \in 17..20 : /\ docs[i].slug \in A4
                        /\ \A j \in 17..20 : docs[i].slug = docs[j].slug => i = j
  BY PageSlugs
<1>5. \A i \in 21..23 : /\ docs[i].slug \in A5
                        /\ \A j \in 21..23 : docs[i].slug = docs[j].slug => i = j
  BY PageSlugs
<1>6. \A i \in 24..29 : /\ docs[i].slug \in A6
                        /\ \A j \in 24..29 : docs[i].slug = docs[j].slug => i = j
  BY PageSlugs
<1>7. \A i \in 30..34 : /\ docs[i].slug \in A7
                        /\ \A j \in 30..34 : docs[i].slug = docs[j].slug => i = j
  BY PageSlugs
<1>8. A2 \cap A1 = {}
  OBVIOUS
<1>9. A3 \cap (A1 \cup A2) = {}
  OBVIOUS
<1>10. A4 \cap (A1 \cup A2 \cup A3) = {}
  OBVIOUS
<1>11. A5 \cap (A1 \cup A2 \cup A3 \cup A4) = {}
  OBVIOUS
<1>12. A6 \cap (A1 \cup A2 \cup A3 \cup A4 \cup A5) = {}
  OBVIOUS
<1>13. A7 \cap (A1 \cup A2 \cup A3 \cup A4 \cup A5 \cup A6) = {}
  OBVIOUS
<1> HIDE DEF A1, A2, A3, A4, A5, A6, A7
<1>14. QED
  BY <1>1, <1>2, <1>3, <1>4, <1>5, <1>6, <1>7, <1>8, <1>9, <1>10, <1>11, <1>12, <1>13

\* Each link written by hand in a page leads to a page of the catalogue, and no page of
\* the catalogue is taken for another address of the site.
LEMMA Addresses ==
  /\ FooterLinks \subseteq Slugs
  /\ {"quick-start", "capabilities", "delivery-semantics", "introduction",
      "nats-core", "jetstream", "rabbitmq", "kafka",
      "capability-matrix", "production-deployment"} \subseteq Slugs
  /\ Home \notin Slugs /\ Overview \notin Slugs /\ NotFound \notin Slugs
<1>1. DOMAIN docs = 1..34
  BY Catalogue
<1>2. \A i \in 1..34 : docs[i].slug \notin {Home, Overview, NotFound}
  BY PageSlugs DEF Home, Overview, NotFound
<1>3. \A i \in 1..34 : docs[i].slug \in Slugs
  BY <1>1 DEF Slugs
<1>4. /\ "introduction" \in Slugs /\ "quick-start" \in Slugs /\ "capabilities" \in Slugs
      /\ "delivery-semantics" \in Slugs /\ "nats-core" \in Slugs /\ "jetstream" \in Slugs
      /\ "rabbitmq" \in Slugs /\ "kafka" \in Slugs /\ "capability-matrix" \in Slugs
      /\ "production-deployment" \in Slugs /\ "api-reference" \in Slugs
  BY <1>3, PageSlugs
<1>5. Home \notin Slugs /\ Overview \notin Slugs /\ NotFound \notin Slugs
  BY <1>1, <1>2 DEF Slugs
<1>6. QED
  BY <1>4, <1>5 DEF FooterLinks

\* What sort() makes of a set of catalogue indexes is a list of its members.
LEMMA SortedIndexes ==
  ASSUME NEW S \in SUBSET (DOMAIN docs), NEW weight \in [S -> Int]
  PROVE  /\ Cardinality(S) \in Nat
         /\ Sorted(S, weight) \in [1..Cardinality(S) -> S]
<1>1. DOMAIN docs = 1..34
  BY Catalogue
<1>2. S \in SUBSET Int
  BY <1>1
<1>3. IsFiniteSet(S)
  <2>1. 1 \in Int /\ 34 \in Int
    OBVIOUS
  <2>2. IsFiniteSet(1..34)
    BY <2>1, FS_Interval, Zenon
  <2>3. QED
    BY <1>1, <2>2, FS_Subset
<1>4. Sorted(S, weight) \in Bijection(1..Cardinality(S), S) /\ Cardinality(S) \in Nat
  BY <1>2, <1>3, SortedLists
<1>5. QED
  BY <1>4 DEF Bijection, Injection

\* The sidebar and the lists of the home page and the overview show catalogued pages.
LEMMA CategoriesAreCatalogued ==
  ASSUME NEW c \in DOMAIN categoryOrder
  PROVE  CategorySlugs(c) \subseteq Slugs
<1> DEFINE pages == {i \in DOMAIN docs : docs[i].category = categoryOrder[c]}
           sorted == Sorted(pages, [i \in pages |-> docs[i].order])
<1>1. sorted \in [1..Cardinality(pages) -> pages]
  <2>1. \A i \in 1..34 : docs[i].order \in Int
    BY PagePlaces
  <2>2. [i \in pages |-> docs[i].order] \in [pages -> Int]
    BY <2>1, Catalogue
  <2>3. pages \in SUBSET (DOMAIN docs)
    OBVIOUS
  <2> HIDE DEF pages
  <2>4. QED
    BY <2>2, <2>3, SortedIndexes
<1>2. docCategories[c] = [k \in DOMAIN sorted |-> docs[sorted[k]]]
  BY DEF docCategories
<1> HIDE DEF sorted
<1>3. \A k \in DOMAIN sorted : sorted[k] \in DOMAIN docs
  BY <1>1
<1>4. QED
  BY <1>2, <1>3 DEF CategorySlugs, Slugs

LEMMA NeighboursAreCatalogued ==
  ASSUME NEW slug
  PROVE  PaginationLinks(slug) \subseteq Slugs
<1>1. DOMAIN docs = 1..34 /\ Len(docs) = 34
  BY Catalogue
<1>2. \A i \in IndexOf(slug) \ {1} : i - 1 \in DOMAIN docs
  BY <1>1 DEF IndexOf
<1>3. \A i \in IndexOf(slug) \ {Len(docs)} : i + 1 \in DOMAIN docs
  BY <1>1 DEF IndexOf
<1>4. QED
  BY <1>2, <1>3 DEF PaginationLinks, getAdjacentDocs, Slugs

\* Every link of every page leads to a page of the export.
LEMMA LinksAreServed ==
  ASSUME NEW path \in Served
  PROVE  LinksOf[path] \subseteq Served
<1> DEFINE sidebar == UNION {CategorySlugs(c) : c \in DOMAIN docCategories}
<1>0. sidebar \subseteq Slugs
  <2>1. DOMAIN docCategories = DOMAIN categoryOrder
    BY DEF docCategories
  <2>2. QED
    BY <2>1, CategoriesAreCatalogued
<1>1. SidebarLinks \subseteq Served
  BY <1>0 DEF SidebarLinks, Served, generateStaticParams
<1>2. HomeLinks \subseteq Served
  <2>1. \A c \in DOMAIN docCategories :
          {docCategories[c][i].slug : i \in DOMAIN docCategories[c] \cap 1..5}
            \subseteq Slugs
    BY CategoriesAreCatalogued DEF CategorySlugs, docCategories
  <2>2. QED
    BY <2>1, Addresses DEF HomeLinks, Served, generateStaticParams
<1>3. OverviewLinks \subseteq Served
  BY <1>0, Addresses DEF OverviewLinks, Served, generateStaticParams
<1>4. PaginationLinks(path) \subseteq Served
  BY NeighboursAreCatalogued DEF Served, generateStaticParams
<1>5. HeaderLinks \cup FooterLinks \subseteq Served
  BY Addresses DEF HeaderLinks, Served, generateStaticParams
<1>6. path # NotFound
  BY Addresses DEF Served, generateStaticParams, Home, Overview, NotFound
<1>7. LinksOf[path] = Links(path)
  BY DEF LinksOf
<1>8. CASE path = Home
  BY <1>2, <1>5, <1>6, <1>7, <1>8 DEF Links, Home, Overview, NotFound
<1>9. CASE path = Overview
  BY <1>1, <1>3, <1>5, <1>6, <1>7, <1>9 DEF Links, Home, Overview, NotFound
<1>10. CASE path # Home /\ path # Overview
  BY <1>1, <1>4, <1>5, <1>6, <1>7, <1>10 DEF Links
<1>11. QED
  BY <1>8, <1>9, <1>10

--------------------------------------------------------------------------------
(* Search. *)

LEMMA RankedType ==
  ASSUME NEW q \in Queries
  PROVE  \E n \in 0..12 : Ranked(q) \in [1..n -> DOMAIN docs]
<1> DEFINE score == [i \in DOMAIN docs |-> Score[q][docs[i].slug]]
           found == {i \in DOMAIN docs : score[i] > 0}
           order == Sorted(found, [i \in found |-> -score[i]])
           most == IF Cardinality(found) > 12 THEN 12 ELSE Cardinality(found)
<1>1. score \in [DOMAIN docs -> Nat]
  <2>1. \A i \in DOMAIN docs : docs[i].slug \in Slugs
    BY DEF Slugs
  <2>2. QED
    BY <2>1, QueriesScored
<1>2. found \in SUBSET (DOMAIN docs)
  OBVIOUS
<1>3. [i \in found |-> -score[i]] \in [found -> Int]
  <2> HIDE DEF score
  <2>1. QED
    BY <1>1
<1>4. Ranked(q) = SubSeq(order, 1, most)
  BY DEF Ranked
<1> HIDE DEF found, score
<1>5. Cardinality(found) \in Nat /\ order \in [1..Cardinality(found) -> found]
  BY <1>2, <1>3, SortedIndexes
<1>6. most \in 0..12 /\ most \in 0..Cardinality(found)
  BY <1>5
<1> HIDE DEF order, most
<1>7. Ranked(q) = [k \in 1..most |-> order[k]]
  BY <1>4, <1>5, <1>6
<1>8. \A k \in 1..most : order[k] \in DOMAIN docs
  BY <1>2, <1>5, <1>6
<1>9. Ranked(q) \in [1..most -> DOMAIN docs]
  BY <1>7, <1>8
<1>10. QED
  BY <1>6, <1>9

\* A dialog lists at most twelve results, each a page of the catalogue.
LEMMA ResultsAreCatalogued ==
  ASSUME NEW q \in Queries
  PROVE  /\ Len(Results[q]) \in 0..12
         /\ \A k \in 1..Len(Results[q]) : Results[q][k] \in Slugs
<1>1. CASE q = NoQuery
  <2>1. Results[q] = [i \in 1..10 |-> docs[i].slug]
    BY <1>1 DEF Results
  <2>2. \A i \in 1..10 : i \in DOMAIN docs
    BY Catalogue
  <2>3. Len(Results[q]) = 10
    BY <2>1
  <2>4. QED
    BY <2>1, <2>2, <2>3 DEF Slugs
<1>2. CASE q # NoQuery
  <2>1. Results[q] = [k \in DOMAIN Ranked(q) |-> docs[Ranked(q)[k]].slug]
    BY <1>2 DEF Results
  <2>2. PICK n \in 0..12 : Ranked(q) \in [1..n -> DOMAIN docs]
    BY RankedType
  <2>3. Results[q] = [k \in 1..n |-> docs[Ranked(q)[k]].slug]
    BY <2>1, <2>2
  <2>4. Len(Results[q]) = n
    BY <2>3
  <2>5. QED
    BY <2>2, <2>3, <2>4 DEF Slugs
<1>3. QED
  BY <1>1, <1>2

--------------------------------------------------------------------------------
(* The reader's session. *)

LEMMA ArrowsFollowSidebar == PaginationFollowsSidebar
<1>1. Len(docs) = 34 /\ DOMAIN docs = 1..34 /\ SidebarOrder = docs
  BY Catalogue, Sidebar
<1>2. SUFFICES ASSUME NEW i \in 1..34, docs[i].slug = pathname
               PROVE  /\ getAdjacentDocs(pathname).previous =
                           IF i = 1 THEN {} ELSE {docs[i - 1].slug}
                      /\ getAdjacentDocs(pathname).next =
                           IF i = 34 THEN {} ELSE {docs[i + 1].slug}
  <2>1. PaginationFollowsSidebar =
          \A i \in 1..34 : docs[i].slug = pathname =>
            /\ getAdjacentDocs(pathname).previous =
                 IF i = 1 THEN {} ELSE {docs[i - 1].slug}
            /\ getAdjacentDocs(pathname).next =
                 IF i = 34 THEN {} ELSE {docs[i + 1].slug}
    BY <1>1 DEF PaginationFollowsSidebar
  <2>2. QED
    BY <2>1
<1>3. IndexOf(pathname) = {i}
  <2>1. \A j \in 1..34 : docs[j].slug = pathname => j = i
    BY <1>2, SlugsDiffer
  <2>2. \A j \in 1..(i - 1) : j \in 1..34 /\ j # i
    BY <1>2
  <2>3. i \in IndexOf(pathname)
    BY <1>1, <1>2, <2>1, <2>2 DEF IndexOf
  <2>4. \A j \in IndexOf(pathname) : j = i
    BY <1>1, <2>1 DEF IndexOf
  <2>5. QED
    BY <2>3, <2>4
<1>4. QED
  BY <1>1, <1>2, <1>3 DEF getAdjacentDocs

Dialog == [open : BOOLEAN, query : Queries, selected : 0..11]

\* What a dialog may hold: the selection is one of its results.
Sound(d) == d \in Dialog /\ d.selected \in 0..(Len(Results[d.query]) - 1) \cup {0}

\* The reader is on a page of the export: only a dead link leads to the 404 page.
SiteInv ==
  /\ pathname \in Served /\ menuOpen \in BOOLEAN /\ dialogClass \in BOOLEAN
  /\ dialog \in [Mounts -> Dialog] /\ \A m \in Mounts : Sound(dialog[m])
  /\ ~menuOpen => dialog["menu"] = Fresh

LEMMA SameDialog ==
  ASSUME NEW d \in Dialog, NEW e \in Dialog,
         d.open = e.open, d.query = e.query, d.selected = e.selected
  PROVE  d = e
BY DEF Dialog

LEMMA SelectionRestarts ==
  ASSUME NEW d \in Dialog
  PROVE  /\ RestartSelection(d) \in Dialog /\ RestartSelection(d).selected = 0
         /\ RestartSelection(d).query = d.query /\ RestartSelection(d).open = d.open
BY DEF Dialog, RestartSelection

LEMMA DialogSet ==
  ASSUME NEW d \in Dialog, NEW b \in BOOLEAN
  PROVE  /\ SetOpen(d, b) \in Dialog /\ SetOpen(d, b).open = b
         /\ SetOpen(d, b).query = d.query /\ SetOpen(d, b).selected = 0
<1> DEFINE e == [d EXCEPT !.open = b]
<1>1. e \in Dialog /\ e.open = b /\ e.query = d.query
  BY DEF Dialog
<1>2. SetOpen(d, b) = RestartSelection(e)
  BY DEF SetOpen
<1> HIDE DEF e
<1>3. QED
  BY <1>1, <1>2, SelectionRestarts

LEMMA DialogsStaySound ==
  /\ Sound(Fresh)
  /\ \A d \in Dialog, b \in BOOLEAN : Sound(SetOpen(d, b))
  /\ \A d \in Dialog, q \in Queries : Sound(RestartSelection([d EXCEPT !.query = q]))
<1>1. Sound(Fresh)
  BY QueriesScored DEF Sound, Dialog, Fresh
<1>2. ASSUME NEW d \in Dialog, NEW b \in BOOLEAN PROVE Sound(SetOpen(d, b))
  BY DialogSet DEF Sound
<1>3. ASSUME NEW d \in Dialog, NEW q \in Queries
      PROVE  Sound(RestartSelection([d EXCEPT !.query = q]))
  <2>1. [d EXCEPT !.query = q] \in Dialog
    BY DEF Dialog
  <2>2. QED
    BY <2>1, SelectionRestarts DEF Sound
<1>4. QED
  BY <1>1, <1>2, <1>3

LEMMA InitSite == Init => SiteInv
<1> SUFFICES ASSUME Init PROVE SiteInv
  OBVIOUS
<1>1. dialog = [m \in Mounts |-> Fresh] /\ Sound(Fresh)
  BY DialogsStaySound DEF Init
<1>2. dialog \in [Mounts -> Dialog] /\ \A m \in Mounts : Sound(dialog[m])
  BY <1>1 DEF Sound
<1>3. QED
  BY <1>1, <1>2 DEF Init, SiteInv, Mounts

LEMMA SelectKeepsSite ==
  ASSUME SiteInv, NEW m \in Mounts, IsOpen(m),
         NEW index \in 0..(Len(results(m)) - 1), Select(m, index)
  PROVE  SiteInv'
<1>1. dialog \in [Mounts -> Dialog] /\ \A n \in Mounts : Sound(dialog[n])
  BY DEF SiteInv
<1>2. Len(results(m)) \in 0..12
  BY <1>1, ResultsAreCatalogued DEF Dialog, results
<1>3. index \in 0..11
  <2>1. \A n \in 0..12 : \A k \in 0..(n - 1) : k \in 0..11
    OBVIOUS
  <2>2. QED
    BY <1>2, <2>1
<1>4. [dialog[m] EXCEPT !.selected = index] \in Dialog
  BY <1>1, <1>3 DEF Dialog
<1>5. Sound([dialog[m] EXCEPT !.selected = index])
  BY <1>1, <1>4 DEF Sound, Dialog, results
<1>6. dialog' = [dialog EXCEPT ![m] = [dialog[m] EXCEPT !.selected = index]]
  BY <1>1 DEF Select
<1>7. /\ dialog' \in [Mounts -> Dialog] /\ \A n \in Mounts : Sound(dialog'[n])
  BY <1>1, <1>4, <1>5, <1>6
<1>8. m = "menu" => menuOpen
  BY DEF SiteInv, IsOpen, Fresh
<1>9. ~menuOpen => dialog'["menu"] = Fresh
  BY <1>1, <1>6, <1>8 DEF SiteInv, Mounts
<1>10. QED
  BY <1>7, <1>9 DEF Select, SiteInv

\* A link, a result or an arrow leads to a page of the export, and the dialogs keep
\* their states unless they are unmounted.
LEMMA NavigateKeepsSite ==
  ASSUME SiteInv, NEW target \in Served, NEW shown \in [Mounts -> Dialog],
         \A m \in Mounts : Sound(shown[m]), ~menuOpen => shown["menu"] = Fresh,
         NEW locked \in BOOLEAN, Navigate(target, shown, locked)
  PROVE  SiteInv'
<1>1. pathname' \in Served /\ menuOpen' \in BOOLEAN /\ dialogClass' \in BOOLEAN
  BY DEF SiteInv, Navigate, PageAt
<1>2. dialog' \in [Mounts -> Dialog] /\ \A m \in Mounts : Sound(dialog'[m])
  BY DialogsStaySound DEF Navigate, Sound
<1>3. ~menuOpen' => dialog'["menu"] = Fresh
  BY DEF SiteInv, Navigate, Mounts
<1>4. QED
  BY <1>1, <1>2, <1>3 DEF SiteInv

LEMMA SiteKept == SiteInv /\ [Next]_vars => SiteInv'
<1> SUFFICES ASSUME SiteInv, [Next]_vars PROVE SiteInv'
  OBVIOUS
<1>1. /\ pathname \in Served /\ menuOpen \in BOOLEAN /\ dialogClass \in BOOLEAN
      /\ dialog \in [Mounts -> Dialog] /\ \A m \in Mounts : Sound(dialog[m])
      /\ ~menuOpen => dialog["menu"] = Fresh
      /\ \A m \in Mounts : IsOpen(m) => m \in Mounted
  BY DEF SiteInv, IsOpen, Mounted, Mounts, Fresh
<1>2. ASSUME NEW m \in Mounts
      PROVE  /\ Len(results(m)) \in 0..12
             /\ \A k \in 1..Len(results(m)) : results(m)[k] \in Served
  BY <1>1, ResultsAreCatalogued DEF Dialog, results, Served, generateStaticParams
<1>3. ASSUME NEW m \in Mounts, NEW d, Sound(d), m \in Mounted,
             dialog' = [dialog EXCEPT ![m] = d], UNCHANGED <<pathname, menuOpen>>,
             dialogClass' \in BOOLEAN
      PROVE  SiteInv'
  <2>1. dialog' \in [Mounts -> Dialog] /\ \A n \in Mounts : Sound(dialog'[n])
    BY <1>1, <1>3 DEF Sound
  <2>2. ~menuOpen' => dialog'["menu"] = Fresh
    BY <1>1, <1>3 DEF Mounted, Mounts
  <2>3. QED
    BY <1>1, <1>3, <2>1, <2>2 DEF SiteInv
<1>4. ASSUME NEW m \in Mounts, OpenDialog(m) PROVE SiteInv'
  <2>1. Sound(SetOpen(dialog[m], TRUE))
    BY <1>1, DialogsStaySound
  <2>2. QED
    BY <1>3, <1>4, <2>1 DEF OpenDialog
<1>5. ASSUME NEW m \in Mounts, Close(m) PROVE SiteInv'
  <2>1. dialogClass' \in BOOLEAN
    BY <1>5 DEF Close, Unlock
  <2>2. QED
    BY <1>1, <1>3, <1>5, <2>1, DialogsStaySound DEF Close
<1>6. ASSUME NEW m \in Mounts, NEW q \in Queries, Type(m, q) PROVE SiteInv'
  <2>1. Sound(RestartSelection([dialog[m] EXCEPT !.query = q]))
    BY <1>1, DialogsStaySound
  <2>2. QED
    BY <1>1, <1>3, <1>6, <2>1 DEF Type
<1>7. ASSUME NEW m \in Mounts, NEW step \in {-1, 1}, Arrow(m, step) PROVE SiteInv'
  <2>1. dialog[m].selected \in Int /\ Len(results(m)) \in 0..12
    BY <1>1, <1>2 DEF Dialog
  <2>2. results(m) # <<>> => Len(results(m)) > 0
    BY <1>1, <1>2, ResultsAreCatalogued DEF Dialog, results
  <2>3. \A n \in 1..12, k \in Int : k % n \in 0..(n - 1)
    OBVIOUS
  <2>4. (dialog[m].selected + step) % Len(results(m)) \in 0..(Len(results(m)) - 1)
    BY <1>7, <2>1, <2>2, <2>3 DEF Arrow
  <2>5. QED
    BY <1>7, <2>4, SelectKeepsSite DEF Arrow
<1>8. ASSUME NEW m \in Mounts, NEW index \in 0..11, PointAt(m, index) PROVE SiteInv'
  BY <1>8, SelectKeepsSite DEF PointAt
<1>9. ASSUME NEW m \in Mounts, NEW index \in 0..11, OpenResult(m, index) PROVE SiteInv'
  <2>1. results(m)[index + 1] \in Served
    <3>1. Len(results(m)) \in 0..12 /\ index \in 0..(Len(results(m)) - 1)
      BY <1>2, <1>9 DEF OpenResult
    <3>2. index + 1 \in 1..Len(results(m))
      BY <3>1
    <3>3. QED
      BY <1>2, <3>2
  <2> DEFINE shown == [dialog EXCEPT ![m] = Fresh]
  <2>2. /\ shown \in [Mounts -> Dialog] /\ \A n \in Mounts : Sound(shown[n])
        /\ ~menuOpen => shown["menu"] = Fresh
    BY <1>1, DialogsStaySound DEF Sound, Mounts
  <2>3. Navigate(results(m)[index + 1], shown, FALSE)
    BY <1>9 DEF OpenResult
  <2> HIDE DEF shown
  <2>4. QED
    BY <2>1, <2>2, <2>3, NavigateKeepsSite
<1>10. ASSUME SearchKey PROVE SiteInv'
  <2>1. dialog' \in [Mounts -> Dialog] /\ \A m \in Mounts : Sound(dialog'[m])
    <3>1. \A m \in Mounts : Sound(SetOpen(dialog[m], ~IsOpen(m)))
      BY <1>1, DialogsStaySound DEF IsOpen, Dialog
    <3>2. QED
      BY <1>1, <1>10, <3>1 DEF SearchKey, Sound
  <2>2. ~menuOpen => dialog'["menu"] = Fresh
    BY <1>1, <1>10 DEF SearchKey, Mounts, Mounted
  <2>3. QED
    BY <1>1, <1>10, <2>1, <2>2 DEF SiteInv, SearchKey
<1>11. ASSUME EscapeKey PROVE SiteInv'
  <2>1. dialog' \in [Mounts -> Dialog] /\ \A m \in Mounts : Sound(dialog'[m])
    <3>1. \A m \in Mounts : Sound(SetOpen(dialog[m], FALSE))
      BY <1>1, DialogsStaySound
    <3>2. QED
      BY <1>11, <3>1 DEF EscapeKey, Sound
  <2>2. ~menuOpen => dialog'["menu"] = Fresh
    <3>1. SetOpen(Fresh, FALSE) = Fresh
      <4>1. Fresh \in Dialog /\ Fresh.open = FALSE /\ Fresh.selected = 0
        BY DialogsStaySound DEF Sound, Fresh
      <4>2. /\ SetOpen(Fresh, FALSE) \in Dialog /\ SetOpen(Fresh, FALSE).open = FALSE
            /\ SetOpen(Fresh, FALSE).query = Fresh.query
            /\ SetOpen(Fresh, FALSE).selected = 0
        BY <4>1, DialogSet, Zenon
      <4>3. QED
        BY <4>1, <4>2, SameDialog, Zenon
    <3>2. QED
      BY <1>1, <1>11, <3>1 DEF EscapeKey, Mounts
  <2>3. QED
    BY <1>1, <1>11, <2>1, <2>2 DEF SiteInv, EscapeKey
<1>12. ASSUME FollowLink PROVE SiteInv'
  <2>1. PICK target \in LinksOf[pathname] : Navigate(target, dialog, dialogClass)
    BY <1>12 DEF FollowLink
  <2>2. target \in Served
    BY <1>1, LinksAreServed
  <2>3. QED
    BY <1>1, <2>1, <2>2, NavigateKeepsSite
<1>13. ASSUME ToggleMenu PROVE SiteInv'
  <2>1. dialog' \in [Mounts -> Dialog] /\ \A m \in Mounts : Sound(dialog'[m])
    BY <1>1, <1>13, DialogsStaySound DEF ToggleMenu, Sound
  <2>2. dialog'["menu"] = Fresh /\ dialogClass' \in BOOLEAN /\ menuOpen' \in BOOLEAN
    BY <1>1, <1>13 DEF ToggleMenu, Unlock, Mounts
  <2>3. QED
    BY <1>1, <1>13, <2>1, <2>2 DEF SiteInv, ToggleMenu
<1>14. CASE UNCHANGED vars
  BY <1>1, <1>14 DEF SiteInv, vars
<1>15. ASSUME NEW m \in Mounts, EnterKey(m) PROVE SiteInv'
  <2>1. dialog[m].selected \in 0..11
    BY <1>1 DEF Dialog
  <2>2. QED
    BY <1>9, <1>15, <2>1 DEF EnterKey
<1>16. QED
  BY <1>4, <1>5, <1>6, <1>7, <1>8, <1>9, <1>10, <1>11, <1>12, <1>13, <1>14, <1>15
  DEF Next, ArrowDown, ArrowUp, ClickResult

\* Whatever is typed, pointed at or toggled, the highlighted result of a dialog is one
\* of its results, and a dialog that is not mounted has no state
\* (search-dialog.tsx, selectedIndex and results).
THEOREM SiteTypeCorrect == Spec => []TypeOK
<1>1. SiteInv => TypeOK
  BY DEF SiteInv, TypeOK, Sound, Dialog, results
<1>2. QED
  BY InitSite, SiteKept, <1>1, PTL DEF Spec

\* No link, result or arrow leads to a page the export did not write, whatever is
\* searched for and wherever it occurs, and the arrows follow the sidebar
\* (lib/docs.ts, docs and docCategories; the links written by hand in the pages).
THEOREM NavigationStaysSound == Spec => []NavigationIsSound
<1>1. SiteInv => NavigationIsSound
  BY Addresses, ArrowsFollowSidebar
  DEF SiteInv, NavigationIsSound, NoDeadLinks, Served, generateStaticParams,
      Home, Overview, NotFound
<1>2. QED
  BY InitSite, SiteKept, <1>1, PTL DEF Spec

================================================================================
