--------------------------- MODULE ServerpodMessaging ---------------------------
(***************************************************************************)
(* ServerpodMessaging over NatsMessageBus and NatsJetStreamJobQueue: start *)
(* and stop, called by any number of callers at any time, and the          *)
(* subscriptions and workers registered in between.                        *)
(*                                                                         *)
(* start and stop keep no other caller out: _started is set at the end of  *)
(* the one and cleared at the beginning of the other.                      *)
(***************************************************************************)
EXTENDS NatsTransports

CONSTANTS
  Callers,       \* numbered; a new call is that of the first caller without one
  MaxCalls       \* bound on calls of start and stop

ASSUME ServerpodMessagingAssumption ==
  /\ IsFiniteSet(Callers) /\ Callers \subseteq Nat
  /\ MaxCalls \in Nat

VARIABLES
  started,       \* _started
  kept,          \* _subscriptions and _workers of ServerpodMessaging
  call,          \* per caller: the call it is in
  pc,            \* per caller: the step of the call, and the transport it is about
  todo,          \* per caller: handles its stop still has to close
  wait,          \* per caller: handles it waits for
  failed,        \* callers whose call throws in the end
  calls,
  tangled,       \* history: two calls overlapped once
  clean,         \* history: a stop returned, no two calls ever overlapped, and none came since
  strays         \* history: workers that came into being when nothing was started

callVars      == <<call, pc, todo, wait, failed, calls>>
history       == <<tangled, clean, strays>>
messagingVars == <<natsVars, started, kept, callVars, history>>

Idle == <<"idle", "bus">>
Steps == {"idle", "connect", "each", "closing", "close", "await", "drop"}

MessagingTypeOK ==
  /\ NatsTypeOK
  /\ started \in BOOLEAN
  /\ kept \subseteq Handles
  /\ call \in [Callers -> {"none", "start", "stop"}]
  /\ pc \in [Callers -> Steps \X Transports]
  /\ \A o \in Callers : call[o] = "none" <=> pc[o] = Idle
  /\ todo \in [Callers -> SUBSET Handles]
  /\ wait \in [Callers -> SUBSET Handles]
  /\ failed \subseteq Callers
  /\ calls \in 0..MaxCalls
  /\ tangled \in BOOLEAN
  /\ clean \in BOOLEAN
  /\ strays \subseteq Workers

MessagingInit ==
  /\ NatsInit
  /\ started = FALSE
  /\ kept = {}
  /\ call = [o \in Callers |-> "none"]
  /\ pc = [o \in Callers |-> Idle]
  /\ todo = [o \in Callers |-> {}]
  /\ wait = [o \in Callers |-> {}]
  /\ failed = {}
  /\ calls = 0
  /\ tangled = FALSE
  /\ clean = FALSE
  /\ strays = {}

--------------------------------------------------------------------------------
GoTo(o, step, t) == pc' = [pc EXCEPT ![o] = <<step, t>>]

Begin(o, kind) ==
  LET others == {p \in Callers : call[p] # "none"} IN
  /\ call[o] = "none"
  /\ \A p \in Callers : p < o => p \in others
  /\ calls < MaxCalls
  /\ calls' = calls + 1
  /\ call' = [call EXCEPT ![o] = kind]
  /\ failed' = failed \ {o}
  /\ tangled' = (tangled \/ others # {})
  /\ clean' = FALSE
  /\ UNCHANGED strays

Return(o) ==
  /\ call' = [call EXCEPT ![o] = "none"]
  /\ pc' = [pc EXCEPT ![o] = Idle]

Throws(o) == failed' = failed \cup {o}

Keeps(o) == UNCHANGED <<started, kept, call, todo, calls, history>>

--------------------------------------------------------------------------------
(* start. *)

\* bus.connect, unless started.
StartBegins(o) ==
  /\ ~started
  /\ Begin(o, "start")
  /\ GoTo(o, "connect", "bus")
  /\ BeginConnect("bus")
  /\ UNCHANGED <<faults, started, kept, todo, wait>>

BusConnected(o) ==
  /\ pc[o] = <<"connect", "bus">>
  /\ link' = [link EXCEPT !["bus"] = "up"]
  /\ closing' = [closing EXCEPT !["queue"] = FALSE]
  /\ GoTo(o, "connect", "queue")
  /\ UNCHANGED <<streamVars, workVars, handleVars, faults, wait, failed>>
  /\ Keeps(o)

BusConnectThrows(o) ==
  /\ pc[o] = <<"connect", "bus">>
  /\ ConnectThrows("bus")
  /\ Throws(o)
  /\ Return(o)
  /\ UNCHANGED <<started, kept, todo, wait, calls, history>>

QueueConnected(o) ==
  /\ pc[o] = <<"connect", "queue">>
  /\ Connected("queue")
  /\ started' = TRUE
  /\ Return(o)
  /\ UNCHANGED <<faults, kept, todo, wait, failed, calls, history>>

\* Mutant: the error goes to the caller, the bus stays connected.
QueueConnectThrows_LeavesBus(o) ==
  /\ pc[o] = <<"connect", "queue">>
  /\ ConnectThrows("queue")
  /\ Throws(o)
  /\ Return(o)
  /\ UNCHANGED <<started, kept, todo, wait, calls, history>>

\* The catch block closes the bus.
QueueConnectThrows(o) ==
  /\ pc[o] = <<"connect", "queue">>
  /\ ConnectThrows("queue")
  /\ Throws(o)
  /\ GoTo(o, "close", "bus")
  /\ UNCHANGED wait
  /\ Keeps(o)

--------------------------------------------------------------------------------
(* close of a transport, within start or stop. *)

\* The bus is the last one to be closed.
After(o, t) ==
  IF t = "queue"
    THEN GoTo(o, "close", "bus") /\ UNCHANGED <<started, kept, call, todo, calls, history>>
    ELSE /\ Return(o)
         /\ clean' = (clean \/ (call[o] = "stop" /\ o \notin failed' /\ ~tangled))
         /\ UNCHANGED <<started, kept, todo, calls, tangled, strays>>

\* A close that is under way makes this one return at once.
CloseSkipped(o, t) ==
  /\ pc[o] = <<"close", t>>
  /\ closing[t]
  /\ UNCHANGED <<natsVars, wait, failed>>
  /\ After(o, t)

\* It waits for the handles it closes itself: a second close returns at once.
CloseTransport(o, t) ==
  /\ pc[o] = <<"close", t>>
  /\ ~closing[t]
  /\ wait' = [wait EXCEPT ![o] = {h \in listed \cap HandlesOf(t) : at[h] = "open"}]
  /\ BeginShutdown(t)
  /\ GoTo(o, "await", t)
  /\ UNCHANGED <<faults, failed>>
  /\ Keeps(o)

\* All closes ended; one that timed out throws.
HandlesClosed(o, t) ==
  /\ pc[o] = <<"await", t>>
  /\ \A h \in wait[o] : at[h] = "closed"
  /\ Unlist(t, wait[o] \cap gaveUp = {})
  /\ failed' = IF wait[o] \cap gaveUp = {} THEN failed ELSE failed \cup {o}
  /\ GoTo(o, "drop", t)
  /\ wait' = [wait EXCEPT ![o] = {}]
  /\ UNCHANGED faults
  /\ Keeps(o)

\* The timeout of the transport's close passes first.
HandlesLate(o, t) ==
  /\ pc[o] = <<"await", t>>
  /\ \E h \in wait[o] : at[h] # "closed"
  /\ GiveUp(wait[o])
  /\ Throws(o)
  /\ GoTo(o, "drop", t)
  /\ wait' = [wait EXCEPT ![o] = {}]
  /\ UNCHANGED faults
  /\ Keeps(o)

\* drain and close of the adapter; either may throw.
TransportClosed(o, t) ==
  /\ pc[o] = <<"drop", t>>
  /\ \/ UNCHANGED <<faults, failed>>
     \/ Fault /\ Throws(o)
  /\ Disconnect(t)
  /\ After(o, t)
  /\ UNCHANGED wait

--------------------------------------------------------------------------------
(* stop. *)

\* Nothing happens when neither started nor anything is kept.
StopBegins(o) ==
  /\ started \/ kept # {}
  /\ Begin(o, "stop")
  /\ started' = FALSE
  /\ todo' = [todo EXCEPT ![o] = kept \cap Workers]
  /\ GoTo(o, "each", "queue")
  /\ UNCHANGED <<natsVars, kept, wait>>

\* The next handle is closed; a second close of it returns at once.
CloseNext(o, h) ==
  /\ pc[o][1] = "each"
  /\ h \in todo[o]
  /\ todo' = [todo EXCEPT ![o] = @ \ {h}]
  /\ wait' = [wait EXCEPT ![o] = IF at[h] = "open" THEN {h} ELSE {}]
  /\ BeginClose({h})
  /\ GoTo(o, "closing", pc[o][2])
  /\ UNCHANGED <<linkVars, workVars, listed, gaveUp, faults>>
  /\ UNCHANGED <<started, kept, call, failed, calls, history>>

\* Mutant: the close of the handle is not awaited.
OneClosed_NoWait(o) ==
  /\ pc[o][1] = "closing"
  /\ GoTo(o, "each", pc[o][2])
  /\ wait' = [wait EXCEPT ![o] = {}]
  /\ UNCHANGED <<natsVars, failed>>
  /\ Keeps(o)

\* It is closed, or its close threw; stop goes on with the next in any case.
OneClosed(o) ==
  /\ pc[o][1] = "closing"
  /\ \A h \in wait[o] : at[h] = "closed"
  /\ failed' = IF wait[o] \cap gaveUp # {} THEN failed \cup {o} ELSE failed
  /\ GoTo(o, "each", pc[o][2])
  /\ wait' = [wait EXCEPT ![o] = {}]
  /\ UNCHANGED natsVars
  /\ Keeps(o)

\* Workers first, then subscriptions, then the queue and the bus.
EachClosed(o) ==
  /\ pc[o][1] = "each"
  /\ todo[o] = {}
  /\ kept' = kept \ HandlesOf(pc[o][2])
  /\ IF pc[o][2] = "queue"
       THEN GoTo(o, "each", "bus") /\ todo' = [todo EXCEPT ![o] = kept \cap Subs]
       ELSE GoTo(o, "close", "queue") /\ UNCHANGED todo
  /\ UNCHANGED <<natsVars, started, call, wait, failed, calls, history>>

--------------------------------------------------------------------------------
(* subscribe and worker. *)

Subscribe(s) ==
  /\ at[s] = "unused"
  /\ Available("bus")
  /\ at' = [at EXCEPT ![s] = "open"]
  /\ listed' = listed \cup {s}
  /\ kept' = kept \cup {s}
  /\ UNCHANGED <<linkVars, streamVars, workVars, gaveUp, faults, started, callVars, history>>

\* worker looks at the connection, then awaits the creation of its consumer.
WorkerBegins(w) ==
  /\ at[w] = "unused"
  /\ Available("queue")
  /\ at' = [at EXCEPT ![w] = "creating"]
  /\ UNCHANGED <<linkVars, streamVars, workVars, listed, gaveUp, faults, started, kept, callVars, history>>

\* The worker starts whatever became of the queue in the meantime.
WorkerStarts(w) ==
  /\ at[w] = "creating"
  /\ link["queue"] # "down"
  /\ at' = [at EXCEPT ![w] = "open"]
  /\ listed' = listed \cup {w}
  /\ kept' = kept \cup {w}
  /\ strays' = IF started THEN strays ELSE strays \cup {w}
  /\ UNCHANGED <<linkVars, streamVars, workVars, gaveUp, faults, started, callVars, tangled, clean>>

WorkerThrows(w) ==
  /\ at[w] = "creating"
  /\ link["queue"] = "down"
  /\ at' = [at EXCEPT ![w] = "closed"]
  /\ UNCHANGED <<linkVars, streamVars, workVars, listed, gaveUp, faults, started, kept, callVars, history>>

--------------------------------------------------------------------------------
Outside == UNCHANGED <<started, kept, callVars, history>>

Start(o) ==
  \/ BusConnected(o)
  \/ BusConnectThrows(o)
  \/ QueueConnected(o)
  \/ QueueConnectThrows(o)

Shutdown(o, t) ==
  \/ CloseSkipped(o, t)
  \/ CloseTransport(o, t)
  \/ HandlesClosed(o, t)
  \/ HandlesLate(o, t)
  \/ TransportClosed(o, t)

Stop(o) ==
  \/ \E h \in Handles : CloseNext(o, h)
  \/ OneClosed(o)
  \/ EachClosed(o)

Call(o) ==
  \/ Start(o)
  \/ Stop(o)
  \/ \E t \in Transports : Shutdown(o, t)

Handle ==
  \/ \E s \in Subs : Arrive(s) \/ Take(s) \/ CloseTimesOut(s)
  \/ \E w \in Workers : Fetch(w)
  \/ \E h \in Handles : HandlerEnds(h) \/ HandlerHangs(h) \/ Closed(h)

MessagingNext ==
  \/ \E o \in Callers : StartBegins(o) \/ StopBegins(o) \/ Call(o)
  \/ \E s \in Subs : Subscribe(s)
  \/ \E w \in Workers : WorkerBegins(w) \/ WorkerStarts(w) \/ WorkerThrows(w)
  \/ Handle /\ Outside

\* A call goes on while it can, timeouts fire, and handlers end unless they hang.
MessagingFairness ==
  /\ \A o \in Callers : WF_messagingVars(Call(o))
  /\ \A h \in Handles : WF_messagingVars(Closed(h) /\ Outside) /\ WF_messagingVars(HandlerEnds(h) /\ Outside)
  /\ \A s \in Subs : WF_messagingVars(CloseTimesOut(s) /\ Outside)

MessagingSpec == MessagingInit /\ [][MessagingNext]_messagingVars

FairMessagingSpec == MessagingSpec /\ MessagingFairness

--------------------------------------------------------------------------------
(* Properties. *)

\* Between calls, both transports are connected when messaging is started and
\* neither is otherwise, whatever threw on the way, as long as no two calls of
\* start and stop overlapped.
ConnectedIffStarted ==
  (~tangled /\ \A o \in Callers : call[o] = "none")
    => \A t \in Transports : link[t] = "up" <=> started

\* After a stop that did not throw, when no two calls ever overlapped, nothing is
\* open and no handler runs, but for handles an earlier stop had given up waiting
\* for, and workers whose creation was under way at the time.
StoppedIsQuiet ==
  clean =>
    /\ \A t \in Transports : link[t] = "down" /\ ~closing[t]
    /\ \A h \in Handles \ (gaveUp \cup strays) :
         at[h] \in {"unused", "creating", "closed"} /\ active[h] = 0

\* What start and stop report is what became of the two transports and of the handles
\* on them, whichever call of theirs throws or times out.
LifecycleHolds == ConnectedIffStarted /\ StoppedIsQuiet

\* stop returns or throws; only a worker whose handler never ends holds it up, for
\* worker.close() has no deadline, and the timeout of stop does not reach it.
StopReturns ==
  \A o \in Callers : call[o] = "stop" ~> call[o] = "none" \/ \E w \in Workers : hung[w] > 0

================================================================================
