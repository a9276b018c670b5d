----------------------------- MODULE NatsTransports -----------------------------
(***************************************************************************)
(* The connections of NatsMessageBus and NatsJetStreamJobQueue and what is *)
(* open on them: subscriptions, which pause their stream at the            *)
(* concurrency limit, and workers, which fetch one job after the other.    *)
(* connect and close of the two classes have the same steps, so one        *)
(* definition stands for both where they agree.                            *)
(*                                                                         *)
(* Every await of the code is a point where other calls go on.  What a     *)
(* handler does, and how it ends, makes no difference here; a hung one     *)
(* never ends.  JetStreamJobs models what happens to a job.                *)
(***************************************************************************)
EXTENDS Naturals, FiniteSets

CONSTANTS
  Subs,          \* subscriptions, each opened once
  Workers,       \* workers, each opened once
  Concurrency,   \* of a subscription
  MaxInbox,      \* bound on the messages in a stream
  MaxFaults      \* bound on failing calls and hanging handlers

ASSUME NatsTransportsAssumption ==
  /\ IsFiniteSet(Subs) /\ IsFiniteSet(Workers)
  /\ Subs \cap Workers = {}
  /\ Concurrency \in Nat \ {0}
  /\ MaxInbox \in Nat
  /\ MaxFaults \in Nat

VARIABLES
  link,          \* per transport: the client is "up" or "down"; "leaving" when
                 \* it is up and the queue's close has cleared _connected
  closing,       \* per transport: _closing
  listed,        \* _subscriptions and _workers of the transports
  at,            \* per handle: "creating" while the consumer of a worker is created
  inbox,         \* per subscription: messages in its stream
  paused,        \* subscriptions whose stream is paused
  active,        \* per handle: handlers that run
  hung,          \* per handle: those of them that never end
  gaveUp,        \* handles whose close timed out, or the wait for it
  faults

Transports == {"bus", "queue"}
Handles    == Subs \cup Workers

HandlesOf(t) == IF t = "bus" THEN Subs ELSE Workers

linkVars   == <<link, closing>>
streamVars == <<inbox, paused>>
workVars   == <<active, hung>>
handleVars == <<listed, at, gaveUp>>
natsVars   == <<linkVars, streamVars, workVars, handleVars, faults>>

\* A paused stream always has a handler behind it that resumes it, and a handler
\* more than the concurrency allows runs at the most: the limit is looked at when
\* a message is there already, which is run all the same.
NatsTypeOK ==
  /\ link \in [Transports -> {"down", "up", "leaving"}]
  /\ link["bus"] # "leaving"
  /\ closing \in [Transports -> BOOLEAN]
  /\ listed \subseteq Handles
  /\ at \in [Handles -> {"unused", "creating", "open", "closing", "closed"}]
  /\ inbox \in [Subs -> 0..MaxInbox]
  /\ paused \subseteq {s \in Subs : at[s] = "open" /\ active[s] >= Concurrency}
  /\ active \in [Handles -> Nat]
  /\ \A s \in Subs : active[s] <= Concurrency + 1
  /\ \A w \in Workers : active[w] <= 1
  /\ hung \in [Handles -> Nat]
  /\ \A h \in Handles : hung[h] <= active[h]
  /\ gaveUp \subseteq Handles
  /\ faults \in 0..MaxFaults

NatsInit ==
  /\ link = [t \in Transports |-> "down"]
  /\ closing = [t \in Transports |-> FALSE]
  /\ listed = {}
  /\ at = [h \in Handles |-> "unused"]
  /\ inbox = [s \in Subs |-> 0]
  /\ paused = {}
  /\ active = [h \in Handles |-> 0]
  /\ hung = [h \in Handles |-> 0]
  /\ gaveUp = {}
  /\ faults = 0

Fault == faults < MaxFaults /\ faults' = faults + 1

--------------------------------------------------------------------------------
(* Handlers. *)

\* A message comes in on the stream of an open subscription.
Arrive(s) ==
  /\ link["bus"] = "up"
  /\ at[s] = "open"
  /\ inbox[s] < MaxInbox
  /\ inbox' = [inbox EXCEPT ![s] = @ + 1]
  /\ UNCHANGED <<linkVars, handleVars, workVars, paused, faults>>

\* The listener gets the next message: it pauses the stream when the limit was
\* reached before, and runs the handler in any case.
Take(s) ==
  /\ at[s] = "open"
  /\ s \notin paused
  /\ inbox[s] > 0
  /\ inbox' = [inbox EXCEPT ![s] = @ - 1]
  /\ active' = [active EXCEPT ![s] = @ + 1]
  /\ paused' = IF active[s] >= Concurrency THEN paused \cup {s} ELSE paused
  /\ UNCHANGED <<linkVars, handleVars, hung, faults>>

\* A worker's fetch brings a job; on a lost connection it throws and is repeated.
Fetch(w) ==
  /\ link["queue"] # "down"
  /\ at[w] = "open"
  /\ active[w] = 0
  /\ active' = [active EXCEPT ![w] = 1]
  /\ UNCHANGED <<linkVars, handleVars, hung, inbox, paused, faults>>

\* Mutant: the handler that ends is counted among those that run.
Resumes_StillCounted(h) == at[h] = "open" /\ active[h] < Concurrency

\* Without the handler that ends, there is room for another one.
Resumes(h) == at[h] = "open" /\ active[h] <= Concurrency

\* A handler returns or throws.
HandlerEnds(h) ==
  /\ active[h] > hung[h]
  /\ active' = [active EXCEPT ![h] = @ - 1]
  /\ paused' = IF Resumes(h) THEN paused \ {h} ELSE paused
  /\ UNCHANGED <<linkVars, handleVars, hung, inbox, faults>>

HandlerHangs(h) ==
  /\ Fault
  /\ active[h] > hung[h]
  /\ hung' = [hung EXCEPT ![h] = @ + 1]
  /\ UNCHANGED <<linkVars, handleVars, streamVars, active>>

--------------------------------------------------------------------------------
(* close of a subscription and of a worker. *)

\* close() of the open handles of hs: _closed is set and the stream cancelled,
\* with the messages it still holds.
BeginClose(hs) ==
  LET opened == {h \in hs : at[h] = "open"} IN
  /\ at' = [h \in Handles |-> IF h \in opened THEN "closing" ELSE at[h]]
  /\ inbox' = [s \in Subs |-> IF s \in opened THEN 0 ELSE inbox[s]]
  /\ paused' = paused \ opened

\* No handler runs any more: close returns, after onClose.
Closed(h) ==
  /\ at[h] = "closing"
  /\ active[h] = 0
  /\ at' = [at EXCEPT ![h] = "closed"]
  /\ listed' = listed \ {h}
  /\ UNCHANGED <<linkVars, streamVars, workVars, gaveUp, faults>>

\* Mutant: no timeout.
CloseTimesOut_Never(s) == s \notin Subs /\ UNCHANGED natsVars

\* close of a subscription waits for shutdownTimeout and throws; that of a worker
\* waits for its tasks as long as they take.
CloseTimesOut(s) ==
  /\ at[s] = "closing"
  /\ active[s] > 0
  /\ at' = [at EXCEPT ![s] = "closed"]
  /\ gaveUp' = gaveUp \cup {s}
  /\ UNCHANGED <<linkVars, streamVars, workVars, listed, faults>>

--------------------------------------------------------------------------------
(* Connections. *)

Available(t) == link[t] = "up" /\ ~closing[t]

\* connect clears _closing at once, also when a close is under way.
BeginConnect(t) ==
  /\ closing' = [closing EXCEPT ![t] = FALSE]
  /\ UNCHANGED <<link, streamVars, workVars, handleVars>>

Connected(t) ==
  /\ link' = [link EXCEPT ![t] = "up"]
  /\ UNCHANGED <<closing, streamVars, workVars, handleVars>>

\* A failing connect of the queue closes its adapter.
ConnectThrows(t) ==
  /\ Fault
  /\ \/ link' = [link EXCEPT ![t] = "down"]
     \/ t = "bus" /\ UNCHANGED link
  /\ UNCHANGED <<closing, streamVars, workVars, handleVars>>

\* close: no new calls, and every listed handle is closed.
BeginShutdown(t) ==
  /\ closing' = [closing EXCEPT ![t] = TRUE]
  /\ link' = IF t = "queue" /\ link[t] = "up" THEN [link EXCEPT ![t] = "leaving"] ELSE link
  /\ BeginClose(listed \cap HandlesOf(t))
  /\ UNCHANGED <<workVars, listed, gaveUp>>

\* The list is cleared when every close succeeded, and left when one threw.
Unlist(t, all) ==
  /\ listed' = IF all THEN listed \ HandlesOf(t) ELSE listed
  /\ UNCHANGED <<linkVars, streamVars, workVars, at, gaveUp>>

\* The timeout of the transport's close passes while it waits for hs.
GiveUp(hs) ==
  /\ gaveUp' = gaveUp \cup {h \in hs : at[h] # "closed"}
  /\ UNCHANGED <<linkVars, streamVars, workVars, listed, at>>

\* The finally block: whatever threw before it, the adapter is closed.
Disconnect(t) ==
  /\ link' = [link EXCEPT ![t] = "down"]
  /\ closing' = [closing EXCEPT ![t] = FALSE]
  /\ UNCHANGED <<streamVars, workVars, handleVars>>

================================================================================
