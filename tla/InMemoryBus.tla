------------------------------ MODULE InMemoryBus ------------------------------
(***************************************************************************)
(* InMemoryMessageBus (podbus_core): publications to the subscriptions of  *)
(* one subject, the concurrency gate of each subscription, and the drain   *)
(* of Subscription.close and MessageBus.close.                             *)
(*                                                                         *)
(* Code between two awaits is one step.  The await that matters is the one *)
(* inside _ConcurrencyGate._acquire: a released waiter goes on in a later  *)
(* microtask, and other callbacks run before it.                           *)
(***************************************************************************)
EXTENDS Naturals, Sequences, FiniteSets

CONSTANTS
  Messages,    \* publish calls
  Direct,      \* subscriptions without a queue group
  Grouped,     \* the members of one queue group
  NoSub,
  Limit,       \* concurrency of a subscription
  MaxFaults,   \* bound on handlers that throw
  MaxCloses    \* bound on calls of MessageBus.close

Subs == Direct \cup Grouped

ASSUME BusAssumption ==
  /\ IsFiniteSet(Messages)
  /\ Direct \cap Grouped = {} /\ NoSub \notin Subs
  /\ Limit \in Nat \ {0}
  /\ MaxFaults \in Nat
  /\ MaxCloses \in Nat

VARIABLES
  connected, closing,   \* the two flags of the bus
  sub,        \* "new", "open", "draining" (its close() waits), "closed", or "orphaned":
              \* open, but no longer in _subscriptions
  running,    \* per gate: _running
  waiters,    \* per gate: the queue of completers
  stage,      \* [Messages -> [Subs -> where the delivery is]], until publish ends
  publisher,  \* publish(m): "new", "pending", "returned" or "threw"
  closer,     \* close(): "none", "subs", "wait", "closed", "failed" or "timeout"
  toClose,    \* close(): the subscriptions it has not closed yet
  current,    \* close(): the subscription it drains, or NoSub
  awaited,    \* close(): the deliveries it found under way
  spoiled,    \* close(): a handler it waits for threw
  faults, closes

busVars  == <<connected, closing, closer, toClose, current, awaited, closes>>
gateVars == <<running, waiters, stage>>
vars     == <<busVars, gateVars, sub, publisher, spoiled, faults>>

Ended == {"done", "failed"}

Stage == {"none", "waiting", "granted", "handler"} \cup Ended

Handlers(s) == {m \in Messages : stage[m][s] = "handler"}
Granted(s)  == {m \in Messages : stage[m][s] = "granted"}
Closed(s)   == sub[s] \in {"draining", "closed"}

TypeOK ==
  /\ connected \in BOOLEAN /\ closing \in BOOLEAN
  /\ sub \in [Subs -> {"new", "open", "draining", "closed", "orphaned"}]
  /\ running \in [Subs -> Nat]
  /\ waiters \in [Subs -> Seq(Messages)]
  /\ stage \in [Messages -> [Subs -> Stage]]
  /\ publisher \in [Messages -> {"new", "pending", "returned", "threw"}]
  /\ closer \in {"none", "subs", "wait", "closed", "failed", "timeout"}
  /\ toClose \subseteq Subs
  /\ current \in Subs \cup {NoSub}
  /\ awaited \subseteq Messages \X Subs
  /\ spoiled \in BOOLEAN
  /\ faults \in Nat /\ closes \in Nat
  /\ \A s \in Subs, m \in Messages :
       stage[m][s] = "waiting" <=> \E i \in DOMAIN waiters[s] : waiters[s][i] = m

Init ==
  /\ connected = TRUE /\ closing = FALSE
  /\ sub = [s \in Subs |-> "new"]
  /\ running = [s \in Subs |-> 0]
  /\ waiters = [s \in Subs |-> <<>>]
  /\ stage = [m \in Messages |-> [s \in Subs |-> "none"]]
  /\ publisher = [m \in Messages |-> "new"]
  /\ closer = "none"
  /\ toClose = {}
  /\ current = NoSub
  /\ awaited = {}
  /\ spoiled = FALSE
  /\ faults = 0 /\ closes = 0

\* _ensureConnected
Usable == connected /\ ~closing

--------------------------------------------------------------------------------
(* publish, and the gate on its way in. *)

\* Every open subscription without a group, and one open member of the group:
\* round robin is some choice among them.
Targets ==
  LET open == {s \in Subs : sub[s] = "open"}
      direct == open \cap Direct
      group == open \cap Grouped
  IN  IF group = {} THEN {direct} ELSE {direct \cup {s} : s \in group}

\* _acquire: enter at once, or wait.
Publish(m) ==
  /\ publisher[m] = "new"
  /\ Usable
  /\ \E targets \in Targets :
       LET enters(s) == running[s] < Limit IN
       /\ stage' = [stage EXCEPT ![m] =
                      [s \in Subs |-> IF s \notin targets THEN "none"
                                      ELSE IF enters(s) THEN "handler" ELSE "waiting"]]
       /\ running' = [s \in Subs |-> IF s \in targets /\ enters(s) THEN running[s] + 1 ELSE running[s]]
       /\ waiters' = [s \in Subs |-> IF s \in targets /\ ~enters(s) THEN Append(waiters[s], m) ELSE waiters[s]]
  /\ publisher' = [publisher EXCEPT ![m] = "pending"]
  /\ UNCHANGED <<busVars, sub, spoiled, faults>>

\* Future.wait over the deliveries: the error of a handler is the publisher's.
PublishReturns(m) ==
  /\ publisher[m] = "pending"
  /\ \A s \in Subs : stage[m][s] \in Ended \cup {"none"}
  /\ publisher' = [publisher EXCEPT ![m] =
                     IF \E s \in Subs : stage[m][s] = "failed" THEN "threw" ELSE "returned"]
  /\ stage' = [stage EXCEPT ![m] = [s \in Subs |-> "none"]]
  /\ UNCHANGED <<busVars, running, waiters, sub, spoiled, faults>>

--------------------------------------------------------------------------------
(* The gate on the way out. *)

\* Mutant: nobody is woken.
Release_NoWake(s, m, end) ==
  /\ stage' = [stage EXCEPT ![m][s] = end]
  /\ UNCHANGED waiters

\* Mutant: the waiter stays in the queue when it is woken.
Release_KeepsWaiter(s, m, end) ==
  /\ stage' = IF waiters[s] = <<>> THEN [stage EXCEPT ![m][s] = end]
              ELSE [stage EXCEPT ![m][s] = end, ![Head(waiters[s])][s] = "granted"]
  /\ UNCHANGED waiters

\* _release, without its counter: the first waiter may go on, in a microtask of
\* its own.
Release(s, m, end) ==
  IF waiters[s] = <<>>
    THEN stage' = [stage EXCEPT ![m][s] = end] /\ UNCHANGED waiters
    ELSE /\ stage' = [stage EXCEPT ![m][s] = end, ![Head(waiters[s])][s] = "granted"]
         /\ waiters' = [waiters EXCEPT ![s] = Tail(@)]

HandlerReturns(m, s) ==
  /\ stage[m][s] = "handler"
  /\ Release(s, m, "done")
  /\ running' = [running EXCEPT ![s] = @ - 1]
  /\ UNCHANGED <<busVars, sub, publisher, spoiled, faults>>

\* Mutant: the slot is given back by handlers that return, not by those that throw.
HandlerThrows_KeepsSlot(m, s) ==
  /\ faults < MaxFaults
  /\ faults' = faults + 1
  /\ stage[m][s] = "handler"
  /\ Release(s, m, "failed")
  /\ spoiled' = (spoiled \/ current = s \/ <<m, s>> \in awaited)
  /\ UNCHANGED <<running, busVars, sub, publisher>>

\* whenComplete gives the slot back all the same; a close() that waits for this
\* handler will throw its error.
HandlerThrows(m, s) ==
  /\ faults < MaxFaults
  /\ faults' = faults + 1
  /\ stage[m][s] = "handler"
  /\ Release(s, m, "failed")
  /\ running' = [running EXCEPT ![s] = @ - 1]
  /\ spoiled' = (spoiled \/ current = s \/ <<m, s>> \in awaited)
  /\ UNCHANGED <<busVars, sub, publisher>>

\* Mutant: a waiter does not look whether its subscription was closed meanwhile.
Resume_Unchecked(m, s) ==
  /\ stage[m][s] = "granted"
  /\ stage' = [stage EXCEPT ![m][s] = "handler"]
  /\ running' = [running EXCEPT ![s] = @ + 1]
  /\ UNCHANGED <<busVars, waiters, sub, publisher, spoiled, faults>>

\* Mutant: a waiter of a closed subscription leaves without waking the next.
Resume_NoWake(m, s) ==
  /\ stage[m][s] = "granted"
  /\ IF Closed(s)
       THEN stage' = [stage EXCEPT ![m][s] = "done"] /\ UNCHANGED <<running, waiters>>
       ELSE /\ stage' = [stage EXCEPT ![m][s] = "handler"]
            /\ running' = [running EXCEPT ![s] = @ + 1]
            /\ UNCHANGED waiters
  /\ UNCHANGED <<busVars, sub, publisher, spoiled, faults>>

\* The waiter goes on: it takes its slot whatever the counter says, and gives it
\* back at once when its subscription was closed meanwhile.
Resume(m, s) ==
  /\ stage[m][s] = "granted"
  /\ IF Closed(s)
       THEN Release(s, m, "done") /\ UNCHANGED running
       ELSE /\ stage' = [stage EXCEPT ![m][s] = "handler"]
            /\ running' = [running EXCEPT ![s] = @ + 1]
            /\ UNCHANGED waiters
  /\ UNCHANGED <<busVars, sub, publisher, spoiled, faults>>

--------------------------------------------------------------------------------
(* Subscriptions. *)

Subscribe(s) ==
  /\ sub[s] = "new"
  /\ Usable
  /\ sub' = [sub EXCEPT ![s] = "open"]
  /\ UNCHANGED <<busVars, gateVars, publisher, spoiled, faults>>

\* Subscription.close by the application; then the gate drains.
Unsubscribe(s) ==
  /\ sub[s] = "open"
  /\ sub' = [sub EXCEPT ![s] = "draining"]
  /\ UNCHANGED <<busVars, gateVars, publisher, spoiled, faults>>

\* drain: no handler is active any more; the waiters are not waited for.
Drained(s) ==
  /\ sub[s] = "draining"
  /\ Handlers(s) = {}
  /\ sub' = [sub EXCEPT ![s] = "closed"]
  /\ UNCHANGED <<busVars, gateVars, publisher, spoiled, faults>>

--------------------------------------------------------------------------------
(* MessageBus.close, one at a time, and connect. *)

Closing == closer \in {"subs", "wait"}

CloseStart ==
  /\ connected \/ closing
  /\ ~Closing
  /\ closes < MaxCloses
  /\ closes' = closes + 1
  /\ closing' = TRUE
  /\ connected' = FALSE
  /\ closer' = "subs"
  /\ toClose' = {s \in Subs : sub[s] = "open"}
  /\ spoiled' = FALSE
  /\ UNCHANGED <<current, awaited, gateVars, sub, publisher, faults>>

\* The next subscription, unless the application closes it already.
CloseNext(s) ==
  /\ closer = "subs" /\ current = NoSub
  /\ s \in toClose
  /\ toClose' = toClose \ {s}
  /\ IF sub[s] = "open"
       THEN sub' = [sub EXCEPT ![s] = "draining"] /\ current' = s
       ELSE UNCHANGED <<sub, current>>
  /\ UNCHANGED <<connected, closing, closer, awaited, closes, gateVars, publisher, spoiled,
                 faults>>

\* Its drain is over, and throws what a handler threw meanwhile.
CloseDrained ==
  /\ current # NoSub
  /\ sub[current] = "closed"
  /\ current' = NoSub
  /\ closer' = IF spoiled THEN "failed" ELSE "subs"
  /\ UNCHANGED <<connected, closing, toClose, awaited, closes, gateVars, sub, publisher,
                 spoiled, faults>>

Active ==
  {d \in Messages \X Subs : stage[d[1]][d[2]] \in {"waiting", "granted", "handler"}}

\* _activeDeliveries.toList(): a delivery that starts later, after connect(), is not
\* waited for.
CloseWait ==
  /\ closer = "subs" /\ current = NoSub
  /\ toClose = {}
  /\ closer' = "wait"
  /\ awaited' = Active
  /\ UNCHANGED <<connected, closing, toClose, current, closes, gateVars, sub, publisher,
                 spoiled, faults>>

\* Mutant: close clears the bus without waiting for the deliveries under way.
CloseEnds_NoWait ==
  /\ closer = "wait"
  /\ closer' = "closed"
  /\ closing' = FALSE
  /\ awaited' = {}
  /\ sub' = [s \in Subs |-> IF sub[s] = "open" THEN "orphaned" ELSE sub[s]]
  /\ UNCHANGED <<connected, toClose, current, closes, gateVars, publisher, spoiled, faults>>

\* The deliveries it found have ended, waiters included.
CloseEnds ==
  /\ closer = "wait"
  /\ awaited \cap Active = {}
  /\ awaited' = {}
  /\ closer' = IF spoiled THEN "failed" ELSE "closed"
  /\ IF spoiled
       THEN UNCHANGED <<closing, sub>>
       ELSE /\ closing' = FALSE
            /\ sub' = [s \in Subs |-> IF sub[s] = "open" THEN "orphaned" ELSE sub[s]]
  /\ UNCHANGED <<connected, toClose, current, closes, gateVars, publisher, spoiled, faults>>

CloseTimesOut ==
  /\ closer = "wait"
  /\ awaited \cap Active # {}
  /\ awaited' = {}
  /\ closer' = "timeout"
  /\ UNCHANGED <<connected, closing, toClose, current, closes, gateVars, sub, publisher,
                 spoiled, faults>>

\* connect does not wait for a close that still drains.
Connect ==
  /\ ~Usable
  /\ connected' = TRUE
  /\ closing' = FALSE
  /\ UNCHANGED <<closer, toClose, current, awaited, closes, gateVars, sub, publisher, spoiled,
                 faults>>

--------------------------------------------------------------------------------
\* What the event loop and the handlers do sooner or later.
Progress ==
  \/ \E m \in Messages : PublishReturns(m)
  \/ \E m \in Messages, s \in Subs : HandlerReturns(m, s)
  \/ \E m \in Messages, s \in Subs : HandlerThrows(m, s)
  \/ \E m \in Messages, s \in Subs : Resume(m, s)
  \/ \E s \in Subs : Drained(s)

Next ==
  \/ Progress
  \/ \E m \in Messages : Publish(m)
  \/ \E s \in Subs : Subscribe(s)
  \/ \E s \in Subs : Unsubscribe(s)
  \/ CloseStart
  \/ \E s \in Subs : CloseNext(s)
  \/ CloseDrained
  \/ CloseWait
  \/ CloseEnds
  \/ CloseTimesOut
  \/ Connect

Spec == Init /\ [][Next]_vars

\* Handlers end and the event loop does not idle while a callback is ready.
FairSpec == Spec /\ WF_vars(Progress)

--------------------------------------------------------------------------------
(* Properties. *)

\* The counter of a gate never drifts from the handlers it counts: no slot is lost
\* or given back twice, whether a handler returns, throws or finds the
\* subscription closed.
RunningCountsHandlers == \A s \in Subs : running[s] = Cardinality(Handlers(s))

\* Nobody waits while capacity is idle: as long as a delivery waits, the gate's
\* slots are taken or promised to waiters on their way.
NoIdleWaiters ==
  \A s \in Subs : waiters[s] # <<>> => running[s] + Cardinality(Granted(s)) >= Limit

\* "Closing the handle stops new deliveries" (website/content/reference.ts:90):
\* once Subscription.close has returned, no handler of the subscription runs or
\* starts, although deliveries may still wait at its gate.
ClosedSubscriptionIsQuiet == \A s \in Subs : sub[s] = "closed" => Handlers(s) = {}

\* When MessageBus.close has returned, every delivery and every publish call it
\* found has ended.
ClosedBusIsQuiet == closer = "closed" /\ ~connected => Active = {}

\* Once close() of a subscription or of the bus has returned, what it closed is
\* quiet, although deliveries may have been waiting at its gates.
ClosedIsQuiet == ClosedSubscriptionIsQuiet /\ ClosedBusIsQuiet

\* The gates' bookkeeping is sound: every queue of waiters holds just the deliveries
\* that wait, slots are counted right, and none is idle while a delivery waits.
GatesAccounted == TypeOK /\ RunningCountsHandlers /\ NoIdleWaiters

\* Every delivery that was accepted ends: no wake-up is lost at a gate, whatever
\* fails or is closed meanwhile, and no publisher waits for ever.
PublicationsEnd == \A m \in Messages : publisher[m] = "pending" ~> publisher[m] # "pending"

================================================================================
