-------------------------------- MODULE Pipeline --------------------------------
(***************************************************************************)
(* From the producer's transaction to the consumer's side effect: the      *)
(* outbox and its relays (PostgresOutboxRelay), a broker that stores what  *)
(* it is given, and handlers that deduplicate with the inbox (Inbox).      *)
(*                                                                         *)
(* The producer side is not modelled again: it is any system that keeps    *)
(* AtLeastOnce, which Outbox is shown to do.  So a message may be          *)
(* published several times, also after the relay has settled or buried it. *)
(* runOnce publishes record.headers and no id of the row: the copies of a  *)
(* message are recognised by an id that the event itself carries, which is *)
(* the delivery key of the documented handler.                             *)
(***************************************************************************)
EXTENDS Inbox, FiniteSetsExt

CONSTANT MaxPublications   \* bound on the publications, of all messages together

ASSUME PipelineAssumption == MaxPublications \in Nat \ {0}

VARIABLES
  phase,       \* per message: what the outbox promises of it
  deliveries,  \* per message: how often a relay's publish reached the broker
  copies       \* per message: copies in the broker behind the one it delivers

sourceVars   == <<phase, deliveries>>
pipelineVars == <<vars, sourceVars, copies>>

Source == INSTANCE AtLeastOnce

\* A message that was never published is neither known to the inbox nor at the
\* broker; what the broker has was published.
PipelineTypeOK ==
  /\ TypeOK
  /\ phase \in [Messages -> Source!Phase]
  /\ deliveries \in [Messages -> Nat]
  /\ copies \in [Messages -> Nat]
  /\ \A m \in Messages : copies[m] <= deliveries[m]
  /\ \A m \in Messages : deliveries[m] = 0 => acked[m] /\ state[m] = "absent"

PipelineInit ==
  /\ InitWith(TRUE)
  /\ Source!Init
  /\ copies = [m \in Messages |-> 0]

\* A relay's publish reaches the broker.
Publish(m) ==
  /\ MapThenSumSet(LAMBDA n : deliveries[n], Messages) < MaxPublications
  /\ Source!Deliver(m)
  /\ copies' = [copies EXCEPT ![m] = @ + 1]
  /\ UNCHANGED vars

\* A transaction commits the row, a relay marks it published or dead.
Outbox(m) ==
  /\ Source!Accept(m) \/ Source!Settle(m) \/ Source!Bury(m)
  /\ UNCHANGED <<vars, copies>>

\* The broker turns to the next copy once the one before it is acknowledged.
NextCopy(m) ==
  /\ acked[m]
  /\ copies[m] > 0
  /\ copies' = [copies EXCEPT ![m] = @ - 1]
  /\ acked' = [acked EXCEPT ![m] = FALSE]
  /\ UNCHANGED <<rowVars, handlerVars, effects, faults, sourceVars>>

Consume == Next /\ UNCHANGED <<sourceVars, copies>>

PipelineNext ==
  \/ \E m \in Messages : Publish(m)
  \/ \E m \in Messages : Outbox(m)
  \/ \E m \in Messages : NextCopy(m)
  \/ Consume

\* The consumer's fairness and a broker that keeps delivering; the producer side
\* owes nothing here beyond what it has published.
PipelineFairness ==
  /\ \A m \in Messages : WF_pipelineVars(NextCopy(m))
  /\ \A m \in Messages : WF_pipelineVars(LeaseRunsOut(m) /\ UNCHANGED <<sourceVars, copies>>)
  /\ \A h \in Handlers : WF_pipelineVars(Work(h) /\ UNCHANGED <<sourceVars, copies>>)
  /\ \A m \in Messages :
       SF_pipelineVars(/\ \E h \in Handlers : Deliver(h, m) /\ Acquirable(m)
                       /\ UNCHANGED <<sourceVars, copies>>)

PipelineSpec == PipelineInit /\ [][PipelineNext]_pipelineVars

FairPipelineSpec == PipelineSpec /\ PipelineFairness

--------------------------------------------------------------------------------
(* Properties. *)

\* End to end the promise of the outbox holds for the side effect: whatever the
\* duplicates on the way, an accepted message is owed until its side effect ran
\* and the inbox recorded it ("Completed too early is data loss",
\* website/content/reliability.ts:436), and from then on it is completed for good.
EndPhase ==
  [m \in Messages |-> CASE state[m] = "completed" -> "settled"
                       [] state[m] # "completed" /\ phase[m] = "unsent" -> "unsent"
                       [] OTHER -> "owed"]

EndToEnd == INSTANCE AtLeastOnce WITH phase <- EndPhase, deliveries <- effects

EndToEndPromise == EndToEnd!Spec

\* Whatever reached the broker is completed in the end, also when the outbox has
\* given the row up as dead meanwhile.
PublishedIsCompleted == \A m \in Messages : deliveries[m] > 0 ~> state[m] = "completed"

================================================================================
