------------------------------ MODULE AtLeastOnce ------------------------------
(***************************************************************************)
(* What every PodBus component that moves messages promises, whatever      *)
(* machinery keeps the promise (docs/reliability.md, "at-least-once"):     *)
(* a message that was accepted is owed to its destination until it was     *)
(* delivered at least once and its settlement recorded, or it was given up *)
(* explicitly.  Nothing is promised about duplicates: a message may be     *)
(* delivered again at any time after it was accepted, even after it was    *)
(* settled or given up by somebody else.                                   *)
(***************************************************************************)
EXTENDS Naturals

CONSTANT Messages

VARIABLES
  phase,       \* [Messages -> Phase]
  deliveries   \* [Messages -> Nat], how often the destination got the message

vars == <<phase, deliveries>>

Phase == {"unsent", "owed", "settled", "buried"}

Init ==
  /\ phase = [m \in Messages |-> "unsent"]
  /\ deliveries = [m \in Messages |-> 0]

Accept(m) ==
  /\ phase[m] = "unsent"
  /\ phase' = [phase EXCEPT ![m] = "owed"]
  /\ UNCHANGED deliveries

Deliver(m) ==
  /\ phase[m] # "unsent"
  /\ deliveries' = [deliveries EXCEPT ![m] = @ + 1]
  /\ UNCHANGED phase

Settle(m) ==
  /\ phase[m] = "owed"
  /\ deliveries[m] > 0
  /\ phase' = [phase EXCEPT ![m] = "settled"]
  /\ UNCHANGED deliveries

\* Given up for good: the attempts are used up or the failure is permanent.
Bury(m) ==
  /\ phase[m] = "owed"
  /\ phase' = [phase EXCEPT ![m] = "buried"]
  /\ UNCHANGED deliveries

Next == \E m \in Messages : Accept(m) \/ Deliver(m) \/ Settle(m) \/ Bury(m)

Spec == Init /\ [][Next]_vars

--------------------------------------------------------------------------------
\* Every accepted message is eventually settled or given up.
EventuallySettled ==
  \A m \in Messages : phase[m] = "owed" ~> phase[m] \in {"settled", "buried"}

================================================================================
