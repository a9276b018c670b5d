-------------------------- MODULE MCInMemoryJobQueue --------------------------
(* Two workers of concurrency one. *)
EXTENDS InMemoryJobQueue

CONSTANTS w1, w2

MCSlots == [worker : {w1, w2}, index : {1}]

================================================================================
