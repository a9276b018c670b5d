------------------------------ MODULE MCPipeline ------------------------------
(* Two handlers, each in a process of its own. *)
EXTENDS Pipeline

CONSTANTS h1, h2, w1, w2

MCWorkerOf == [h \in Handlers |-> IF h = h1 THEN w1 ELSE w2]

===============================================================================
