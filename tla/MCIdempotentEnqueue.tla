-------------------------- MODULE MCIdempotentEnqueue --------------------------
EXTENDS IdempotentEnqueue, TLC

CONSTANTS c1, c2, c3, k1, k2

\* Two callers compete for one key, a third has a key of its own.
MCKeyOf == (c1 :> k1) @@ (c2 :> k1) @@ (c3 :> k2)

================================================================================
