-------------------------------- MODULE Queues --------------------------------
(* Queues of numbered jobs, as sequences.                                  *)
EXTENDS Integers, Sequences

\* The order in which a queue keeps the jobs it holds.
Ascending(q) == \A i, k \in 1 .. Len(q) : i < k => q[i] < q[k]
=============================================================================
