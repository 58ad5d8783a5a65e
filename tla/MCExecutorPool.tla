--------------------------- MODULE MCExecutorPool ---------------------------
(* Values of the constants of ExecutorPool for TLC.                        *)
EXTENDS ExecutorPool

NoWaits == [j \in Jobs |-> {}]

\* Every job waits for the one pushed before it.
WaitsForPrevious == [j \in Jobs |-> {j - 1} \cap Jobs]
=============================================================================
