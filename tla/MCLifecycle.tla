------------------------------ MODULE MCLifecycle ------------------------------
(* Instances of Lifecycle for TLC. *)
EXTENDS Lifecycle

CONSTANTS bcv, binance, task, r1, r2

BothWorkers == {bcv, binance}
TwoRequests == {r1, r2}

\* Two rows for BCV; two of the three rows of Binance and currencies of the task.
TwoEach == [j \in {bcv, binance, task} |-> 2]
================================================================================
