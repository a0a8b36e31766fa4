-------------------------- MODULE MCTaskSharedState --------------------------
(* Small instances of TaskSharedState: the kinds of task and the threads   *)
(* that call Start are chosen in the configurations.                       *)
EXTENDS TaskSharedState
CONSTANTS t1, t2, s1, r, w1, w2, k1, k2

AllKinds == {"tcs", "coroutine", "func"}
FuncKinds == {"func"}
OneStarter == {s1}
=============================================================================
