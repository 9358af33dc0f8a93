-------------------------- MODULE MCOperationBuffer --------------------------
(* OperationBuffer on small instances for TLC. *)
EXTENDS OperationBuffer

CONSTANTS o1, o2, o3, loop, ctl, t1, t2, t3

TwoOperations   == {o1, o2}
ThreeOperations == {o1, o2, o3}
OneClient       == {loop}
TwoClients      == {loop, ctl}
ThreeTimers     == {t1, t2, t3}
TwoTimers       == {t1, t2}

\* Operations and timers are interchangeable in the safety runs.
Symmetric == Permutations(Operations) \cup Permutations(Timers)
=============================================================================
