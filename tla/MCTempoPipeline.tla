--------------------------- MODULE MCTempoPipeline ---------------------------
(* TempoPipeline on small instances for TLC. *)
EXTENDS TempoPipeline

CONSTANTS o1, o2, o3, t1, t2, t3

OneOperation    == {o1}
TwoOperations   == {o1, o2}
ThreeOperations == {o1, o2, o3}
BothClients     == {loop, ctl}
TwoTimers       == {t1, t2}
ThreeTimers     == {t1, t2, t3}

Symmetric == Permutations(Operations) \cup Permutations(Timers)
=============================================================================
