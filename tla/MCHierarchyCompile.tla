-------------------------- MODULE MCHierarchyCompile --------------------------
(* HierarchyCompile on small instances for TLC. *)
EXTENDS HierarchyCompile, TLC

CONSTANTS c1, c2, r1, r2, e1

TwoTokens == {c1, c2}
TwoSwaps  == {r1, r2}
OneEdit   == {e1}

\* Bound: after two swaps at once and the loss of a running copy no property but the
\* type invariant promises anything more, and no behaviour is followed further.
StillPromised == ~({"twoSwaps", "sweptCopy"} \subseteq upset)

Symmetric == Permutations(Tokens) \cup Permutations(Swaps) \cup Permutations(Edits)
=============================================================================
