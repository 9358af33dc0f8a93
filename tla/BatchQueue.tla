----------------------------- MODULE BatchQueue -----------------------------
(***************************************************************************)
(* What a buffer of operations promises its client: operations are         *)
(* accepted one at a time and handed over in batches.  A batch is a run of *)
(* the oldest operations that were not handed over yet, and it leaves the  *)
(* queue only when the handler has succeeded on the whole of it.  A failed *)
(* attempt, whatever its cause, is a stuttering step.                      *)
(***************************************************************************)
EXTENDS Naturals, Sequences

CONSTANT Operations

VARIABLES
    accepted,   \* every operation accepted so far, in order
    handed      \* the operations of the batches that succeeded, in order

vars == <<accepted, handed>>

Init == accepted = <<>> /\ handed = <<>>

Accept(o) ==
    /\ accepted' = Append(accepted, o)
    /\ UNCHANGED handed

HandOver(k) ==
    /\ handed' = SubSeq(accepted, 1, k)
    /\ UNCHANGED accepted

Next ==
    \/ \E o \in Operations : Accept(o)
    \/ \E k \in (Len(handed) + 1)..Len(accepted) : HandOver(k)

Spec == Init /\ [][Next]_vars
=============================================================================
