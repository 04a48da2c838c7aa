--------------------------- MODULE AtomicSections ---------------------------
(***************************************************************************)
(* What the critical sections of an archetype promise, whatever resources  *)
(* they use: the statements of a section see each other's writes, and all  *)
(* of them take effect at once or none does.                               *)
(***************************************************************************)
CONSTANTS Leaf, Value, InitValue

VARIABLES
    store,   \* the values as of the last section that took effect
    view     \* the values as the section in progress sees them

vars == <<store, view>>

Init ==
    /\ store = [l \in Leaf |-> InitValue]
    /\ view = store

Write(l, v) == view' = [view EXCEPT ![l] = v] /\ UNCHANGED store

TakeEffect == store' = view /\ UNCHANGED view

Abandon == view' = store /\ UNCHANGED store

Next ==
    \/ \E l \in Leaf, v \in Value : Write(l, v)
    \/ TakeEffect
    \/ Abandon

Spec == Init /\ [][Next]_vars
=============================================================================
