------------------------- MODULE MCCriticalSection --------------------------
(* Instances of CriticalSection for TLC. *)
EXTENDS CriticalSection, TLC

CONSTANTS plain, other, elem1, elem2,      \* leaves
          hPlain, hOther, hMap             \* handles

\* A leaf with a handle of its own, and two elements of one map.
MapHandleOf == plain :> hPlain @@ elem1 :> hMap @@ elem2 :> hMap

\* Three leaves, each with a handle of its own.
PlainHandleOf == plain :> hPlain @@ other :> hOther @@ elem1 :> hMap
=============================================================================
