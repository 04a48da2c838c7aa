--------------------------- MODULE MCCRDTResource ---------------------------
(* Instances of CRDTResource for TLC. *)
EXTENDS CRDTResource, TLC

CONSTANTS n1, n2   \* nodes

\* The nodes that never close are interchangeable.
NodeSymmetry == Permutations(Node)

\* Outside a section oldValue is never read before it is written.
LiveView ==
    <<value, [n \in Node |-> IF hasOldValue[n] THEN oldValue[n] ELSE Zero], hasOldValue,
      mergeValues, newValue, dialing, waiting, calls, closing, committed>>
=============================================================================
