------------------------------ MODULE MCTwoPC ------------------------------
(* TLC instances of TwoPC.                                                 *)
EXTENDS TwoPC

CONSTANTS n1, n2, n3, a, b, c

(* Different proposers write different values.                             *)
Distinct == [n \in Node |-> CASE n = n1 -> {b} [] n = n2 -> {c} [] OTHER -> {}]

AllLinks == Node \X Node

CutN2N1 == {<<n1, n2>>, <<n1, n3>>, <<n2, n3>>}

FromN1 == {n1} \X {n2, n3}

(* Two proposers, one critical section each; n3 only votes.                *)
OneEach == [n \in Node |-> IF n = n3 THEN 0 ELSE 1]

(* n1 proposes twice, alone.                                              *)
OnlyN1 == [n \in Node |-> IF n = n1 THEN 3 ELSE 0]

(* n1 may propose again after its first proposal was aborted.              *)
RetryN1 == [n \in Node |-> CASE n = n1 -> 3 [] n = n2 -> 1 [] OTHER -> 0]
=============================================================================
