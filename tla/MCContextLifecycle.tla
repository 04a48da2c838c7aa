------------------------- MODULE MCContextLifecycle -------------------------
(* Instances of ContextLifecycle for TLC: contexts and goroutines are model values. *)
EXTENDS ContextLifecycle, TLC

CONSTANTS
    outer, inner,       \* contexts
    r1, r2,             \* Runs: r1 of outer
    s1, s2,             \* Stops of outer by the program
    k1                  \* the Stop of inner by nestedArchetype.Close

\* outer owns a nestedArchetype with one context, inner.
NestedPair == outer :> {inner} @@ inner :> {}
PairContextOf == r1 :> outer @@ r2 :> inner @@ s1 :> outer @@ s2 :> outer @@ k1 :> inner

\* outer alone; both r1 and r2 run it.
NoNesting == outer :> {}
SingleContextOf == r1 :> outer @@ r2 :> outer @@ s1 :> outer @@ s2 :> outer
=============================================================================
