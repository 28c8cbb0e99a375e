--------------------------- MODULE MCStackController ---------------------------
(****************************************************************************)
(* Two stacks that share pipelines: zip k1 renders to assets a1 and a2, zip *)
(* k2 to asset a2 alone, so a stack can also reach a2 through two zips.     *)
(****************************************************************************)
EXTENDS StackController, TLC

CONSTANTS v1, v2, i1, k1, k2, a1, a2, s1, s2

U(v, k) == [version |-> v, id |-> i1, key |-> k]

MCContents == (k1 :> {{a1, a2}}) @@ (k2 :> {{a2}})

MCUsual == (k1 :> {a1, a2}) @@ (k2 :> {a2})

MCSpecs == (s1 :> {{U(v1, k1)}, {U(v1, k1), U(v2, k2)}, {U(v2, k2)}}) @@ (s2 :> {{U(v1, k1)}, {}})
=============================================================================
