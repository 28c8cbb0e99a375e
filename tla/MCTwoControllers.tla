---------------------------- MODULE MCTwoControllers ----------------------------
(****************************************************************************)
(* A stack and the gitops part of a Kabanero that use the same zip, worked  *)
(* on by the stack controller and the Kabanero operator at the same time.   *)
(* The stack can switch to a zip that is not pinned by a digest: what is    *)
(* downloaded for it may stop naming the asset.  It also holds an object of *)
(* a group that is not allowed.                                             *)
(****************************************************************************)
EXTENDS StackController, TLC

CONSTANTS v1, i1, k1, k2, a1, b1, s1, g1

U(k) == [version |-> v1, id |-> i1, key |-> k]

MCContents == (k1 :> {{a1}}) @@ (k2 :> {{a1, b1}, {b1}})

MCUsual == (k1 :> {a1}) @@ (k2 :> {a1, b1})

MCSpecs == (s1 :> {{U(k1)}, {U(k2)}}) @@ (g1 :> {{U(k1)}, {}})
=============================================================================
