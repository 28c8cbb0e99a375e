--------------------------- MODULE MCDevfileRegistry ---------------------------
(****************************************************************************)
(* Two Stacks, two versions, a meta.yaml in order and one that is not yaml. *)
(****************************************************************************)
EXTENDS DevfileRegistry
=============================================================================
