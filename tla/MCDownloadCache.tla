---------------------------- MODULE MCDownloadCache ----------------------------
(****************************************************************************)
(* Two goroutines, one URL and one release asset.  The URL serves three     *)
(* contents in turn, the last one without an ETag.                          *)
(****************************************************************************)
EXTENDS DownloadCache, TLC

CONSTANTS c1, c2, u1, p1

MCContents == (u1 :> 3) @@ (p1 :> 2)

\* The goroutines are alike, and no liveness is checked.
Symmetry == Permutations(Callers)
=============================================================================
