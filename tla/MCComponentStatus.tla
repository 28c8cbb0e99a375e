--------------------------- MODULE MCComponentStatus ---------------------------
(****************************************************************************)
(* At the start nothing, or any one thing, is amiss; two of the four        *)
(* components that can be switched off are.                                 *)
(****************************************************************************)
EXTENDS ComponentStatus

MCFirstAmiss == {{}} \cup {{p} : p \in Parts}
MCFirstDisabled == {{"landing", "sso"}}
=============================================================================
