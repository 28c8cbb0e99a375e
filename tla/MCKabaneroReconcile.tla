-------------------------- MODULE MCKabaneroReconcile --------------------------
(* One Kabanero; 10 seconds are 1 tick, 60 seconds 2, and 15 minutes 3: in    *)
(* order, with the longest delay reached by the second request.               *)
EXTENDS KabaneroReconcile, TLC

CONSTANT k1

MCWorlds == {Parts} \cup {Parts \ {part} : part \in Parts}
=============================================================================
