---------------------------- MODULE AssetOwnership ----------------------------
(****************************************************************************)
(* What the owner references of Tekton objects promise: an object is made   *)
(* by one owner, more owners may join, and it is destroyed by the last one  *)
(* to leave.  Nobody removes it under an owner that still uses it, except   *)
(* outsiders, whose deletions are counted.  An owner that is gone without   *)
(* having left is struck out by the garbage collector.                      *)
(****************************************************************************)
EXTENDS Naturals

CONSTANTS Owners, Assets

VARIABLES exists,   \* the objects there are
          owners,   \* owners[a]: the owners of object a
          gone,     \* the owners that are gone for good
          losses    \* how many objects outsiders deleted

vars == <<exists, owners, gone, losses>>

Init ==
    /\ exists = {} /\ owners = [a \in Assets |-> {}]
    /\ gone = {} /\ losses = 0

Create(a, o) ==
    /\ a \notin exists
    /\ exists' = exists \cup {a}
    /\ owners' = [owners EXCEPT ![a] = {o}]
    /\ UNCHANGED <<gone, losses>>

Join(a, o) ==
    /\ a \in exists
    /\ owners' = [owners EXCEPT ![a] = @ \cup {o}]
    /\ UNCHANGED <<exists, gone, losses>>

Destroy(a) ==
    /\ exists' = exists \ {a}
    /\ owners' = [owners EXCEPT ![a] = {}]

\* The last owner takes the object with it.
Leave(a, o) ==
    /\ a \in exists
    /\ IF owners[a] \subseteq {o}
       THEN Destroy(a)
       ELSE /\ owners' = [owners EXCEPT ![a] = @ \ {o}]
            /\ UNCHANGED exists
    /\ UNCHANGED <<gone, losses>>

Lose(a) ==
    /\ a \in exists
    /\ Destroy(a)
    /\ losses' = losses + 1
    /\ UNCHANGED gone

Collect(a) ==
    /\ a \in exists
    /\ owners[a] \cap gone # {}
    /\ IF owners[a] \subseteq gone
       THEN Destroy(a)
       ELSE /\ owners' = [owners EXCEPT ![a] = @ \ gone]
            /\ UNCHANGED exists
    /\ UNCHANGED <<gone, losses>>

Retire(o) ==
    /\ gone' = gone \cup {o}
    /\ UNCHANGED <<exists, owners, losses>>

Next ==
    \/ \E a \in Assets, o \in Owners : Create(a, o) \/ Join(a, o) \/ Leave(a, o)
    \/ \E a \in Assets : Lose(a) \/ Collect(a)
    \/ \E o \in Owners : Retire(o)

Spec == Init /\ [][Next]_vars
=============================================================================
