-------------------------- MODULE MCComponentInstalls --------------------------
(****************************************************************************)
(* One Kabanero, its own and one other namespace; two specs that want       *)
(* different components.                                                    *)
(****************************************************************************)
EXTENDS ComponentInstalls

MCSpecs ==
    {[landing |-> TRUE, crw |-> TRUE, events |-> FALSE, sso |-> TRUE,
      targets |-> Namespaces \ {Own}, old |-> FALSE],
     [landing |-> FALSE, crw |-> FALSE, events |-> TRUE, sso |-> FALSE,
      targets |-> Namespaces, old |-> TRUE]}

MCDefaultSpecs ==
    {[landing |-> TRUE, crw |-> FALSE, events |-> TRUE, sso |-> FALSE,
      targets |-> {}, old |-> FALSE]}

MCFirstWorlds == {Parts}
=============================================================================
