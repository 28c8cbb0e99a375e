----------------------------- MODULE MCImageDigest -----------------------------
(****************************************************************************)
(* One image in two versions, in a registry that needs credentials; secrets *)
(* with and without a numbered key, good and bad.                           *)
(****************************************************************************)
EXTENDS ImageDigest

MCRegistryOf == [i \in Images |-> CHOOSE h \in Hosts : TRUE]

MCSecrets ==
    {[host |-> h, key |-> 1, kind |-> "basic", good |-> TRUE] : h \in Hosts} \cup
    {[host |-> h, key |-> 0, kind |-> "docker config", good |-> FALSE] : h \in Hosts}
=============================================================================
