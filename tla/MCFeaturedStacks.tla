---------------------------- MODULE MCFeaturedStacks ----------------------------
(****************************************************************************)
(* Two Stacks in two hubs: versions that come, go and change, an entry that *)
(* is refused, in the last hub or in one that the other overrides, an entry *)
(* without images, one version in both hubs.                                *)
(****************************************************************************)
EXTENDS FeaturedStacks

CONSTANTS s1, s2, v1, v2

\* The contents of the indexes and of users.
First == [images |-> {"tagged"}, pipelines |-> {"archive"}, revision |-> 1]
Second == [images |-> {"plain"}, pipelines |-> {"yaml"}, revision |-> 2]
Imageless == [images |-> {"empty"}, pipelines |-> {}, revision |-> 3]
Unparsable == [images |-> {"plain", "empty"}, pipelines |-> {}, revision |-> 4]

MCContents == {First, Second, Imageless, Unparsable}
MCUserContents == {Second}

\* The first repository prescribes its pipelines, the second does not.
MCRepoPipelines == [r \in 1..2 |-> IF r = 1 THEN {"digested archive"} ELSE {}]

Of(s, v, c) == [stack |-> s, version |-> v, content |-> c]

\* Both Stacks; s1 in both hubs, with another version of s2; the same, with an
\* entry of the first hub that cannot be parsed; s1 refused and nothing usable
\* of s2.
MCHubs ==
    {[r \in 1..2 |-> IF r = 1 THEN a ELSE b] :
        <<a, b>> \in {<<{Of(s1, v1, First), Of(s2, v1, First)}, {}>>,
                      <<{Of(s1, v1, First)}, {Of(s1, v1, Second), Of(s2, v2, Second)}>>,
                      <<{Of(s1, v1, Unparsable)}, {Of(s1, v1, Second), Of(s2, v2, Second)}>>,
                      <<{}, {Of(s1, v2, Unparsable), Of(s2, v1, Imageless)}>>}}

MCFirstHubs == {h \in MCHubs : h[1] # {}}
=============================================================================
