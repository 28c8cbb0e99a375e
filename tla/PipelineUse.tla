------------------------------ MODULE PipelineUse ------------------------------
(****************************************************************************)
(* The bookkeeping at the start of ActivatePipelines: which pipeline zips   *)
(* are still used by the spec of a component (a Stack, or the gitops part   *)
(* of a Kabanero), and which ones are no longer used.                       *)
(*                                                                          *)
(* A pipeline list of one version is a listType=map keyed by id and sha256, *)
(* so it is a SET of (id, key) pairs.  A key stands for PipelineUseMapKey:  *)
(* the digest of a zip together with its URL or its git release.  A version *)
(* that is inactive lists no pipelines (GetPipelines), so it contributes no *)
(* element to the set.                                                      *)
(****************************************************************************)
EXTENDS Integers, FiniteSets

CONSTANTS Versions,   \* versions of the component
          Ids,        \* pipeline ids (spec.versions[].pipelines[].id)
          Keys        \* PipelineUseMapKey values

\* One pipeline entry of one version, in a spec or in a status.
Use == [version : Versions, id : Ids, key : Keys]

\* A resource is a finite document.
ASSUME UseAssumption == IsFiniteSet(Use)

\* pipelineVersion: a specific version of a zip in a specific version.
PipelineVersion(u) == <<u.version, u.key>>

PipelineVersions(uses) == {PipelineVersion(u) : u \in uses}

KeysOf(uses) == {u.key : u \in uses}

\* The entries of `uses' that carry the pair pv.
Entries(uses, pv) == {u \in uses : PipelineVersion(u) = pv}

\* (A variant with a fault: the spec strikes no pair out.)
ToDecrementUnstruck(spec, status) == PipelineVersions(status)

\* assetsToDecrement after both passes: a pair of the status is struck out by
\* the first entry of the spec that carries it.
ToDecrement(spec, status) == PipelineVersions(status) \ PipelineVersions(spec)

\* assetsToIncrement: pairs that the status lacks, and pairs that a second
\* entry of the spec meets after the first one struck them out.
ToIncrement(spec, status) ==
    {pv \in PipelineVersions(spec) :
        \/ pv \notin PipelineVersions(status)
        \/ Cardinality(Entries(spec, pv)) > 1}

\* The assetUseMap has an entry for every key of the status or the spec.
UseMapKeys(spec, status) == KeysOf(status) \cup KeysOf(spec)

\* (A variant with a fault: the pairs that go are forgotten.)
UseCountNoDecrement(spec, status, k) ==
      Cardinality({u \in status : u.key = k})
    + Cardinality({pv \in ToIncrement(spec, status) : pv[2] = k})

\* value.useCount: counted once per ENTRY of the status, but adjusted once per
\* PAIR that comes or goes.
UseCount(spec, status, k) ==
      Cardinality({u \in status : u.key = k})
    - Cardinality({pv \in ToDecrement(spec, status) : pv[2] = k})
    + Cardinality({pv \in ToIncrement(spec, status) : pv[2] = k})

\* (A variant with a fault: a count of zero is taken for a use.)
DroppedBelowZero(spec, status) ==
    {k \in UseMapKeys(spec, status) : UseCount(spec, status, k) < 0}

\* The keys whose assets the first loop over the use map deletes ...
DroppedKeys(spec, status) ==
    {k \in UseMapKeys(spec, status) : UseCount(spec, status, k) <= 0}

\* ... and those whose assets the second one creates.
RetainedKeys(spec, status) ==
    {k \in UseMapKeys(spec, status) : UseCount(spec, status, k) > 0}

\* No version lists the same zip under two ids.
NoDuplicates(uses) ==
    \A u, w \in uses : PipelineVersion(u) = PipelineVersion(w) => u = w
=============================================================================
