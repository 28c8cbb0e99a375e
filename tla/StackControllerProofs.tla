-------------------------- MODULE StackControllerProofs --------------------------
(****************************************************************************)
(* The stack controller, for any stacks, versions, zips and assets and any  *)
(* number of edits, failures and restarts: the use counts it starts from,   *)
(* the types, the zips it keeps, what its steps do, whose references it     *)
(* changes, how one controller on its own keeps what AssetOwnership says,   *)
(* and what holds of a stack at rest.                                       *)
(****************************************************************************)
EXTENDS StackController, PipelineUseHistory, FunctionTheorems, FiniteSetTheorems, TLAPS

-----------------------------------------------------------------------------
(* The use counts of ActivatePipelines *)

\* Abbreviations: what UseCount counts for one key.
EntriesOf(status, k) == {u \in status : u.key = k}
Decrements(spec, status, k) == {pv \in ToDecrement(spec, status) : pv[2] = k}
Increments(spec, status, k) == {pv \in ToIncrement(spec, status) : pv[2] = k}

\* The pairs of a set of entries are no more than the entries.
LEMMA PairsBound ==
    ASSUME NEW E, IsFiniteSet(E)
    PROVE  /\ IsFiniteSet(PipelineVersions(E))
           /\ Cardinality(PipelineVersions(E)) <= Cardinality(E)
<1> DEFINE f == [u \in E |-> PipelineVersion(u)]
<1>1. f \in Surjection(E, PipelineVersions(E))
  BY DEF Surjection, PipelineVersions
<1> QED
  BY <1>1, FS_Surjection

\* As many pairs as entries, when no two entries share a pair.
LEMMA PairsOfDistinctEntries ==
    ASSUME NEW E, IsFiniteSet(E), NoDuplicates(E)
    PROVE  Cardinality(PipelineVersions(E)) = Cardinality(E)
<1> DEFINE f == [u \in E |-> PipelineVersion(u)]
<1>1. f \in Surjection(E, PipelineVersions(E))
  BY DEF Surjection, PipelineVersions
<1>2. f \in Injection(E, PipelineVersions(E))
  BY DEF Injection, IsInjective, PipelineVersions, NoDuplicates
<1> QED
  BY <1>1, <1>2, FS_Surjection

\* The sets that UseCount measures are finite.
LEMMA CountedSetsAreFinite ==
    ASSUME NEW spec \in SUBSET Use, NEW status \in SUBSET Use, NEW k
    PROVE  /\ IsFiniteSet(EntriesOf(status, k))
           /\ IsFiniteSet(Decrements(spec, status, k))
           /\ IsFiniteSet(Increments(spec, status, k))
           /\ Cardinality(EntriesOf(status, k)) \in Nat
           /\ Cardinality(Decrements(spec, status, k)) \in Nat
           /\ Cardinality(Increments(spec, status, k)) \in Nat
<1>1. IsFiniteSet(spec) /\ IsFiniteSet(status)
  BY UseAssumption, FS_Subset
<1>2. IsFiniteSet(PipelineVersions(spec)) /\ IsFiniteSet(PipelineVersions(status))
  BY <1>1, PairsBound
<1>3. EntriesOf(status, k) \in SUBSET status
  BY DEF EntriesOf
<1>4. Decrements(spec, status, k) \in SUBSET PipelineVersions(status)
  BY DEF Decrements, ToDecrement
<1>5. Increments(spec, status, k) \in SUBSET PipelineVersions(spec)
  BY DEF Increments, ToIncrement
<1>6. /\ IsFiniteSet(EntriesOf(status, k))
      /\ IsFiniteSet(Decrements(spec, status, k))
      /\ IsFiniteSet(Increments(spec, status, k))
  BY <1>1, <1>2, <1>3, <1>4, <1>5, FS_Subset
<1> QED
  BY <1>6, FS_CardinalityType

\* Every pair to decrement comes from an entry of the status.
LEMMA DecrementsBound ==
    ASSUME NEW spec \in SUBSET Use, NEW status \in SUBSET Use, NEW k
    PROVE  Cardinality(Decrements(spec, status, k)) <= Cardinality(EntriesOf(status, k))
<1> DEFINE E == EntriesOf(status, k)
           D == Decrements(spec, status, k)
<1>1. IsFiniteSet(E) /\ Cardinality(E) \in Nat /\ Cardinality(D) \in Nat
  BY CountedSetsAreFinite
<1>2. D \in SUBSET PipelineVersions(E)
  BY DEF Decrements, ToDecrement, PipelineVersions, PipelineVersion, EntriesOf
<1>3. IsFiniteSet(PipelineVersions(E)) /\ Cardinality(PipelineVersions(E)) <= Cardinality(E)
  BY <1>1, PairsBound
<1>4. Cardinality(D) <= Cardinality(PipelineVersions(E))
  BY <1>2, <1>3, FS_Subset
<1>5. Cardinality(PipelineVersions(E)) \in Nat
  BY <1>3, FS_CardinalityType
<1> QED
  BY <1>1, <1>3, <1>4, <1>5

\* A zip that some version of the spec uses has a positive use count: the
\* arithmetic of ActivatePipelines never lets the deleting loop have it.
THEOREM UsedKeyIsCounted ==
    ASSUME NEW spec \in SUBSET Use, NEW status \in SUBSET Use, NEW u \in spec
    PROVE  UseCount(spec, status, u.key) > 0
<1> DEFINE k  == u.key
           pv == PipelineVersion(u)
           E  == EntriesOf(status, k)
           D  == Decrements(spec, status, k)
           I  == Increments(spec, status, k)
<1>1. /\ IsFiniteSet(E) /\ IsFiniteSet(D) /\ IsFiniteSet(I)
      /\ Cardinality(E) \in Nat /\ Cardinality(D) \in Nat /\ Cardinality(I) \in Nat
  BY CountedSetsAreFinite
<1>2. UseCount(spec, status, k) = Cardinality(E) - Cardinality(D) + Cardinality(I)
  BY DEF UseCount, EntriesOf, Decrements, Increments
<1>3. pv \in PipelineVersions(spec) /\ pv[2] = k
  BY DEF PipelineVersions, PipelineVersion
<1>4. CASE pv \notin PipelineVersions(status)
  <2>1. pv \in I
    BY <1>3, <1>4 DEF Increments, ToIncrement
  <2>2. Cardinality(I) # 0
    BY <1>1, <2>1, FS_EmptySet
  <2> QED
    BY <1>1, <1>2, <2>2, DecrementsBound
<1>5. CASE pv \in PipelineVersions(status)
  <2>1. PICK w \in status : PipelineVersion(w) = pv
    BY <1>5 DEF PipelineVersions
  <2>2. w \in E
    BY <2>1 DEF EntriesOf, PipelineVersion
  <2> DEFINE F == E \ {w}
  <2>3. IsFiniteSet(F) /\ Cardinality(F) = Cardinality(E) - 1
    BY <1>1, <2>2, FS_RemoveElement
  <2>4. D \in SUBSET PipelineVersions(F)
    <3> SUFFICES ASSUME NEW d \in D PROVE d \in PipelineVersions(F)
      OBVIOUS
    <3>1. d # pv
      BY <1>3 DEF Decrements, ToDecrement
    <3>2. PICK x \in status : PipelineVersion(x) = d
      BY DEF Decrements, ToDecrement, PipelineVersions
    <3>3. x \in F
      BY <2>1, <3>1, <3>2 DEF EntriesOf, Decrements, PipelineVersion
    <3> QED
      BY <3>2, <3>3 DEF PipelineVersions
  <2>5. IsFiniteSet(PipelineVersions(F)) /\ Cardinality(PipelineVersions(F)) <= Cardinality(F)
    BY <2>3, PairsBound
  <2>6. Cardinality(PipelineVersions(F)) \in Nat /\ Cardinality(F) \in Nat
    BY <2>3, <2>5, FS_CardinalityType
  <2>7. Cardinality(D) <= Cardinality(PipelineVersions(F))
    BY <2>4, <2>5, FS_Subset
  <2> HIDE DEF E, D, I, F, k
  <2> QED
    BY <1>1, <1>2, <2>3, <2>5, <2>6, <2>7 DEF k
<1> QED
  BY <1>4, <1>5

\* So it is in the creating loop, and not in the deleting one.
THEOREM UsedKeysRetained ==
    ASSUME NEW spec \in SUBSET Use, NEW status \in SUBSET Use
    PROVE  /\ KeysOf(spec) \subseteq RetainedKeys(spec, status)
           /\ KeysOf(spec) \cap DroppedKeys(spec, status) = {}
<1>1. ASSUME NEW u \in spec
      PROVE  /\ u.key \in RetainedKeys(spec, status)
             /\ u.key \notin DroppedKeys(spec, status)
  <2>1. UseCount(spec, status, u.key) > 0
    BY UsedKeyIsCounted
  <2>2. UseCount(spec, status, u.key) \in Int
    <3>1. UseCount(spec, status, u.key) =
            Cardinality(EntriesOf(status, u.key))
              - Cardinality(Decrements(spec, status, u.key))
              + Cardinality(Increments(spec, status, u.key))
      BY DEF UseCount, EntriesOf, Decrements, Increments
    <3>2. /\ Cardinality(EntriesOf(status, u.key)) \in Nat
          /\ Cardinality(Decrements(spec, status, u.key)) \in Nat
          /\ Cardinality(Increments(spec, status, u.key)) \in Nat
      BY CountedSetsAreFinite
    <3> QED
      BY <3>1, <3>2
  <2>3. u.key \in UseMapKeys(spec, status)
    BY DEF UseMapKeys, KeysOf
  <2> QED
    BY <2>1, <2>2, <2>3 DEF RetainedKeys, DroppedKeys
<1> QED
  BY <1>1 DEF KeysOf

\* A zip that the spec no longer uses is dropped, if no version of the status
\* lists it twice: then it has as many entries as pairs to decrement.
THEOREM UnusedKeysDropped ==
    ASSUME NEW spec \in SUBSET Use, NEW status \in SUBSET Use, NoDuplicates(status)
    PROVE  KeysOf(status) \ KeysOf(spec) \subseteq DroppedKeys(spec, status)
<1> SUFFICES ASSUME NEW k \in KeysOf(status), k \notin KeysOf(spec)
             PROVE  UseCount(spec, status, k) <= 0
  BY DEF DroppedKeys, UseMapKeys
<1> DEFINE E == EntriesOf(status, k)
           D == Decrements(spec, status, k)
           I == Increments(spec, status, k)
<1>1. IsFiniteSet(E) /\ Cardinality(E) \in Nat
  BY CountedSetsAreFinite
<1>2. UseCount(spec, status, k) = Cardinality(E) - Cardinality(D) + Cardinality(I)
  BY DEF UseCount, EntriesOf, Decrements, Increments
<1>3. ASSUME NEW pv \in PipelineVersions(spec)
      PROVE  pv[2] # k
  BY DEF PipelineVersions, PipelineVersion, KeysOf
<1>4. I = {}
  BY <1>3 DEF Increments, ToIncrement
<1>5. D = PipelineVersions(E)
  <2>1. D \subseteq PipelineVersions(E)
    BY DEF Decrements, ToDecrement, PipelineVersions, PipelineVersion, EntriesOf
  <2>2. ASSUME NEW d \in PipelineVersions(E)
        PROVE  d \in D
    <3>1. d \in PipelineVersions(status) /\ d[2] = k
      BY DEF PipelineVersions, PipelineVersion, EntriesOf
    <3> QED
      BY <1>3, <3>1 DEF Decrements, ToDecrement
  <2> QED
    BY <2>1, <2>2
<1>6. NoDuplicates(E)
  BY DEF NoDuplicates, EntriesOf
<1>7. Cardinality(D) = Cardinality(E)
  BY <1>1, <1>5, <1>6, PairsOfDistinctEntries
<1>8. Cardinality(I) = 0
  BY <1>4, FS_EmptySet
<1> HIDE DEF E, D, I
<1> QED
  BY <1>1, <1>2, <1>7, <1>8

\* Specs and statuses stay sets of pipeline entries.
LEMMA UsesAreTyped ==
    UsesSpec => [](specUses \in SUBSET Use /\ statusUses \in SUBSET Use)
<1> DEFINE Typed == specUses \in SUBSET Use /\ statusUses \in SUBSET Use
<1>1. UsesInit => Typed
  BY DEF UsesInit
<1>2. Typed /\ [UsesNext]_usesVars => Typed'
  BY DEF UsesNext, EditUses, RecordUses, usesVars
<1> QED
  BY <1>1, <1>2, PTL DEF UsesSpec

\* Whatever users edited since the status was written, no zip of the spec is
\* counted as unused.
THEOREM UsedKeysAlwaysRetained == UsesSpec => []UsedKeysAreRetained
<1>1. specUses \in SUBSET Use /\ statusUses \in SUBSET Use => UsedKeysAreRetained
  BY UsedKeysRetained DEF UsedKeysAreRetained
<1> QED
  BY <1>1, UsesAreTyped, PTL

\* And every zip that went out of the spec is, unless it was listed twice.
THEOREM UnusedKeysAlwaysDropped == UsesSpec => []UnusedKeysAreDropped
<1>1. specUses \in SUBSET Use /\ statusUses \in SUBSET Use => UnusedKeysAreDropped
  BY UnusedKeysDropped DEF UnusedKeysAreDropped
<1> QED
  BY <1>1, UsesAreTyped, PTL

-----------------------------------------------------------------------------
(* Types of what the steps are built from *)

\* The local state of an idle controller has its type.
LEMMA IdleStateType == IdleState \in Local /\ NoItem \in Keys \X Assets
<1>1. PICK k \in Keys, a \in Assets : TRUE
  BY StackAssumption
<1>2. NoItem \in Keys \X Assets
  <2>1. <<k, a>> \in Keys \X Assets
    OBVIOUS
  <2> QED
    BY <2>1 DEF NoItem
<1>3. (CHOOSE o \in Owners : TRUE) \in Owners
  BY StackAssumption
<1>4. NoLists \in AssetLists
  BY DEF NoLists, AssetLists, EmptyList, AssetStates
<1> QED
  BY <1>2, <1>3, <1>4 DEF IdleState, Local

\* The types hold initially.
LEMMA InitType == Init => TypeOK
<1> SUFFICES ASSUME Init PROVE TypeOK
  OBVIOUS
<1>1. NoLists \in AssetLists
  BY DEF NoLists, AssetLists, EmptyList, AssetStates
<1>2. NewResource \in Resource
  BY <1>1 DEF NewResource, Resource, Status
<1> QED
  BY <1>2, IdleStateType DEF Init, TypeOK

\* Setting the state of one asset keeps the type of the lists.
LEMMA SetStateType ==
    ASSUME NEW lists \in AssetLists, NEW i \in Keys \X Assets, NEW s \in AssetStates
    PROVE  SetState(lists, i, s) \in AssetLists
  BY DEF SetState, AssetLists

\* The fields of a local state.
LEMMA LocalFields ==
    ASSUME TypeOK, NEW p \in Controllers
    PROVE  /\ loc[p] \in Local
           /\ loc[p].me \in Owners
           /\ loc[p].spec \in SUBSET Use
           /\ loc[p].lists \in AssetLists
           /\ loc[p].keys \in SUBSET Keys
           /\ loc[p].todo \in SUBSET (Keys \X Assets)
           /\ loc[p].item \in Keys \X Assets
           /\ loc[p].item[2] \in Assets
           /\ loc[p].loaded \in SUBSET Assets
           /\ loc[p].seen \in SUBSET Owners
           /\ loc[p].broken \in SUBSET Keys
<1>1. loc[p] \in Local
  BY DEF TypeOK
<1> QED
  BY <1>1 DEF Local

PCs == {"idle", "delete", "remove", "create", "assets", "apply", "adopt", "status", "finalizer"}

\* One field of a local state changes.
LEMMA LocalUpdate ==
    ASSUME NEW r \in Local
    PROVE  /\ \A x \in PCs : [r EXCEPT !.pc = x] \in Local
           /\ \A x \in AssetLists : [r EXCEPT !.lists = x] \in Local
           /\ \A x \in SUBSET Keys : [r EXCEPT !.keys = x] \in Local
           /\ \A x \in SUBSET Keys : [r EXCEPT !.broken = x] \in Local
           /\ \A x \in SUBSET (Keys \X Assets) : [r EXCEPT !.todo = x] \in Local
           /\ \A x \in Keys \X Assets : [r EXCEPT !.item = x] \in Local
           /\ \A x \in SUBSET Assets : [r EXCEPT !.loaded = x] \in Local
           /\ \A x \in SUBSET Owners : [r EXCEPT !.seen = x] \in Local
<1>1. \A x \in PCs : [r EXCEPT !.pc = x] \in Local
  BY DEF Local, PCs
<1>2. \A x \in AssetLists : [r EXCEPT !.lists = x] \in Local
  BY DEF Local
<1>3. \A x \in SUBSET Keys : [r EXCEPT !.keys = x] \in Local
  BY DEF Local
<1>4. \A x \in SUBSET Keys : [r EXCEPT !.broken = x] \in Local
  BY DEF Local
<1>5. \A x \in SUBSET (Keys \X Assets) : [r EXCEPT !.todo = x] \in Local
  BY DEF Local
<1>6. \A x \in Keys \X Assets : [r EXCEPT !.item = x] \in Local
  BY DEF Local
<1>7. \A x \in SUBSET Assets : [r EXCEPT !.loaded = x] \in Local
  BY DEF Local
<1>8. \A x \in SUBSET Owners : [r EXCEPT !.seen = x] \in Local
  BY DEF Local
<1> QED
  BY <1>1, <1>2, <1>3, <1>4, <1>5, <1>6, <1>7, <1>8

\* A controller moves to a local state of the right type.
LEMMA BecomeType ==
    ASSUME TypeOK, NEW p \in Controllers, NEW r \in Local, Become(p, r)
    PROVE  loc' \in [Controllers -> Local]
<1>1. loc \in [Controllers -> Local]
  BY DEF TypeOK
<1> QED
  BY <1>1 DEF Become

\* The creating loop finishes an asset with one of the known states.
LEMMA FinishAssetType ==
    ASSUME TypeOK, NEW p \in Controllers, NEW i \in Keys \X Assets, NEW s \in AssetStates,
           FinishAsset(p, i, s)
    PROVE  loc' \in [Controllers -> Local]
<1>1. SetState(loc[p].lists, i, s) \in AssetLists
  BY LocalFields, SetStateType
<1>2. loc[p].todo \ {i} \in SUBSET (Keys \X Assets)
  BY LocalFields
<1>3. [loc[p] EXCEPT !.pc = "assets", !.todo = loc[p].todo \ {i},
          !.lists = SetState(loc[p].lists, i, s), !.item = NoItem, !.seen = {}] \in Local
  BY <1>1, <1>2, LocalFields, IdleStateType, LocalUpdate DEF PCs
<1> QED
  BY <1>3, BecomeType DEF FinishAsset

\* The deleting loop finishes an asset.
LEMMA FinishDeleteType ==
    ASSUME TypeOK, NEW p \in Controllers, NEW i \in Keys \X Assets, FinishDelete(p, i)
    PROVE  loc' \in [Controllers -> Local]
<1>1. loc[p].todo \ {i} \in SUBSET (Keys \X Assets)
  BY LocalFields
<1>2. [loc[p] EXCEPT !.pc = "delete", !.todo = loc[p].todo \ {i},
          !.item = NoItem, !.seen = {}] \in Local
  BY <1>1, LocalFields, IdleStateType, LocalUpdate DEF PCs
<1> QED
  BY <1>2, BecomeType DEF FinishDelete

\* An asset is removed.
LEMMA RemoveAssetType ==
    ASSUME TypeOK, NEW a \in Assets, RemoveAsset(a)
    PROVE  /\ exists' \subseteq Assets /\ owners' \in [Assets -> SUBSET Owners]
           /\ queue' \subseteq Owners /\ held' \subseteq Controllers
  BY DEF RemoveAsset, StoreOwners, OutdateCopies, Watchers, TypeOK, Owners

\* A call fails, and is counted.
LEMMA FailType ==
    ASSUME TypeOK, NEW kind, Fail(kind)
    PROVE  faults' \in Nat
  BY DEF Fail, TypeOK

\* A reconcile ends.
LEMMA EndReconcileType ==
    ASSUME TypeOK, NEW p \in Controllers, EndReconcile(p)
    PROVE  loc' \in [Controllers -> Local] /\ fresh' \subseteq Controllers
  BY IdleStateType, BecomeType DEF EndReconcile, TypeOK

-----------------------------------------------------------------------------
\* Users, watches, timers and the garbage collector keep the types.
LEMMA EnvironmentType == TypeOK /\ Environment => TypeOK'
<1> SUFFICES ASSUME TypeOK, Environment PROVE TypeOK'
  OBVIOUS
<1>1. ASSUME NEW o \in Owners
      PROVE  cr[o] \in Resource /\ cr[o].generation + 1 \in Nat
  BY DEF TypeOK, Resource
<1>2. ASSUME NEW o \in Owners, NEW s \in Specs[o], CreateOrEdit(o, s)
      PROVE  TypeOK'
  <2>1. s \in SUBSET Use
    BY StackAssumption
  <2>2. [cr[o] EXCEPT !.phase = "live", !.spec = s,
                      !.generation = cr[o].generation + 1] \in Resource
    BY <1>1, <2>1 DEF Resource
  <2> QED
    BY <1>2, <2>2 DEF CreateOrEdit, StoreResource, MayEdit, Disturb, TypeOK, apiVars
<1>3. ASSUME NEW o \in Owners, DeleteOwner(o)
      PROVE  TypeOK'
  <2> DEFINE phase == IF cr[o].finalizer THEN "deleting" ELSE "gone"
  <2>1. phase \in {"deleting", "gone"}
    OBVIOUS
  <2> HIDE DEF phase
  <2>2. [cr[o] EXCEPT !.phase = phase, !.generation = cr[o].generation + 1] \in Resource
    BY <1>1, <2>1 DEF Resource
  <2> QED
    BY <1>3, <2>2 DEF DeleteOwner, StoreResource, MayEdit, Disturb, TypeOK, apiVars, phase
<1>4. ASSUME NEW o \in Owners, DeliverEvent(o)
      PROVE  TypeOK'
  BY <1>4 DEF DeliverEvent, TypeOK, apiVars, history
<1>5. ASSUME NEW o \in Owners, FireTimer(o)
      PROVE  TypeOK'
  BY <1>5 DEF FireTimer, TypeOK, apiVars, history, crVars
<1>6. ASSUME NEW a \in Assets, LoseAsset(a)
      PROVE  TypeOK'
  BY <1>6, RemoveAssetType DEF LoseAsset, Disturb, TypeOK, crVars
<1>7. ASSUME NEW a \in Assets, CollectGarbage(a)
      PROVE  TypeOK'
  <2> DEFINE living == {o \in owners[a] : cr[o].phase # "gone"}
  <2>1. CASE living = {}
    BY <1>7, <2>1, RemoveAssetType DEF CollectGarbage, TypeOK, crVars, history
  <2>2. CASE living # {}
    <3>1. living \in SUBSET Owners
      BY DEF TypeOK
    <3> QED
      BY <1>7, <2>2, <3>1 DEF CollectGarbage, StoreOwners, OutdateCopies, TypeOK, crVars, history
  <2> QED
    BY <2>1, <2>2
<1> QED
  BY <1>2, <1>3, <1>4, <1>5, <1>6, <1>7 DEF Environment

\* What a resource brings into the local state.
LEMMA ResourceFields ==
    ASSUME NEW r \in Resource
    PROVE  /\ r.spec \in SUBSET Use /\ r.status.assets \in AssetLists
           /\ r.status.uses \in SUBSET Use
           /\ KeysOf(r.spec) \in SUBSET Keys /\ KeysOf(r.status.uses) \in SUBSET Keys
           /\ RetainedKeys(r.spec, r.status.uses) \in SUBSET Keys
           /\ DroppedKeys(r.spec, r.status.uses) \in SUBSET Keys
<1>1. /\ r.spec \in SUBSET Use /\ r.status.assets \in AssetLists
      /\ r.status.uses \in SUBSET Use
  BY DEF Resource, Status
<1>2. KeysOf(r.spec) \in SUBSET Keys /\ KeysOf(r.status.uses) \in SUBSET Keys
  BY <1>1 DEF KeysOf, Use
<1> QED
  BY <1>1, <1>2 DEF RetainedKeys, DroppedKeys, UseMapKeys

\* ActivatePipelines starts with a local state of the right type.
LEMMA ActivateType ==
    ASSUME TypeOK, NEW p \in Controllers, NEW o \in Owners, NEW r \in Resource,
           Activate(p, o, r)
    PROVE  loc' \in [Controllers -> Local]
<1> DEFINE s == [IdleState EXCEPT
                    !.pc = "delete", !.me = o, !.spec = r.spec, !.lists = r.status.assets,
                    !.keys = RetainedKeys(r.spec, r.status.uses),
                    !.todo = ActiveAssets(DroppedKeys(r.spec, r.status.uses), r.status)]
<1>1. ActiveAssets(DroppedKeys(r.spec, r.status.uses), r.status) \in SUBSET (Keys \X Assets)
  BY ResourceFields DEF ActiveAssets
<1>2. s \in Local
  BY <1>1, IdleStateType, ResourceFields DEF Local
<1> QED
  BY <1>2, BecomeType DEF Activate

\* The start of a reconcile keeps the types.
LEMMA BeginType ==
    ASSUME TypeOK, NEW p \in Controllers, NEW o \in Owners, BeginStep(p, o)
    PROVE  TypeOK'
<1>1. cache[o] \in Resource /\ cr[o] \in Resource
  BY DEF TypeOK
<1>2. CASE BeginGone(p, o)
  BY <1>2 DEF BeginGone, TypeOK, crVars, apiVars, history
<1>3. CASE BeginLive(p, o)
  <2>1. loc' \in [Controllers -> Local]
    BY <1>1, <1>3, ActivateType DEF BeginLive
  <2> QED
    BY <1>3, <2>1 DEF BeginLive, TypeOK, apiVars, history
<1>4. CASE BeginNew(p, o)
  <2>1. [cr[o] EXCEPT !.finalizer = TRUE] \in Resource
    BY <1>1 DEF Resource
  <2>2. cr' \in [Owners -> Resource]
    BY <1>4, <2>1 DEF BeginNew, TypeOK
  <2>3. loc' \in [Controllers -> Local]
    BY <1>1, <1>4, ActivateType DEF BeginNew
  <2> QED
    BY <1>4, <2>2, <2>3 DEF BeginNew, TypeOK, apiVars, history
<1>5. CASE BeginNewFails(p, o)
  BY <1>5, FailType DEF BeginNewFails, TypeOK, crVars, apiVars, history
<1>6. CASE BeginCleanup(p, o)
  <2> DEFINE t == ActiveAssets(KeysOf(cache[o].status.uses), cache[o].status)
  <2>1. t \in SUBSET (Keys \X Assets)
    BY <1>1, ResourceFields DEF ActiveAssets
  <2> HIDE DEF t
  <2>2. [IdleState EXCEPT !.pc = "delete", !.me = o, !.cleanup = TRUE, !.todo = t] \in Local
    BY <2>1, IdleStateType DEF Local
  <2>3. loc' \in [Controllers -> Local]
    BY <1>6, <2>2, BecomeType DEF BeginCleanup, t
  <2> QED
    BY <1>6, <2>3 DEF BeginCleanup, TypeOK, apiVars, history
<1> QED
  BY <1>2, <1>3, <1>4, <1>5, <1>6 DEF BeginStep

\* The steps of the deleting loop keep the types.
LEMMA DeleteType ==
    ASSUME TypeOK, NEW p \in Controllers, DeleteStep(p)
    PROVE  TypeOK'
<1> USE DEF crVars, apiVars, history
<1>1. ASSUME NEW i \in loc[p].todo, SkipDelete(p, i)
      PROVE  TypeOK'
  <2>1. loc' \in [Controllers -> Local]
    BY <1>1, LocalFields, FinishDeleteType DEF SkipDelete
  <2> QED
    BY <1>1, <2>1, FailType, LocalFields DEF SkipDelete, Disturb, TypeOK
<1>2. ASSUME NEW i \in loc[p].todo, GetForDelete(p, i)
      PROVE  TypeOK'
  <2>1. i \in Keys \X Assets /\ owners[i[2]] \in SUBSET Owners
    BY LocalFields DEF TypeOK
  <2>2. [loc[p] EXCEPT !.pc = "remove", !.item = i, !.seen = owners[i[2]]] \in Local
    BY <2>1, LocalFields, LocalUpdate DEF PCs
  <2>3. loc' \in [Controllers -> Local]
    BY <1>2, <2>2, BecomeType DEF GetForDelete
  <2> QED
    BY <1>2, <2>3 DEF GetForDelete, TypeOK
<1>3. CASE DeleteObject(p)
  <2>1. loc' \in [Controllers -> Local]
    BY <1>3, LocalFields, FinishDeleteType DEF DeleteObject
  <2> QED
    BY <1>3, <2>1, LocalFields, RemoveAssetType DEF DeleteObject, Disturb, TypeOK
<1>4. CASE DropOwner(p)
  <2>1. OtherOwners(p) \in SUBSET Owners
    BY LocalFields DEF OtherOwners
  <2>2. loc' \in [Controllers -> Local]
    BY <1>4, LocalFields, FinishDeleteType DEF DropOwner
  <2> QED
    BY <1>4, <2>1, <2>2, LocalFields DEF DropOwner, StoreOwners, OutdateCopies, TypeOK
<1>5. CASE RemoveFails(p)
  <2>1. loc' \in [Controllers -> Local]
    BY <1>5, LocalFields, FinishDeleteType DEF RemoveFails
  <2> QED
    BY <1>5, <2>1, FailType, LocalFields DEF RemoveFails, Disturb, TypeOK
<1>6. CASE EndDeletes(p)
  <2> DEFINE pc == IF loc[p].cleanup THEN "finalizer" ELSE "create"
  <2>1. pc \in {"finalizer", "create"}
    OBVIOUS
  <2> HIDE DEF pc
  <2>2. [loc[p] EXCEPT !.pc = pc] \in Local
    BY <2>1, LocalFields, LocalUpdate DEF PCs
  <2>3. loc' \in [Controllers -> Local]
    BY <1>6, <2>2, BecomeType DEF EndDeletes, pc
  <2> QED
    BY <1>6, <2>3 DEF EndDeletes, TypeOK
<1> QED
  BY <1>1, <1>2, <1>3, <1>4, <1>5, <1>6 DEF DeleteStep

-----------------------------------------------------------------------------
\* A key of the creating loop is taken up: five fields change.
LEMMA TakeKeyType ==
    ASSUME NEW r \in Local, NEW keys \in SUBSET Keys, NEW loaded \in SUBSET Assets,
           NEW lists \in AssetLists, NEW todo \in SUBSET (Keys \X Assets)
    PROVE  [r EXCEPT !.pc = "assets", !.keys = keys, !.loaded = loaded, !.lists = lists,
                     !.todo = todo] \in Local
<1> DEFINE r1 == [r EXCEPT !.pc = "assets", !.keys = keys, !.loaded = loaded]
<1>1. r1 \in Local
  BY DEF Local
<1>2. [r1 EXCEPT !.lists = lists, !.todo = todo] \in Local
  <2> HIDE DEF r1
  <2> QED
    BY <1>1 DEF Local
<1> QED
  BY <1>2 DEF Local

\* The steps of the creating loop keep the types.
LEMMA CreateType ==
    ASSUME TypeOK, NEW p \in Controllers, CreateStep(p)
    PROVE  TypeOK'
<1> USE DEF crVars, apiVars, history
<1>1. ASSUME NEW k \in loc[p].keys, VisitKey(p, k)
      PROVE  TypeOK'
  <2> DEFINE rest == loc[p].keys \ {k}
             todo == {k} \X Listed(loc[p].lists[k])
  <2>1. k \in Keys /\ rest \in SUBSET Keys
    BY LocalFields
  <2>2. todo \in SUBSET (Keys \X Assets)
    BY <2>1 DEF Listed
  <2> HIDE DEF rest, todo
  <2>3. [loc[p] EXCEPT !.pc = "assets", !.keys = rest, !.loaded = {}, !.todo = todo] \in Local
    <3>1. [loc[p] EXCEPT !.pc = "assets", !.keys = rest, !.loaded = {}] \in Local
      BY <2>1, LocalFields, LocalUpdate DEF PCs
    <3> QED
      BY <2>2, <3>1, LocalFields DEF Local
  <2>4. loc' \in [Controllers -> Local]
    BY <1>1, <2>3, BecomeType DEF VisitKey, rest, todo
  <2> QED
    BY <1>1, <2>4 DEF VisitKey, TypeOK
<1>2. ASSUME NEW k \in loc[p].keys, LoadKey(p, k)
      PROVE  TypeOK'
  <2> DEFINE listed(m) == [a \in Assets |-> IF a \in m THEN "unknown" ELSE "none"]
             lists(m) == [loc[p].lists EXCEPT ![k] = listed(m)]
             todo(m) == {k} \X m
             rest == loc[p].keys \ {k}
  <2>1. k \in Keys /\ rest \in SUBSET Keys
    BY LocalFields
  <2>2. PICK m \in Contents[k] :
           Become(p, [loc[p] EXCEPT !.pc = "assets", !.keys = rest, !.loaded = m,
                         !.lists = lists(m), !.todo = todo(m)])
    BY <1>2 DEF LoadKey
  <2>3. m \in SUBSET Assets
    BY <2>1, StackAssumption
  <2>4. lists(m) \in AssetLists
    <3>1. listed(m) \in [Assets -> AssetStates]
      BY DEF AssetStates
    <3> QED
      BY <3>1, LocalFields DEF AssetLists
  <2>5. todo(m) \in SUBSET (Keys \X Assets)
    BY <2>1, <2>3
  <2> HIDE DEF lists, todo, rest
  <2>6. [loc[p] EXCEPT !.pc = "assets", !.keys = rest, !.loaded = m,
            !.lists = lists(m), !.todo = todo(m)] \in Local
    BY <2>1, <2>3, <2>4, <2>5, LocalFields, TakeKeyType
  <2>7. loc' \in [Controllers -> Local]
    BY <2>2, <2>6, BecomeType
  <2> QED
    BY <1>2, <2>7, LocalFields DEF LoadKey, Disturb, TypeOK
<1>3. ASSUME NEW k \in loc[p].keys, LoadKeyFails(p, k)
      PROVE  TypeOK'
  <2> DEFINE rest == loc[p].keys \ {k}
             broken == loc[p].broken \cup {k}
  <2>1. rest \in SUBSET Keys /\ broken \in SUBSET Keys
    BY LocalFields
  <2> HIDE DEF rest, broken
  <2>2. [loc[p] EXCEPT !.keys = rest, !.broken = broken] \in Local
    BY <2>1, LocalFields, LocalUpdate DEF PCs
  <2>3. loc' \in [Controllers -> Local]
    BY <1>3, <2>2, BecomeType DEF LoadKeyFails, rest, broken
  <2> QED
    BY <1>3, <2>3, FailType DEF LoadKeyFails, TypeOK
<1>4. ASSUME NEW i \in loc[p].todo,
             CheckFails(p, i) \/ CheckOwned(p, i) \/ CheckMissingFails(p, i)
      PROVE  TypeOK'
  <2>1. i \in Keys \X Assets
    BY LocalFields
  <2>2. loc' \in [Controllers -> Local]
    BY <1>4, <2>1, FinishAssetType DEF CheckFails, CheckOwned, CheckMissingFails, AssetStates
  <2> QED
    BY <1>4, <2>2, FailType, LocalFields
       DEF CheckFails, CheckOwned, CheckMissingFails, Disturb, TypeOK
<1>5. ASSUME NEW i \in loc[p].todo, CheckUnowned(p, i)
      PROVE  TypeOK'
  <2>1. i \in Keys \X Assets /\ owners[i[2]] \in SUBSET Owners
    BY LocalFields DEF TypeOK
  <2>2. [loc[p] EXCEPT !.pc = "adopt", !.item = i, !.seen = owners[i[2]]] \in Local
    BY <2>1, LocalFields, LocalUpdate DEF PCs
  <2>3. loc' \in [Controllers -> Local]
    BY <1>5, <2>2, BecomeType DEF CheckUnowned
  <2> QED
    BY <1>5, <2>3 DEF CheckUnowned, TypeOK
<1>6. ASSUME NEW i \in loc[p].todo, CheckMissing(p, i)
      PROVE  TypeOK'
  <2> DEFINE failed == SetState(loc[p].lists, i, "failed")
             rest == loc[p].todo \ {i}
  <2>1. i \in Keys \X Assets /\ i[1] \in Keys /\ rest \in SUBSET (Keys \X Assets)
    BY LocalFields
  <2>2. failed \in AssetLists
    BY <2>1, LocalFields, SetStateType DEF AssetStates
  <2> HIDE DEF failed, rest
  <2>3. PICK m \in IF loc[p].loaded = {} THEN Contents[i[1]] ELSE {loc[p].loaded} :
           \/ Become(p, [loc[p] EXCEPT !.pc = "apply", !.item = i, !.loaded = m])
           \/ Become(p, [loc[p] EXCEPT !.todo = rest, !.loaded = m, !.lists = failed])
           \/ Become(p, [loc[p] EXCEPT !.todo = rest, !.loaded = m])
    BY <1>6 DEF CheckMissing, failed, rest
  <2>4. m \in SUBSET Assets
    BY <2>1, LocalFields, StackAssumption
  <2>5. [loc[p] EXCEPT !.pc = "apply", !.item = i, !.loaded = m] \in Local
    BY <2>1, <2>4, LocalFields, LocalUpdate DEF PCs
  <2>6. [loc[p] EXCEPT !.todo = rest, !.loaded = m, !.lists = failed] \in Local
    BY <2>1, <2>2, <2>4, LocalFields, LocalUpdate DEF PCs
  <2>7. [loc[p] EXCEPT !.todo = rest, !.loaded = m] \in Local
    BY <2>1, <2>4, LocalFields, LocalUpdate DEF PCs
  <2>8. loc' \in [Controllers -> Local]
    BY <2>3, <2>5, <2>6, <2>7, BecomeType
  <2> QED
    BY <1>6, <2>8, LocalFields DEF CheckMissing, Disturb, TypeOK
<1>7. CASE Adopt(p)
  <2>1. loc[p].seen \cup {loc[p].me} \in SUBSET Owners
    BY LocalFields
  <2>2. loc' \in [Controllers -> Local]
    BY <1>7, LocalFields, FinishAssetType DEF Adopt, AssetStates
  <2> QED
    BY <1>7, <2>1, <2>2, LocalFields DEF Adopt, StoreOwners, OutdateCopies, TypeOK
<1>8. CASE AdoptFails(p)
  <2>1. loc' \in [Controllers -> Local]
    BY <1>8, LocalFields, FinishAssetType DEF AdoptFails, AssetStates
  <2> QED
    BY <1>8, <2>1, FailType, LocalFields DEF AdoptFails, Disturb, TypeOK
<1>9. CASE Apply(p)
  <2> DEFINE a == loc[p].item[2]
             refs == IF a \in Triggers THEN owners[a] ELSE {loc[p].me}
  <2>1. a \in Assets /\ refs \in SUBSET Owners
    BY LocalFields DEF TypeOK
  <2>2. loc' \in [Controllers -> Local]
    BY <1>9, LocalFields, FinishAssetType DEF Apply, AssetStates
  <2>3. exists' = exists \cup {a} /\ StoreOwners(a, refs)
    BY <1>9 DEF Apply
  <2>4. disturbed' \subseteq Owners
    BY <1>9, <2>1, LocalFields DEF Apply, Disturb, TypeOK
  <2> HIDE DEF a, refs
  <2> QED
    BY <1>9, <2>1, <2>2, <2>3, <2>4 DEF Apply, StoreOwners, OutdateCopies, TypeOK
<1>10. CASE ApplyFails(p)
  <2>1. loc' \in [Controllers -> Local]
    BY <1>10, LocalFields, FinishAssetType DEF ApplyFails, AssetStates
  <2> QED
    BY <1>10, <2>1, FailType DEF ApplyFails, TypeOK
<1>11. CASE EndKey(p)
  <2>1. [loc[p] EXCEPT !.pc = "create", !.loaded = {}] \in Local
    BY LocalFields, LocalUpdate DEF PCs
  <2>2. loc' \in [Controllers -> Local]
    BY <1>11, <2>1, BecomeType DEF EndKey
  <2> QED
    BY <1>11, <2>2 DEF EndKey, TypeOK
<1>12. CASE EndCreates(p)
  <2>1. [loc[p] EXCEPT !.pc = "status"] \in Local
    BY LocalFields, LocalUpdate DEF PCs
  <2>2. loc' \in [Controllers -> Local]
    BY <1>12, <2>1, BecomeType DEF EndCreates
  <2> QED
    BY <1>12, <2>2 DEF EndCreates, TypeOK
<1> QED
  BY <1>1, <1>2, <1>3, <1>4, <1>5, <1>6, <1>7, <1>8, <1>9, <1>10, <1>11, <1>12 DEF CreateStep

-----------------------------------------------------------------------------
\* The status that a reconcile writes.
LEMMA NewStatusType ==
    ASSUME TypeOK, NEW p \in Controllers
    PROVE  NewStatus(p) \in Status
<1>1. EmptyList \in [Assets -> AssetStates]
  BY DEF EmptyList, AssetStates
<1>2. \A k \in Keys : loc[p].lists[k] \in [Assets -> AssetStates]
  BY LocalFields DEF AssetLists
<1> QED
  BY <1>1, <1>2, LocalFields DEF NewStatus, Status, AssetLists

\* The steps that end a reconcile keep the types.
LEMMA FinishType ==
    ASSUME TypeOK, NEW p \in Controllers, FinishStep(p)
    PROVE  TypeOK'
<1> USE DEF apiVars, history
<1>1. loc[p].me \in Owners /\ cr[loc[p].me] \in Resource
  BY LocalFields DEF TypeOK
<1>2. CASE WriteStatus(p)
  <2>1. [cr[loc[p].me] EXCEPT !.status = NewStatus(p)] \in Resource
    BY <1>1, NewStatusType DEF Resource
  <2>2. cr' \in [Owners -> Resource]
    BY <1>2, <2>1 DEF WriteStatus, TypeOK
  <2>3. loc' \in [Controllers -> Local] /\ fresh' \subseteq Controllers
    BY <1>2, EndReconcileType DEF WriteStatus
  <2>4. synced' \subseteq Owners /\ timer' \subseteq Owners
    BY <1>1, <1>2 DEF WriteStatus, TypeOK
  <2> QED
    BY <1>2, <2>2, <2>3, <2>4 DEF WriteStatus, TypeOK
<1>3. CASE WriteStatusFails(p)
  <2>1. loc' \in [Controllers -> Local] /\ fresh' \subseteq Controllers
    BY <1>3, EndReconcileType DEF WriteStatusFails
  <2>2. timer' \subseteq Owners
    BY <1>1, <1>3 DEF WriteStatusFails, TypeOK
  <2> QED
    BY <1>1, <1>3, <2>1, <2>2, FailType DEF WriteStatusFails, Disturb, TypeOK
<1>4. CASE RemoveFinalizer(p)
  <2> DEFINE r == [cr[loc[p].me] EXCEPT !.phase = "gone", !.finalizer = FALSE]
  <2>1. r \in Resource
    BY <1>1 DEF Resource
  <2>2. cr' = [cr EXCEPT ![loc[p].me] = r]
    BY <1>1, <1>4 DEF RemoveFinalizer, TypeOK
  <2> HIDE DEF r
  <2>3. cr' \in [Owners -> Resource]
    BY <2>1, <2>2 DEF TypeOK
  <2>4. loc' \in [Controllers -> Local] /\ fresh' \subseteq Controllers
    BY <1>4, EndReconcileType DEF RemoveFinalizer
  <2> QED
    BY <1>4, <2>3, <2>4 DEF RemoveFinalizer, TypeOK
<1>5. CASE RemoveFinalizerFails(p)
  <2>1. loc' \in [Controllers -> Local] /\ fresh' \subseteq Controllers
    BY <1>5, EndReconcileType DEF RemoveFinalizerFails
  <2> QED
    BY <1>1, <1>5, <2>1, FailType DEF RemoveFinalizerFails, TypeOK
<1> QED
  BY <1>2, <1>3, <1>4, <1>5 DEF FinishStep

\* A restart keeps the types.
LEMMA RestartType ==
    ASSUME TypeOK, NEW p \in Controllers, Restart(p)
    PROVE  TypeOK'
<1>1. loc' \in [Controllers -> Local] /\ fresh' \subseteq Controllers
  BY EndReconcileType DEF Restart
<1>2. cache' \in [Owners -> Resource]
  BY DEF Restart, TypeOK
<1> QED
  BY <1>1, <1>2, FailType DEF Restart, TypeOK, history

\* Every variable keeps its type, with any stacks, zips and assets and whatever
\* fails: in particular the status that is written has one of the three asset
\* states for every asset it lists.
THEOREM TypeCorrect == Spec => []TypeOK
<1>1. TypeOK /\ [Next]_vars => TypeOK'
  <2> SUFFICES ASSUME TypeOK, [Next]_vars PROVE TypeOK'
    OBVIOUS
  <2>1. ASSUME NEW p \in Controllers, ControllerStep(p) PROVE TypeOK'
    <3>1. ASSUME NEW o \in queue, BeginStep(p, o) PROVE TypeOK'
      <4>1. o \in Owners
        BY DEF TypeOK
      <4> QED
        BY <3>1, <4>1, BeginType
    <3> QED
      BY <2>1, <3>1, DeleteType, CreateType, FinishType DEF ControllerStep
  <2>2. CASE UNCHANGED vars
    BY <2>2 DEF vars, TypeOK
  <2> QED
    BY <2>1, <2>2, RestartType, EnvironmentType DEF Next
<1> QED
  BY <1>1, InitType, PTL DEF Spec

-----------------------------------------------------------------------------
(* What the steps of a controller do to its local state *)

\* The other controller stays where it is.
OthersStay(p) == \A q \in Controllers : q # p => loc'[q] = loc[q]

\* The same owner is reconciled, on account of the same spec.
SameRun(p) ==
    /\ loc'[p].me = loc[p].me /\ loc'[p].cleanup = loc[p].cleanup
    /\ loc'[p].spec = loc[p].spec

\* The next local state is r.
LEMMA BecomeEffect ==
    ASSUME TypeOK, NEW p \in Controllers, NEW r, Become(p, r)
    PROVE  loc'[p] = r /\ OthersStay(p)
  BY DEF Become, TypeOK, OthersStay

\* The fields of the idle state.
LEMMA IdleFields ==
    /\ IdleState.pc = "idle" /\ IdleState.cleanup = FALSE /\ IdleState.spec = {}
    /\ IdleState.lists = NoLists /\ IdleState.keys = {} /\ IdleState.todo = {}
    /\ IdleState.loaded = {} /\ IdleState.seen = {} /\ IdleState.broken = {}
  BY DEF IdleState

\* ActivatePipelines starts.
LEMMA ActivateEffect ==
    ASSUME TypeOK, NEW p \in Controllers, NEW o, NEW r, Activate(p, o, r)
    PROVE  /\ loc'[p].pc = "delete" /\ loc'[p].me = o /\ loc'[p].cleanup = FALSE
           /\ loc'[p].spec = r.spec /\ loc'[p].lists = r.status.assets
           /\ loc'[p].keys = RetainedKeys(r.spec, r.status.uses)
           /\ loc'[p].todo = ActiveAssets(DroppedKeys(r.spec, r.status.uses), r.status)
           /\ loc'[p].loaded = {} /\ loc'[p].seen = {} /\ loc'[p].broken = {}
           /\ OthersStay(p)
<1> DEFINE keys == RetainedKeys(r.spec, r.status.uses)
           todo == ActiveAssets(DroppedKeys(r.spec, r.status.uses), r.status)
           spec == r.spec
           lists == r.status.assets
           s == [IdleState EXCEPT !.pc = "delete", !.me = o, !.spec = spec, !.lists = lists,
                                  !.keys = keys, !.todo = todo]
<1>1. loc'[p] = s /\ OthersStay(p)
  BY BecomeEffect DEF Activate
<1> HIDE DEF keys, todo, spec, lists
<1>2. /\ s.pc = "delete" /\ s.me = o /\ s.cleanup = FALSE /\ s.spec = spec
      /\ s.lists = lists /\ s.keys = keys /\ s.todo = todo
      /\ s.loaded = {} /\ s.seen = {} /\ s.broken = {}
  BY DEF IdleState
<1> QED
  BY <1>1, <1>2 DEF keys, todo, spec, lists

\* A cleanup starts.
LEMMA CleanupEffect ==
    ASSUME TypeOK, NEW p \in Controllers, NEW o, BeginCleanup(p, o)
    PROVE  /\ loc'[p].pc = "delete" /\ loc'[p].me = o /\ loc'[p].cleanup = TRUE
           /\ loc'[p].spec = {} /\ loc'[p].lists = NoLists /\ loc'[p].keys = {}
           /\ loc'[p].todo = ActiveAssets(KeysOf(cache[o].status.uses), cache[o].status)
           /\ loc'[p].loaded = {} /\ loc'[p].seen = {} /\ loc'[p].broken = {}
           /\ OthersStay(p)
<1> DEFINE todo == ActiveAssets(KeysOf(cache[o].status.uses), cache[o].status)
           s == [IdleState EXCEPT !.pc = "delete", !.me = o, !.cleanup = TRUE, !.todo = todo]
<1>1. loc'[p] = s /\ OthersStay(p)
  BY BecomeEffect DEF BeginCleanup
<1> HIDE DEF todo
<1>2. /\ s.pc = "delete" /\ s.me = o /\ s.cleanup = TRUE /\ s.spec = {}
      /\ s.lists = NoLists /\ s.keys = {} /\ s.todo = todo
      /\ s.loaded = {} /\ s.seen = {} /\ s.broken = {}
  BY DEF IdleState
<1> QED
  BY <1>1, <1>2 DEF todo

\* The call about an asset to delete is over.
LEMMA FinishDeleteEffect ==
    ASSUME TypeOK, NEW p \in Controllers, NEW i, FinishDelete(p, i)
    PROVE  /\ loc'[p].pc = "delete" /\ loc'[p].todo = loc[p].todo \ {i} /\ SameRun(p)
           /\ loc'[p].lists = loc[p].lists /\ loc'[p].keys = loc[p].keys
           /\ loc'[p].loaded = loc[p].loaded /\ loc'[p].broken = loc[p].broken
           /\ OthersStay(p)
<1> DEFINE s == [loc[p] EXCEPT !.pc = "delete", !.todo = loc[p].todo \ {i}, !.item = NoItem,
                               !.seen = {}]
<1>1. loc'[p] = s /\ OthersStay(p)
  BY BecomeEffect DEF FinishDelete
<1>2. /\ s.pc = "delete" /\ s.todo = loc[p].todo \ {i}
      /\ s.me = loc[p].me /\ s.cleanup = loc[p].cleanup /\ s.spec = loc[p].spec
      /\ s.lists = loc[p].lists /\ s.keys = loc[p].keys
      /\ s.loaded = loc[p].loaded /\ s.broken = loc[p].broken
  BY LocalFields DEF Local
<1> QED
  BY <1>1, <1>2 DEF SameRun

\* An asset to delete was found.
LEMMA GetForDeleteEffect ==
    ASSUME TypeOK, NEW p \in Controllers, NEW i, GetForDelete(p, i)
    PROVE  /\ loc'[p].pc = "remove" /\ loc'[p].item = i /\ loc'[p].seen = owners[i[2]]
           /\ loc'[p].todo = loc[p].todo /\ SameRun(p)
           /\ loc'[p].lists = loc[p].lists /\ loc'[p].keys = loc[p].keys
           /\ loc'[p].loaded = loc[p].loaded /\ loc'[p].broken = loc[p].broken
           /\ OthersStay(p)
<1> DEFINE s == [loc[p] EXCEPT !.pc = "remove", !.item = i, !.seen = owners[i[2]]]
<1>1. loc'[p] = s /\ OthersStay(p)
  BY BecomeEffect DEF GetForDelete
<1>2. /\ s.pc = "remove" /\ s.item = i /\ s.seen = owners[i[2]] /\ s.todo = loc[p].todo
      /\ s.me = loc[p].me /\ s.cleanup = loc[p].cleanup /\ s.spec = loc[p].spec
      /\ s.lists = loc[p].lists /\ s.keys = loc[p].keys
      /\ s.loaded = loc[p].loaded /\ s.broken = loc[p].broken
  BY LocalFields DEF Local
<1> QED
  BY <1>1, <1>2 DEF SameRun

\* The deleting loop ends.
LEMMA EndDeletesEffect ==
    ASSUME TypeOK, NEW p \in Controllers, EndDeletes(p)
    PROVE  /\ loc'[p].pc = (IF loc[p].cleanup THEN "finalizer" ELSE "create")
           /\ loc'[p].todo = loc[p].todo /\ SameRun(p)
           /\ loc'[p].lists = loc[p].lists /\ loc'[p].keys = loc[p].keys
           /\ loc'[p].loaded = loc[p].loaded /\ loc'[p].broken = loc[p].broken
           /\ OthersStay(p)
<1> DEFINE pc == IF loc[p].cleanup THEN "finalizer" ELSE "create"
           s == [loc[p] EXCEPT !.pc = pc]
<1>1. loc'[p] = s /\ OthersStay(p)
  BY BecomeEffect DEF EndDeletes
<1> HIDE DEF pc
<1>2. /\ s.pc = pc /\ s.todo = loc[p].todo
      /\ s.me = loc[p].me /\ s.cleanup = loc[p].cleanup /\ s.spec = loc[p].spec
      /\ s.lists = loc[p].lists /\ s.keys = loc[p].keys
      /\ s.loaded = loc[p].loaded /\ s.broken = loc[p].broken
  BY LocalFields DEF Local
<1> QED
  BY <1>1, <1>2 DEF SameRun, pc

\* A key with a list is taken up.
LEMMA VisitKeyEffect ==
    ASSUME TypeOK, NEW p \in Controllers, NEW k, VisitKey(p, k)
    PROVE  /\ loc'[p].pc = "assets" /\ loc'[p].keys = loc[p].keys \ {k} /\ loc'[p].loaded = {}
           /\ loc'[p].todo = {k} \X Listed(loc[p].lists[k]) /\ SameRun(p)
           /\ loc'[p].lists = loc[p].lists /\ loc'[p].broken = loc[p].broken
           /\ OthersStay(p)
<1> DEFINE todo == {k} \X Listed(loc[p].lists[k])
           s == [loc[p] EXCEPT !.pc = "assets", !.keys = loc[p].keys \ {k}, !.loaded = {},
                               !.todo = todo]
<1>1. loc'[p] = s /\ OthersStay(p)
  BY BecomeEffect DEF VisitKey
<1> HIDE DEF todo
<1>2. /\ s.pc = "assets" /\ s.keys = loc[p].keys \ {k} /\ s.loaded = {} /\ s.todo = todo
      /\ s.me = loc[p].me /\ s.cleanup = loc[p].cleanup /\ s.spec = loc[p].spec
      /\ s.lists = loc[p].lists /\ s.broken = loc[p].broken
  BY LocalFields DEF Local
<1> QED
  BY <1>1, <1>2 DEF SameRun, todo

\* The list that a zip without one gets.
NewList(m) == [a \in Assets |-> IF a \in m THEN "unknown" ELSE "none"]

\* A key without a list is taken up.
LEMMA LoadKeyEffect ==
    ASSUME TypeOK, NEW p \in Controllers, NEW k, LoadKey(p, k)
    PROVE  \E m \in Contents[k] :
           /\ loc'[p].pc = "assets" /\ loc'[p].keys = loc[p].keys \ {k} /\ loc'[p].loaded = m
           /\ loc'[p].lists = [loc[p].lists EXCEPT ![k] = NewList(m)]
           /\ loc'[p].todo = {k} \X m /\ SameRun(p) /\ loc'[p].broken = loc[p].broken
           /\ OthersStay(p) /\ Disturb(IF m = Usual[k] THEN {} ELSE {loc[p].me})
<1> DEFINE todo(m) == {k} \X m
           lists(m) == [loc[p].lists EXCEPT ![k] = NewList(m)]
           s(m) == [loc[p] EXCEPT !.pc = "assets", !.keys = loc[p].keys \ {k}, !.loaded = m,
                                  !.lists = lists(m), !.todo = todo(m)]
<1>1. PICK m \in Contents[k] :
         Become(p, s(m)) /\ Disturb(IF m = Usual[k] THEN {} ELSE {loc[p].me})
  BY DEF LoadKey, NewList
<1>2. loc'[p] = s(m) /\ OthersStay(p)
  BY <1>1, BecomeEffect
<1> HIDE DEF todo, lists
<1>3. /\ s(m).pc = "assets" /\ s(m).keys = loc[p].keys \ {k} /\ s(m).loaded = m
      /\ s(m).lists = lists(m) /\ s(m).todo = todo(m)
      /\ s(m).me = loc[p].me /\ s(m).cleanup = loc[p].cleanup /\ s(m).spec = loc[p].spec
      /\ s(m).broken = loc[p].broken
  BY LocalFields DEF Local
<1> QED
  BY <1>1, <1>2, <1>3 DEF SameRun, todo, lists

\* A zip cannot be read.
LEMMA LoadKeyFailsEffect ==
    ASSUME TypeOK, NEW p \in Controllers, NEW k, LoadKeyFails(p, k)
    PROVE  /\ loc'[p].pc = "create" /\ loc'[p].keys = loc[p].keys \ {k}
           /\ loc'[p].broken = loc[p].broken \cup {k}
           /\ loc'[p].todo = loc[p].todo /\ SameRun(p)
           /\ loc'[p].lists = loc[p].lists /\ loc'[p].loaded = loc[p].loaded
           /\ OthersStay(p)
<1> DEFINE s == [loc[p] EXCEPT !.keys = loc[p].keys \ {k}, !.broken = loc[p].broken \cup {k}]
<1>1. loc'[p] = s /\ OthersStay(p) /\ loc[p].pc = "create"
  BY BecomeEffect DEF LoadKeyFails
<1>2. /\ s.pc = loc[p].pc /\ s.keys = loc[p].keys \ {k} /\ s.broken = loc[p].broken \cup {k}
      /\ s.todo = loc[p].todo
      /\ s.me = loc[p].me /\ s.cleanup = loc[p].cleanup /\ s.spec = loc[p].spec
      /\ s.lists = loc[p].lists /\ s.loaded = loc[p].loaded
  BY LocalFields DEF Local
<1> QED
  BY <1>1, <1>2 DEF SameRun

\* The call about an asset to create is over.
LEMMA FinishAssetEffect ==
    ASSUME TypeOK, NEW p \in Controllers, NEW i, NEW st, FinishAsset(p, i, st)
    PROVE  /\ loc'[p].pc = "assets" /\ loc'[p].todo = loc[p].todo \ {i} /\ SameRun(p)
           /\ loc'[p].lists = SetState(loc[p].lists, i, st) /\ loc'[p].keys = loc[p].keys
           /\ loc'[p].loaded = loc[p].loaded /\ loc'[p].broken = loc[p].broken
           /\ OthersStay(p)
<1> DEFINE lists == SetState(loc[p].lists, i, st)
           s == [loc[p] EXCEPT !.pc = "assets", !.todo = loc[p].todo \ {i}, !.lists = lists,
                               !.item = NoItem, !.seen = {}]
<1>1. loc'[p] = s /\ OthersStay(p)
  BY BecomeEffect DEF FinishAsset
<1> HIDE DEF lists
<1>2. /\ s.pc = "assets" /\ s.todo = loc[p].todo \ {i} /\ s.lists = lists
      /\ s.me = loc[p].me /\ s.cleanup = loc[p].cleanup /\ s.spec = loc[p].spec
      /\ s.keys = loc[p].keys /\ s.loaded = loc[p].loaded /\ s.broken = loc[p].broken
  BY LocalFields DEF Local
<1> QED
  BY <1>1, <1>2 DEF SameRun, lists

\* An asset to create was found, without our reference.
LEMMA CheckUnownedEffect ==
    ASSUME TypeOK, NEW p \in Controllers, NEW i, CheckUnowned(p, i)
    PROVE  /\ loc'[p].pc = "adopt" /\ loc'[p].item = i /\ loc'[p].seen = owners[i[2]]
           /\ loc'[p].todo = loc[p].todo /\ SameRun(p)
           /\ loc'[p].lists = loc[p].lists /\ loc'[p].keys = loc[p].keys
           /\ loc'[p].loaded = loc[p].loaded /\ loc'[p].broken = loc[p].broken
           /\ OthersStay(p)
<1> DEFINE s == [loc[p] EXCEPT !.pc = "adopt", !.item = i, !.seen = owners[i[2]]]
<1>1. loc'[p] = s /\ OthersStay(p)
  BY BecomeEffect DEF CheckUnowned
<1>2. /\ s.pc = "adopt" /\ s.item = i /\ s.seen = owners[i[2]] /\ s.todo = loc[p].todo
      /\ s.me = loc[p].me /\ s.cleanup = loc[p].cleanup /\ s.spec = loc[p].spec
      /\ s.lists = loc[p].lists /\ s.keys = loc[p].keys
      /\ s.loaded = loc[p].loaded /\ s.broken = loc[p].broken
  BY LocalFields DEF Local
<1> QED
  BY <1>1, <1>2 DEF SameRun

\* What the manifests say of a missing asset.
Manifests(p, i) == IF loc[p].loaded = {} THEN Contents[i[1]] ELSE {loc[p].loaded}

\* An asset to create is missing.
LEMMA CheckMissingEffect ==
    ASSUME TypeOK, NEW p \in Controllers, NEW i, CheckMissing(p, i)
    PROVE  \E m \in Manifests(p, i) :
           /\ \/ /\ i[2] \in m \ Foreign
                 /\ loc'[p].pc = "apply" /\ loc'[p].item = i /\ loc'[p].todo = loc[p].todo
                 /\ loc'[p].lists = loc[p].lists
              \/ /\ i[2] \in m \cap Foreign
                 /\ loc'[p].pc = "assets" /\ loc'[p].todo = loc[p].todo \ {i}
                 /\ loc'[p].lists = SetState(loc[p].lists, i, "failed")
              \/ /\ i[2] \notin m
                 /\ loc'[p].pc = "assets" /\ loc'[p].todo = loc[p].todo \ {i}
                 /\ loc'[p].lists = loc[p].lists
           /\ loc'[p].loaded = m /\ SameRun(p)
           /\ loc'[p].keys = loc[p].keys /\ loc'[p].broken = loc[p].broken
           /\ OthersStay(p) /\ Disturb(IF m = Usual[i[1]] THEN {} ELSE {loc[p].me})
<1> DEFINE lists == SetState(loc[p].lists, i, "failed")
           r1(m) == [loc[p] EXCEPT !.pc = "apply", !.item = i, !.loaded = m]
           r2(m) == [loc[p] EXCEPT !.todo = loc[p].todo \ {i}, !.loaded = m, !.lists = lists]
           r3(m) == [loc[p] EXCEPT !.todo = loc[p].todo \ {i}, !.loaded = m]
<1>1. PICK m \in Manifests(p, i) :
         /\ \/ i[2] \in m \ Foreign /\ Become(p, r1(m))
            \/ i[2] \in m \cap Foreign /\ Become(p, r2(m))
            \/ i[2] \notin m /\ Become(p, r3(m))
         /\ Disturb(IF m = Usual[i[1]] THEN {} ELSE {loc[p].me})
  BY DEF CheckMissing, Manifests
<1>2. loc[p].pc = "assets"
  BY DEF CheckMissing
<1> HIDE DEF lists
<1>3. /\ r1(m).pc = "apply" /\ r1(m).item = i /\ r1(m).todo = loc[p].todo
      /\ r1(m).lists = loc[p].lists /\ r1(m).loaded = m
      /\ r1(m).me = loc[p].me /\ r1(m).cleanup = loc[p].cleanup /\ r1(m).spec = loc[p].spec
      /\ r1(m).keys = loc[p].keys /\ r1(m).broken = loc[p].broken
  BY LocalFields DEF Local
<1>4. /\ r2(m).pc = loc[p].pc /\ r2(m).todo = loc[p].todo \ {i}
      /\ r2(m).lists = lists /\ r2(m).loaded = m
      /\ r2(m).me = loc[p].me /\ r2(m).cleanup = loc[p].cleanup /\ r2(m).spec = loc[p].spec
      /\ r2(m).keys = loc[p].keys /\ r2(m).broken = loc[p].broken
  BY LocalFields DEF Local
<1>5. /\ r3(m).pc = loc[p].pc /\ r3(m).todo = loc[p].todo \ {i}
      /\ r3(m).lists = loc[p].lists /\ r3(m).loaded = m
      /\ r3(m).me = loc[p].me /\ r3(m).cleanup = loc[p].cleanup /\ r3(m).spec = loc[p].spec
      /\ r3(m).keys = loc[p].keys /\ r3(m).broken = loc[p].broken
  BY LocalFields DEF Local
<1> HIDE DEF r1, r2, r3
<1>6. CASE i[2] \in m \ Foreign /\ Become(p, r1(m))
  BY <1>1, <1>3, <1>6, BecomeEffect DEF SameRun
<1>7. CASE i[2] \in m \cap Foreign /\ Become(p, r2(m))
  BY <1>1, <1>2, <1>4, <1>7, BecomeEffect DEF SameRun, lists
<1>8. CASE i[2] \notin m /\ Become(p, r3(m))
  BY <1>1, <1>2, <1>5, <1>8, BecomeEffect DEF SameRun
<1> QED
  BY <1>1, <1>6, <1>7, <1>8

\* The assets of a key have been visited.
LEMMA EndKeyEffect ==
    ASSUME TypeOK, NEW p \in Controllers, EndKey(p)
    PROVE  /\ loc'[p].pc = "create" /\ loc'[p].loaded = {}
           /\ loc'[p].todo = loc[p].todo /\ SameRun(p)
           /\ loc'[p].lists = loc[p].lists /\ loc'[p].keys = loc[p].keys
           /\ loc'[p].broken = loc[p].broken
           /\ OthersStay(p)
<1> DEFINE s == [loc[p] EXCEPT !.pc = "create", !.loaded = {}]
<1>1. loc'[p] = s /\ OthersStay(p)
  BY BecomeEffect DEF EndKey
<1>2. /\ s.pc = "create" /\ s.loaded = {} /\ s.todo = loc[p].todo
      /\ s.me = loc[p].me /\ s.cleanup = loc[p].cleanup /\ s.spec = loc[p].spec
      /\ s.lists = loc[p].lists /\ s.keys = loc[p].keys /\ s.broken = loc[p].broken
  BY LocalFields DEF Local
<1> QED
  BY <1>1, <1>2 DEF SameRun

\* All keys have been visited.
LEMMA EndCreatesEffect ==
    ASSUME TypeOK, NEW p \in Controllers, EndCreates(p)
    PROVE  /\ loc'[p].pc = "status"
           /\ loc'[p].todo = loc[p].todo /\ SameRun(p)
           /\ loc'[p].lists = loc[p].lists /\ loc'[p].keys = loc[p].keys
           /\ loc'[p].loaded = loc[p].loaded /\ loc'[p].broken = loc[p].broken
           /\ OthersStay(p)
<1> DEFINE s == [loc[p] EXCEPT !.pc = "status"]
<1>1. loc'[p] = s /\ OthersStay(p)
  BY BecomeEffect DEF EndCreates
<1>2. /\ s.pc = "status" /\ s.todo = loc[p].todo
      /\ s.me = loc[p].me /\ s.cleanup = loc[p].cleanup /\ s.spec = loc[p].spec
      /\ s.lists = loc[p].lists /\ s.keys = loc[p].keys
      /\ s.loaded = loc[p].loaded /\ s.broken = loc[p].broken
  BY LocalFields DEF Local
<1> QED
  BY <1>1, <1>2 DEF SameRun

\* A reconcile ends.
LEMMA EndReconcileEffect ==
    ASSUME TypeOK, NEW p \in Controllers, EndReconcile(p)
    PROVE  loc'[p] = IdleState /\ loc'[p].pc = "idle" /\ OthersStay(p)
  BY BecomeEffect, IdleFields DEF EndReconcile

-----------------------------------------------------------------------------
(* Own references only *)

\* Between a Get and the call that follows it.
Holding(p) == loc[p].pc \in {"remove", "adopt"}

\* What a controller has seen of the asset it works on is what is stored, as
\* long as its copy is the latest version.
HeldMatches ==
    \A p \in Controllers :
        p \in held /\ Holding(p) => /\ loc[p].item[2] \in exists
                                   /\ loc[p].seen = owners[loc[p].item[2]]

\* Who is between the two calls after a step was so before.
HoldersStay == \A q \in Controllers : Holding(q)' => loc'[q] = loc[q]

\* No asset changes.
LEMMA UnchangedKeepsHeld ==
    ASSUME HeldMatches, HoldersStay, UNCHANGED <<exists, owners>>, held' \subseteq held
    PROVE  HeldMatches'
  BY DEF HeldMatches, HoldersStay, Holding

\* The references of one asset change, and its copies are outdated.
LEMMA StoreKeepsHeld ==
    ASSUME TypeOK, HeldMatches, HoldersStay, NEW a \in Assets, NEW refs, StoreOwners(a, refs),
           exists \ {a} \subseteq exists'
    PROVE  HeldMatches'
<1> SUFFICES ASSUME NEW q \in Controllers, q \in held', Holding(q)'
             PROVE  loc'[q].item[2] \in exists' /\ loc'[q].seen = owners'[loc'[q].item[2]]
  BY DEF HeldMatches
<1>1. loc'[q] = loc[q] /\ q \in held /\ loc[q].item[2] # a /\ Holding(q)
  BY DEF HoldersStay, StoreOwners, OutdateCopies, Holding
<1>2. owners'[loc[q].item[2]] = owners[loc[q].item[2]]
  BY <1>1, LocalFields DEF StoreOwners, TypeOK
<1> QED
  BY <1>1, <1>2 DEF HeldMatches

\* A controller has just got an asset.
LEMMA GetKeepsHeld ==
    ASSUME TypeOK, HeldMatches, NEW p \in Controllers, NEW i, i[2] \in exists,
           UNCHANGED <<exists, owners>>, held' = held \cup {p}, OthersStay(p),
           loc'[p].item = i, loc'[p].seen = owners[i[2]]
    PROVE  HeldMatches'
  BY DEF HeldMatches, Holding, OthersStay

\* A controller moves on to another step.
LEMMA MoveOn ==
    ASSUME NEW p \in Controllers, OthersStay(p), loc'[p].pc \notin {"remove", "adopt"}
    PROVE  HoldersStay
  BY DEF HoldersStay, Holding, OthersStay

\* The start of a reconcile.
LEMMA BeginKeepsHeld ==
    ASSUME TypeOK, HeldMatches, NEW p \in Controllers, NEW o, BeginStep(p, o)
    PROVE  HeldMatches'
<1>1. CASE BeginGone(p, o) \/ BeginNewFails(p, o)
  BY <1>1 DEF BeginGone, BeginNewFails, HeldMatches, Holding, apiVars
<1>2. CASE BeginLive(p, o) \/ BeginNew(p, o)
  <2>1. OthersStay(p) /\ loc'[p].pc = "delete"
    BY <1>2, ActivateEffect DEF BeginLive, BeginNew
  <2> QED
    BY <1>2, <2>1, MoveOn, UnchangedKeepsHeld DEF BeginLive, BeginNew, apiVars
<1>3. CASE BeginCleanup(p, o)
  BY <1>3, CleanupEffect, MoveOn, UnchangedKeepsHeld DEF BeginCleanup, apiVars
<1> QED
  BY <1>1, <1>2, <1>3 DEF BeginStep

\* The deleting loop.
LEMMA DeleteKeepsHeld ==
    ASSUME TypeOK, HeldMatches, NEW p \in Controllers, DeleteStep(p)
    PROVE  HeldMatches'
<1>1. ASSUME NEW i \in loc[p].todo, SkipDelete(p, i)
      PROVE  HeldMatches'
  BY <1>1, FinishDeleteEffect, MoveOn, UnchangedKeepsHeld DEF SkipDelete, apiVars
<1>2. ASSUME NEW i \in loc[p].todo, GetForDelete(p, i)
      PROVE  HeldMatches'
  BY <1>2, GetForDeleteEffect, GetKeepsHeld DEF GetForDelete
<1>3. CASE DeleteObject(p)
  BY <1>3, FinishDeleteEffect, MoveOn, LocalFields, StoreKeepsHeld DEF DeleteObject, RemoveAsset
<1>4. CASE DropOwner(p)
  BY <1>4, FinishDeleteEffect, MoveOn, LocalFields, StoreKeepsHeld DEF DropOwner
<1>5. CASE RemoveFails(p)
  BY <1>5, FinishDeleteEffect, MoveOn, UnchangedKeepsHeld DEF RemoveFails
<1>6. CASE EndDeletes(p)
  BY <1>6, EndDeletesEffect, MoveOn, UnchangedKeepsHeld DEF EndDeletes, apiVars
<1> QED
  BY <1>1, <1>2, <1>3, <1>4, <1>5, <1>6 DEF DeleteStep

\* The creating loop.
LEMMA CreateKeepsHeld ==
    ASSUME TypeOK, HeldMatches, NEW p \in Controllers, CreateStep(p)
    PROVE  HeldMatches'
<1>1. ASSUME NEW k \in loc[p].keys, VisitKey(p, k) \/ LoadKey(p, k) \/ LoadKeyFails(p, k)
      PROVE  HeldMatches'
  <2>1. OthersStay(p) /\ loc'[p].pc \in {"assets", "create"}
    BY <1>1, VisitKeyEffect, LoadKeyEffect, LoadKeyFailsEffect
  <2> QED
    BY <1>1, <2>1, MoveOn, UnchangedKeepsHeld DEF VisitKey, LoadKey, LoadKeyFails, apiVars
<1>2. ASSUME NEW i \in loc[p].todo,
             CheckFails(p, i) \/ CheckOwned(p, i) \/ CheckMissingFails(p, i)
      PROVE  HeldMatches'
  <2>1. OthersStay(p) /\ loc'[p].pc = "assets"
    BY <1>2, FinishAssetEffect DEF CheckFails, CheckOwned, CheckMissingFails
  <2> QED
    BY <1>2, <2>1, MoveOn, UnchangedKeepsHeld DEF CheckFails, CheckOwned, CheckMissingFails, apiVars
<1>3. ASSUME NEW i \in loc[p].todo, CheckUnowned(p, i)
      PROVE  HeldMatches'
  BY <1>3, CheckUnownedEffect, GetKeepsHeld DEF CheckUnowned
<1>4. ASSUME NEW i \in loc[p].todo, CheckMissing(p, i)
      PROVE  HeldMatches'
  <2>1. OthersStay(p) /\ loc'[p].pc \in {"apply", "assets"}
    BY <1>4, CheckMissingEffect
  <2> QED
    BY <1>4, <2>1, MoveOn, UnchangedKeepsHeld DEF CheckMissing, apiVars
<1>5. CASE Adopt(p)
  BY <1>5, FinishAssetEffect, MoveOn, LocalFields, StoreKeepsHeld DEF Adopt
<1>6. CASE AdoptFails(p)
  BY <1>6, FinishAssetEffect, MoveOn, UnchangedKeepsHeld DEF AdoptFails
<1>7. CASE Apply(p)
  BY <1>7, FinishAssetEffect, MoveOn, LocalFields, StoreKeepsHeld DEF Apply
<1>8. CASE ApplyFails(p)
  BY <1>8, FinishAssetEffect, MoveOn, UnchangedKeepsHeld DEF ApplyFails, apiVars
<1>9. CASE EndKey(p)
  BY <1>9, EndKeyEffect, MoveOn, UnchangedKeepsHeld DEF EndKey, apiVars
<1>10. CASE EndCreates(p)
  BY <1>10, EndCreatesEffect, MoveOn, UnchangedKeepsHeld DEF EndCreates, apiVars
<1> QED
  BY <1>1, <1>2, <1>3, <1>4, <1>5, <1>6, <1>7, <1>8, <1>9, <1>10 DEF CreateStep

\* The end of a reconcile, and a restart.
LEMMA FinishKeepsHeld ==
    ASSUME TypeOK, HeldMatches, NEW p \in Controllers, FinishStep(p) \/ Restart(p)
    PROVE  HeldMatches'
<1>1. EndReconcile(p)
  BY DEF FinishStep, WriteStatus, WriteStatusFails, RemoveFinalizer, RemoveFinalizerFails, Restart
<1>2. UNCHANGED <<exists, owners>> /\ held' \subseteq held
  BY DEF FinishStep, WriteStatus, WriteStatusFails, RemoveFinalizer, RemoveFinalizerFails, Restart,
         apiVars
<1> QED
  BY <1>1, <1>2, EndReconcileEffect, MoveOn, UnchangedKeepsHeld

\* The environment.
LEMMA EnvironmentKeepsHeld ==
    ASSUME TypeOK, HeldMatches, Environment
    PROVE  HeldMatches'
<1>1. HoldersStay
  BY DEF Environment, CreateOrEdit, DeleteOwner, DeliverEvent, FireTimer, LoseAsset, CollectGarbage,
         HoldersStay
<1>2. CASE UNCHANGED <<exists, owners, held>>
  BY <1>1, <1>2, UnchangedKeepsHeld
<1>3. ASSUME NEW a \in Assets, LoseAsset(a) \/ CollectGarbage(a)
      PROVE  HeldMatches'
  <2>1. (\E refs : StoreOwners(a, refs)) /\ exists \ {a} \subseteq exists'
    BY <1>3 DEF LoseAsset, CollectGarbage, RemoveAsset
  <2> QED
    BY <1>1, <2>1, StoreKeepsHeld
<1> QED
  BY <1>2, <1>3 DEF Environment, CreateOrEdit, DeleteOwner, DeliverEvent, FireTimer, apiVars

\* What is held and not outdated is true.
LEMMA HeldAlwaysMatches == Spec => []HeldMatches
<1>1. Init => HeldMatches
  BY DEF Init, HeldMatches
<1>2. TypeOK /\ HeldMatches /\ [Next]_vars => HeldMatches'
  <2> SUFFICES ASSUME TypeOK, HeldMatches, [Next]_vars PROVE HeldMatches'
    OBVIOUS
  <2>1. CASE UNCHANGED vars
    BY <2>1 DEF vars, HeldMatches, Holding
  <2> QED
    BY <2>1, BeginKeepsHeld, DeleteKeepsHeld, CreateKeepsHeld, FinishKeepsHeld,
       EnvironmentKeepsHeld DEF Next, ControllerStep
<1> QED
  BY <1>1, <1>2, TypeCorrect, PTL DEF Spec

\* Two controllers may work on one object at the same time, with other clients
\* in between: an Update changes no reference but the writer's own.
THEOREM OwnReferences == Spec => OwnReferencesOnly
<1> DEFINE Own == \A p \in Controllers :
                    DropOwner(p) \/ Adopt(p) =>
                      LET a == loc[p].item[2]  me == {loc[p].me}
                      IN  owners'[a] \ me = owners[a] \ me
<1>1. TypeOK /\ HeldMatches => Own
  <2> SUFFICES ASSUME TypeOK, HeldMatches, NEW p \in Controllers, DropOwner(p) \/ Adopt(p)
               PROVE  owners'[loc[p].item[2]] \ {loc[p].me} = owners[loc[p].item[2]] \ {loc[p].me}
    OBVIOUS
  <2>1. loc[p].seen = owners[loc[p].item[2]]
    BY DEF HeldMatches, Holding, DropOwner, Adopt
  <2>2. CASE DropOwner(p)
    <3>1. owners'[loc[p].item[2]] = loc[p].seen \ {loc[p].me}
      BY <2>2, LocalFields DEF DropOwner, StoreOwners, OtherOwners, TypeOK
    <3> QED
      BY <2>1, <3>1
  <2>3. CASE Adopt(p)
    <3>1. owners'[loc[p].item[2]] = loc[p].seen \cup {loc[p].me}
      BY <2>3, LocalFields DEF Adopt, StoreOwners, TypeOK
    <3> QED
      BY <2>1, <3>1
  <2> QED
    BY <2>2, <2>3
<1> QED
  BY <1>1, TypeCorrect, HeldAlwaysMatches, PTL DEF OwnReferencesOnly

-----------------------------------------------------------------------------
(* One controller on its own *)

\* The local state of the stack controller.
Local1 == loc["stack"]

\* There are no Kabaneros with gitops pipelines and no triggers:
\*  1. the operator never works on assets;
\*  2. an asset that does not exist has no owner;
\*  3. the references that were read are at least those that are stored: nobody
\*     joins in between;
\*  4. an asset whose copy is the latest version exists;
\*  5. an asset that was missing is still missing when it is applied.
OneController ==
    /\ Idle("operator")
    /\ \A a \in Assets : a \notin exists => owners[a] = {}
    /\ Holding("stack") => owners[Local1.item[2]] \subseteq Local1.seen
    /\ "stack" \in held /\ Holding("stack") => Local1.item[2] \in exists
    /\ Local1.pc = "apply" => Local1.item[2] \notin exists

\* Only the stack controller takes steps.
LEMMA OnlyStackSteps ==
    ASSUME Gitops = {}, TypeOK, OneController, NEW p \in Controllers, ControllerStep(p)
    PROVE  p = "stack"
<1> SUFFICES ASSUME p = "operator" PROVE FALSE
  BY DEF Controllers
<1>1. loc[p].pc = "idle"
  BY DEF OneController, Idle
<1>2. ASSUME NEW o \in queue, BeginStep(p, o)
      PROVE  FALSE
  <2>1. o \in Stacks
    BY DEF TypeOK, Owners
  <2> QED
    BY <1>2, <2>1 DEF BeginStep, BeginGone, BeginLive, BeginNew, BeginNewFails, BeginCleanup,
                     Dequeue, ControllerOf
<1>3. ~DeleteStep(p)
  BY <1>1 DEF DeleteStep, SkipDelete, GetForDelete, DeleteObject, DropOwner, RemoveFails, EndDeletes
<1>4. ~CreateStep(p)
  BY <1>1 DEF CreateStep, VisitKey, LoadKey, LoadKeyFails, CheckFails, CheckOwned, CheckUnowned,
              CheckMissing, CheckMissingFails, Adopt, AdoptFails, Apply, ApplyFails, EndKey, EndCreates
<1>5. ~FinishStep(p)
  BY <1>1 DEF FinishStep, WriteStatus, WriteStatusFails, RemoveFinalizer, RemoveFinalizerFails
<1> QED
  BY <1>2, <1>3, <1>4, <1>5 DEF ControllerStep

\* Neither objects nor references change, and the controller is not between the
\* calls about an asset afterwards.
LEMMA MoveKeepsOne ==
    ASSUME OneController, UNCHANGED <<exists, owners>>, OthersStay("stack"),
           loc'["stack"].pc \notin {"remove", "adopt", "apply"}
    PROVE  OneController'
<1>1. loc'["operator"] = loc["operator"]
  BY DEF OthersStay, Controllers
<1> QED
  BY <1>1 DEF OneController, Idle, Holding, Local1

\* Nothing that the invariant speaks of changes, except that copies are outdated.
LEMMA UnchangedKeepsOne ==
    ASSUME OneController, UNCHANGED <<exists, owners, loc>>, held' \subseteq held
    PROVE  OneController'
  BY DEF OneController, Idle, Holding, Local1

\* The controller stores the references of an asset.
LEMMA StoreKeepsOne ==
    ASSUME TypeOK, OneController, NEW a \in Assets, NEW refs, StoreOwners(a, refs),
           \/ exists' = exists \ {a} /\ refs = {}
           \/ exists' \in {exists, exists \cup {a}} /\ a \in exists',
           OthersStay("stack"), loc'["stack"].pc \notin {"remove", "adopt", "apply"}
    PROVE  OneController'
<1>1. loc'["operator"] = loc["operator"]
  BY DEF OthersStay, Controllers
<1>2. \A b \in Assets : b \notin exists' => owners'[b] = {}
  BY DEF StoreOwners, OneController, TypeOK
<1> QED
  BY <1>1, <1>2 DEF OneController, Idle, Holding, Local1

\* Somebody else deletes an asset, or takes references away.
LEMMA LossKeepsOne ==
    ASSUME TypeOK, OneController, NEW a \in Assets, NEW refs, StoreOwners(a, refs),
           refs \subseteq owners[a], UNCHANGED loc,
           \/ exists' = exists \ {a} /\ refs = {}
           \/ exists' = exists /\ a \in exists
    PROVE  OneController'
<1>1. \A b \in Assets : b \notin exists' => owners'[b] = {}
  BY DEF StoreOwners, OneController, TypeOK
<1>2. \A b \in Assets : owners'[b] \subseteq owners[b]
  BY DEF StoreOwners, TypeOK
<1>3. Local1.item[2] \in Assets
  BY LocalFields DEF Local1, Controllers
<1>4. "stack" \in held' => "stack" \in held /\ Local1.item[2] # a
  BY DEF StoreOwners, OutdateCopies, Local1
<1>5. exists' \subseteq exists /\ exists \ {a} \subseteq exists'
  OBVIOUS
<1>6. Local1' = Local1 /\ (Holding("stack")' <=> Holding("stack")) /\ Idle("operator")'
  BY DEF Local1, Holding, OneController, Idle
<1> QED
  BY <1>1, <1>2, <1>3, <1>4, <1>5, <1>6 DEF OneController

\* The steps of the controller.
LEMMA DeleteKeepsOne ==
    ASSUME TypeOK, HeldMatches, OneController, DeleteStep("stack")
    PROVE  OneController'
<1> DEFINE p == "stack"
<1>0. p \in Controllers
  BY DEF Controllers
<1>1. ASSUME NEW i \in loc[p].todo, SkipDelete(p, i)
      PROVE  OneController'
  BY <1>0, <1>1, FinishDeleteEffect, MoveKeepsOne DEF SkipDelete, apiVars
<1>2. ASSUME NEW i \in loc[p].todo, GetForDelete(p, i)
      PROVE  OneController'
  <2>1. /\ loc'[p].pc = "remove" /\ loc'[p].item = i /\ loc'[p].seen = owners[i[2]]
        /\ OthersStay(p)
    BY <1>0, <1>2, GetForDeleteEffect
  <2>2. loc'["operator"] = loc["operator"]
    BY <2>1 DEF OthersStay, Controllers
  <2> QED
    BY <1>2, <2>1, <2>2 DEF GetForDelete, OneController, Idle, Holding, Local1
<1>3. CASE DeleteObject(p)
  BY <1>0, <1>3, FinishDeleteEffect, LocalFields, StoreKeepsOne DEF DeleteObject, RemoveAsset
<1>4. CASE DropOwner(p)
  <2>1. loc[p].item[2] \in exists
    BY <1>4 DEF DropOwner, OneController, Holding, Local1
  <2> QED
    BY <1>0, <1>4, <2>1, FinishDeleteEffect, LocalFields, StoreKeepsOne DEF DropOwner
<1>5. CASE RemoveFails(p)
  BY <1>0, <1>5, FinishDeleteEffect, MoveKeepsOne DEF RemoveFails
<1>6. CASE EndDeletes(p)
  BY <1>0, <1>6, EndDeletesEffect, MoveKeepsOne DEF EndDeletes, apiVars
<1> QED
  BY <1>1, <1>2, <1>3, <1>4, <1>5, <1>6 DEF DeleteStep

\* The creating loop keeps the invariant.
LEMMA CreateKeepsOne ==
    ASSUME TypeOK, HeldMatches, OneController, CreateStep("stack")
    PROVE  OneController'
<1> DEFINE p == "stack"
<1>0. p \in Controllers
  BY DEF Controllers
<1>1. ASSUME NEW k \in loc[p].keys, VisitKey(p, k) \/ LoadKey(p, k) \/ LoadKeyFails(p, k)
      PROVE  OneController'
  <2>1. OthersStay(p) /\ loc'[p].pc \in {"assets", "create"}
    BY <1>0, <1>1, VisitKeyEffect, LoadKeyEffect, LoadKeyFailsEffect
  <2> QED
    BY <1>1, <2>1, MoveKeepsOne DEF VisitKey, LoadKey, LoadKeyFails, apiVars
<1>2. ASSUME NEW i \in loc[p].todo,
             CheckFails(p, i) \/ CheckOwned(p, i) \/ CheckMissingFails(p, i)
      PROVE  OneController'
  <2>1. OthersStay(p) /\ loc'[p].pc = "assets"
    BY <1>0, <1>2, FinishAssetEffect DEF CheckFails, CheckOwned, CheckMissingFails
  <2> QED
    BY <1>2, <2>1, MoveKeepsOne DEF CheckFails, CheckOwned, CheckMissingFails, apiVars
<1>3. ASSUME NEW i \in loc[p].todo, CheckUnowned(p, i)
      PROVE  OneController'
  <2>1. /\ loc'[p].pc = "adopt" /\ loc'[p].item = i /\ loc'[p].seen = owners[i[2]]
        /\ OthersStay(p)
    BY <1>0, <1>3, CheckUnownedEffect
  <2>2. loc'["operator"] = loc["operator"]
    BY <2>1 DEF OthersStay, Controllers
  <2> QED
    BY <1>3, <2>1, <2>2 DEF CheckUnowned, OneController, Idle, Holding, Local1
<1>4. ASSUME NEW i \in loc[p].todo, CheckMissing(p, i)
      PROVE  OneController'
  <2>1. OthersStay(p) /\ (loc'[p].pc = "assets" \/ (loc'[p].pc = "apply" /\ loc'[p].item = i))
    BY <1>0, <1>4, CheckMissingEffect
  <2>2. loc'["operator"] = loc["operator"]
    BY <2>1 DEF OthersStay, Controllers
  <2> QED
    BY <1>4, <2>1, <2>2 DEF CheckMissing, OneController, Idle, Holding, Local1, apiVars
<1>5. CASE Adopt(p)
  <2>1. loc[p].item[2] \in exists
    BY <1>5 DEF Adopt, OneController, Holding, Local1
  <2> QED
    BY <1>0, <1>5, <2>1, FinishAssetEffect, LocalFields, StoreKeepsOne DEF Adopt
<1>6. CASE AdoptFails(p)
  BY <1>0, <1>6, FinishAssetEffect, MoveKeepsOne DEF AdoptFails
<1>7. CASE Apply(p)
  BY <1>0, <1>7, FinishAssetEffect, LocalFields, StoreKeepsOne DEF Apply
<1>8. CASE ApplyFails(p)
  BY <1>0, <1>8, FinishAssetEffect, MoveKeepsOne DEF ApplyFails, apiVars
<1>9. CASE EndKey(p)
  BY <1>0, <1>9, EndKeyEffect, MoveKeepsOne DEF EndKey, apiVars
<1>10. CASE EndCreates(p)
  BY <1>0, <1>10, EndCreatesEffect, MoveKeepsOne DEF EndCreates, apiVars
<1> QED
  BY <1>1, <1>2, <1>3, <1>4, <1>5, <1>6, <1>7, <1>8, <1>9, <1>10 DEF CreateStep

\* ... and so do the start, the end and the crash of a run ...
LEMMA RunKeepsOne ==
    ASSUME TypeOK, OneController, \/ \E o : BeginStep("stack", o)
                                  \/ FinishStep("stack")
                                  \/ \E p \in Controllers : Restart(p)
    PROVE  OneController'
<1>0. "stack" \in Controllers /\ "operator" \in Controllers
  BY DEF Controllers
<1>1. ASSUME NEW o, BeginStep("stack", o)
      PROVE  OneController'
  <2>1. UNCHANGED <<exists, owners, held>>
    BY <1>1 DEF BeginStep, BeginGone, BeginLive, BeginNew, BeginNewFails, BeginCleanup, apiVars
  <2>2. CASE UNCHANGED loc
    BY <2>1, <2>2, UnchangedKeepsOne
  <2>3. CASE BeginLive("stack", o) \/ BeginNew("stack", o)
    <3>1. OthersStay("stack") /\ loc'["stack"].pc = "delete"
      BY <1>0, <2>3, ActivateEffect DEF BeginLive, BeginNew
    <3> QED
      BY <2>1, <3>1, MoveKeepsOne
  <2>4. CASE BeginCleanup("stack", o)
    BY <1>0, <2>1, <2>4, CleanupEffect, MoveKeepsOne
  <2> QED
    BY <1>1, <2>2, <2>3, <2>4 DEF BeginStep, BeginGone, BeginNewFails
<1>2. CASE FinishStep("stack")
  BY <1>0, <1>2, EndReconcileEffect, MoveKeepsOne
     DEF FinishStep, WriteStatus, WriteStatusFails, RemoveFinalizer, RemoveFinalizerFails, apiVars
<1>3. CASE Restart("stack")
  BY <1>0, <1>3, EndReconcileEffect, MoveKeepsOne DEF Restart
<1>4. CASE Restart("operator")
  <2>1. loc'["operator"].pc = "idle" /\ loc'["stack"] = loc["stack"]
    BY <1>0, <1>4, EndReconcileEffect DEF Restart, OthersStay
  <2> QED
    BY <1>4, <2>1 DEF Restart, OneController, Idle, Holding, Local1
<1> QED
  BY <1>1, <1>2, <1>3, <1>4 DEF Controllers

\* ... and the environment.
LEMMA EnvironmentKeepsOne ==
    ASSUME TypeOK, OneController, Environment
    PROVE  OneController'
<1>1. ASSUME NEW a \in Assets, LoseAsset(a)
      PROVE  OneController'
  BY <1>1, LossKeepsOne DEF LoseAsset, RemoveAsset
<1>2. ASSUME NEW a \in Assets, CollectGarbage(a)
      PROVE  OneController'
  BY <1>2, LossKeepsOne DEF CollectGarbage, RemoveAsset
<1> QED
  BY <1>1, <1>2, UnchangedKeepsOne
     DEF Environment, CreateOrEdit, DeleteOwner, DeliverEvent, FireTimer, apiVars

\* The invariant of a controller on its own.
LEMMA OneControllerHolds ==
    ASSUME Gitops = {}
    PROVE  Spec => []OneController
<1>1. Init => OneController
  BY DEF Init, OneController, Idle, IdleState, Holding, Local1, Controllers
<1>2. TypeOK /\ HeldMatches /\ OneController /\ [Next]_vars => OneController'
  <2> SUFFICES ASSUME TypeOK, HeldMatches, OneController, [Next]_vars PROVE OneController'
    OBVIOUS
  <2>1. CASE UNCHANGED vars
    BY <2>1, UnchangedKeepsOne DEF vars
  <2>2. ASSUME NEW p \in Controllers, ControllerStep(p)
        PROVE  OneController'
    <3>1. p = "stack"
      BY <2>2, OnlyStackSteps
    <3> QED
      BY <2>2, <3>1, RunKeepsOne, DeleteKeepsOne, CreateKeepsOne DEF ControllerStep
  <2> QED
    BY <2>1, <2>2, RunKeepsOne, EnvironmentKeepsOne DEF Next
<1> QED
  BY <1>1, <1>2, TypeCorrect, HeldAlwaysMatches, PTL DEF Spec

-----------------------------------------------------------------------------
\* The owners that are gone.
Gone == {o \in Owners : cr[o].phase = "gone"}

\* The variables of AssetOwnership.
OwnershipVars == <<exists, owners, Gone, losses>>

\* A resource may change, but not to be gone.
LEMMA StaysThere ==
    ASSUME TypeOK, NEW o \in Owners, NEW r, cr' = [cr EXCEPT ![o] = r],
           r.phase = "gone" <=> cr[o].phase = "gone"
    PROVE  Gone' = Gone
<1>1. \A u \in Owners : cr'[u].phase = "gone" <=> cr[u].phase = "gone"
  BY DEF TypeOK
<1> QED
  BY <1>1 DEF Gone

\* The steps of the deleting loop are those of an owner that leaves.
LEMMA DeleteLeaves ==
    ASSUME TypeOK, HeldMatches, OneController, DeleteStep("stack")
    PROVE  [Ownership!Next]_OwnershipVars
<1> DEFINE p == "stack"
           a == loc[p].item[2]
<1>0. p \in Controllers /\ a \in Assets /\ loc[p].me \in Owners
  BY LocalFields DEF Controllers
<1>1. UNCHANGED <<Gone, losses>>
  BY DEF DeleteStep, SkipDelete, GetForDelete, DeleteObject, DropOwner, RemoveFails, EndDeletes,
         crVars, history, Gone
<1>2. CASE DeleteObject(p)
  <2>1. owners[a] \subseteq {loc[p].me}
    BY <1>2 DEF DeleteObject, OtherOwners, OneController, Holding, Local1
  <2>2. exists' = exists \ {a} /\ owners' = [owners EXCEPT ![a] = {}]
    BY <1>2 DEF DeleteObject, RemoveAsset, StoreOwners
  <2>3. CASE a \in exists
    <3>1. Ownership!Leave(a, loc[p].me)
      BY <1>1, <2>1, <2>2, <2>3 DEF Ownership!Leave, Ownership!Destroy, Gone
    <3> QED
      BY <1>0, <3>1 DEF Ownership!Next
  <2>4. CASE a \notin exists
    <3>1. owners[a] = {}
      BY <1>0, <2>4 DEF OneController
    <3>2. exists' = exists /\ owners' = owners
      BY <1>0, <2>2, <2>4, <3>1 DEF TypeOK
    <3> QED
      BY <1>1, <3>2 DEF OwnershipVars
  <2> QED
    BY <2>3, <2>4
<1>3. CASE DropOwner(p)
  <2>1. a \in exists /\ loc[p].seen = owners[a]
    BY <1>0, <1>3 DEF DropOwner, OneController, HeldMatches, Holding, Local1
  <2>2. ~(owners[a] \subseteq {loc[p].me}) /\ owners' = [owners EXCEPT ![a] = @ \ {loc[p].me}]
    BY <1>3, <2>1 DEF DropOwner, OtherOwners, StoreOwners
  <2>3. exists' = exists
    BY <1>3 DEF DropOwner
  <2>4. Ownership!Leave(a, loc[p].me)
    BY <1>1, <2>1, <2>2, <2>3 DEF Ownership!Leave, Gone
  <2> QED
    BY <1>0, <2>4 DEF Ownership!Next
<1>4. CASE UNCHANGED <<exists, owners>>
  BY <1>1, <1>4 DEF OwnershipVars
<1> QED
  BY <1>2, <1>3, <1>4 DEF DeleteStep, SkipDelete, GetForDelete, RemoveFails, EndDeletes, apiVars

\* The steps of the creating loop are those of an owner that makes an object or
\* joins.
LEMMA CreateJoins ==
    ASSUME Triggers = {}, TypeOK, HeldMatches, OneController, CreateStep("stack")
    PROVE  [Ownership!Next]_OwnershipVars
<1> DEFINE p == "stack"
           a == loc[p].item[2]
<1>0. p \in Controllers /\ a \in Assets /\ loc[p].me \in Owners
  BY LocalFields DEF Controllers
<1>1. UNCHANGED <<Gone, losses>>
  BY DEF CreateStep, VisitKey, LoadKey, LoadKeyFails, CheckFails, CheckOwned, CheckUnowned,
         CheckMissing, CheckMissingFails, Adopt, AdoptFails, Apply, ApplyFails, EndKey, EndCreates,
         crVars, history, Gone
<1>2. CASE Apply(p)
  <2>1. a \notin exists
    BY <1>2 DEF Apply, OneController, Local1
  <2>2. exists' = exists \cup {a} /\ owners' = [owners EXCEPT ![a] = {loc[p].me}]
    BY <1>2 DEF Apply, StoreOwners
  <2>3. Ownership!Create(a, loc[p].me)
    BY <1>1, <2>1, <2>2 DEF Ownership!Create, Gone
  <2> QED
    BY <1>0, <2>3 DEF Ownership!Next
<1>3. CASE Adopt(p)
  <2>1. a \in exists /\ loc[p].seen = owners[a]
    BY <1>0, <1>3 DEF Adopt, OneController, HeldMatches, Holding, Local1
  <2>2. exists' = exists /\ owners' = [owners EXCEPT ![a] = @ \cup {loc[p].me}]
    BY <1>3, <2>1 DEF Adopt, StoreOwners
  <2>3. Ownership!Join(a, loc[p].me)
    BY <1>1, <2>1, <2>2 DEF Ownership!Join, Gone
  <2> QED
    BY <1>0, <2>3 DEF Ownership!Next
<1>4. CASE UNCHANGED <<exists, owners>>
  BY <1>1, <1>4 DEF OwnershipVars
<1> QED
  BY <1>2, <1>3, <1>4 DEF CreateStep, VisitKey, LoadKey, LoadKeyFails, CheckFails, CheckOwned,
         CheckUnowned, CheckMissing, CheckMissingFails, AdoptFails, ApplyFails, EndKey, EndCreates,
         apiVars

\* The rest of a reconcile at most retires its owner.
LEMMA RunRetires ==
    ASSUME TypeOK, \/ \E o \in Owners : BeginStep("stack", o)
                   \/ FinishStep("stack")
                   \/ \E p \in Controllers : Restart(p)
    PROVE  [Ownership!Next]_OwnershipVars
<1>0. "stack" \in Controllers /\ loc["stack"].me \in Owners
  BY LocalFields DEF Controllers
<1>1. UNCHANGED <<exists, owners, losses>>
  BY DEF BeginStep, BeginGone, BeginLive, BeginNew, BeginNewFails, BeginCleanup, FinishStep,
         WriteStatus, WriteStatusFails, RemoveFinalizer, RemoveFinalizerFails, Restart, apiVars, history
<1>2. CASE RemoveFinalizer("stack")
  <2>1. PICK me \in Owners : me = loc["stack"].me
    BY <1>0
  <2>2. cr' = [cr EXCEPT ![me] = [cr[me] EXCEPT !.phase = "gone", !.finalizer = FALSE]]
    BY <1>2, <2>1 DEF RemoveFinalizer, TypeOK
  <2>3. [cr[me] EXCEPT !.phase = "gone", !.finalizer = FALSE].phase = "gone"
    BY DEF TypeOK, Resource
  <2>4. \A u \in Owners : cr'[u].phase = "gone" <=> (u = me \/ cr[u].phase = "gone")
    BY <2>2, <2>3 DEF TypeOK
  <2>5. Gone' = Gone \cup {me}
    BY <2>4 DEF Gone
  <2>6. Ownership!Retire(me)
    BY <1>1, <2>5 DEF Ownership!Retire, Gone
  <2> QED
    BY <2>6 DEF Ownership!Next
<1>3. ASSUME NEW o \in Owners, BeginNew("stack", o)
      PROVE  Gone' = Gone
  <2>1. [cr[o] EXCEPT !.finalizer = TRUE].phase = cr[o].phase
    BY DEF TypeOK, Resource
  <2> QED
    BY <1>3, <2>1, StaysThere DEF BeginNew
<1>4. CASE WriteStatus("stack")
  <2> DEFINE o == loc["stack"].me
  <2>1. [cr[o] EXCEPT !.status = NewStatus("stack")].phase = cr[o].phase
    BY <1>0 DEF TypeOK, Resource
  <2>2. Gone' = Gone
    BY <1>0, <1>4, <2>1, StaysThere DEF WriteStatus
  <2> QED
    BY <1>1, <2>2 DEF OwnershipVars
<1>5. CASE UNCHANGED cr
  BY <1>1, <1>5 DEF OwnershipVars, Gone
<1> QED
  BY <1>1, <1>2, <1>3, <1>4, <1>5
     DEF BeginStep, BeginGone, BeginLive, BeginNewFails, BeginCleanup, FinishStep,
         WriteStatusFails, RemoveFinalizerFails, Restart, crVars, OwnershipVars

\* Users, outsiders and the garbage collector.
LEMMA EnvironmentMaps ==
    ASSUME TypeOK, Environment
    PROVE  [Ownership!Next]_OwnershipVars
<1>1. ASSUME NEW o \in Owners, NEW s, CreateOrEdit(o, s)
      PROVE  UNCHANGED OwnershipVars
  <2> DEFINE r == [cr[o] EXCEPT !.phase = "live", !.spec = s, !.generation = @ + 1]
  <2>1. r.phase = "live" /\ cr[o].phase # "gone"
    BY <1>1 DEF TypeOK, Resource, CreateOrEdit
  <2>2. cr' = [cr EXCEPT ![o] = r]
    BY <1>1 DEF CreateOrEdit, StoreResource
  <2> HIDE DEF r
  <2>3. Gone' = Gone
    BY <2>1, <2>2, StaysThere
  <2> QED
    BY <1>1, <2>3 DEF CreateOrEdit, OwnershipVars, apiVars
<1>2. ASSUME NEW o \in Owners, DeleteOwner(o)
      PROVE  [Ownership!Next]_OwnershipVars
  <2> DEFINE phase == IF cr[o].finalizer THEN "deleting" ELSE "gone"
             r == [cr[o] EXCEPT !.phase = phase, !.generation = @ + 1]
  <2>1. r.phase = phase /\ cr[o].phase # "gone"
    BY <1>2 DEF TypeOK, Resource, DeleteOwner
  <2>2. cr' = [cr EXCEPT ![o] = r] /\ UNCHANGED <<exists, owners, losses>>
    BY <1>2 DEF DeleteOwner, StoreResource, apiVars
  <2> HIDE DEF r
  <2>3. CASE cr[o].finalizer
    <3>1. Gone' = Gone
      BY <2>1, <2>2, <2>3, StaysThere
    <3> QED
      BY <2>2, <3>1 DEF OwnershipVars
  <2>4. CASE ~cr[o].finalizer
    <3>1. \A u \in Owners : cr'[u].phase = "gone" <=> (u = o \/ cr[u].phase = "gone")
      BY <2>1, <2>2, <2>4 DEF TypeOK
    <3>2. Gone' = Gone \cup {o}
      BY <3>1 DEF Gone
    <3>3. Ownership!Retire(o)
      BY <2>2, <3>2 DEF Ownership!Retire, Gone
    <3> QED
      BY <3>3 DEF Ownership!Next
  <2> QED
    BY <2>3, <2>4
<1>3. ASSUME NEW a \in Assets, LoseAsset(a)
      PROVE  Ownership!Next
  <2>1. Gone' = Gone
    BY <1>3 DEF LoseAsset, crVars, Gone
  <2>2. Ownership!Lose(a)
    BY <1>3, <2>1 DEF LoseAsset, RemoveAsset, StoreOwners, Ownership!Lose, Ownership!Destroy, Gone
  <2> QED
    BY <2>2 DEF Ownership!Next
<1>4. ASSUME NEW a \in Assets, CollectGarbage(a)
      PROVE  Ownership!Next
  <2> DEFINE living == {o \in owners[a] : cr[o].phase # "gone"}
  <2>1. Gone' = Gone /\ losses' = losses
    BY <1>4 DEF CollectGarbage, crVars, history, Gone
  <2>2. owners[a] \subseteq Owners
    BY DEF TypeOK
  <2>3. living = owners[a] \ Gone
    BY <2>2 DEF Gone
  <2> HIDE DEF living
  <2>4. a \in exists /\ owners[a] \cap Gone # {}
    BY <1>4, <2>3 DEF CollectGarbage, living
  <2>5. CASE living = {}
    <3>1. exists' = exists \ {a} /\ owners' = [owners EXCEPT ![a] = {}]
      BY <1>4, <2>5 DEF CollectGarbage, RemoveAsset, StoreOwners, living
    <3>2. Ownership!Collect(a)
      BY <2>1, <2>3, <2>4, <2>5, <3>1 DEF Ownership!Collect, Ownership!Destroy, Gone
    <3> QED
      BY <3>2 DEF Ownership!Next
  <2>6. CASE living # {}
    <3>1. exists' = exists /\ owners' = [owners EXCEPT ![a] = living]
      BY <1>4, <2>6 DEF CollectGarbage, StoreOwners, living
    <3>2. Ownership!Collect(a)
      BY <2>1, <2>3, <2>4, <2>6, <3>1 DEF Ownership!Collect, Gone
    <3> QED
      BY <3>2 DEF Ownership!Next
  <2> QED
    BY <2>5, <2>6
<1> QED
  BY <1>1, <1>2, <1>3, <1>4
     DEF Environment, DeliverEvent, FireTimer, crVars, apiVars, history, OwnershipVars, Gone

\* The stack controller on its own, without triggers, keeps the promise of
\* AssetOwnership, for any stacks and zips, and whatever is edited, lost, fails
\* or restarts in the meantime.
THEOREM OwnershipIsKept ==
    ASSUME Gitops = {}, Triggers = {}
    PROVE  Spec => KeepsOwnership
<1>1. Init => Ownership!Init
  <2>1. Init => Gone = {}
    BY DEF Init, NewResource, Gone
  <2> QED
    BY <2>1 DEF Init, Ownership!Init, Gone
<1>2. TypeOK /\ HeldMatches /\ OneController /\ [Next]_vars => [Ownership!Next]_OwnershipVars
  <2> SUFFICES ASSUME TypeOK, HeldMatches, OneController, [Next]_vars
               PROVE  [Ownership!Next]_OwnershipVars
    OBVIOUS
  <2>1. CASE UNCHANGED vars
    BY <2>1 DEF vars, OwnershipVars, Gone
  <2>2. ASSUME NEW p \in Controllers, ControllerStep(p)
        PROVE  [Ownership!Next]_OwnershipVars
    <3>1. p = "stack"
      BY <2>2, OnlyStackSteps
    <3>2. queue \subseteq Owners
      BY DEF TypeOK
    <3> QED
      BY <2>2, <3>1, <3>2, RunRetires, DeleteLeaves, CreateJoins DEF ControllerStep
  <2> QED
    BY <2>1, <2>2, RunRetires, EnvironmentMaps DEF Next
<1> QED
  BY <1>1, <1>2, TypeCorrect, HeldAlwaysMatches, OneControllerHolds, PTL
     DEF Spec, KeepsOwnership, Ownership!Spec, Ownership!vars, OwnershipVars, Gone

-----------------------------------------------------------------------------
(* A deleted owner *)

\* An edit or the deletion of o has not been noticed yet.
Unnoticed(o) == cache[o].generation # cr[o].generation

\* What the cache tells of a deleted owner: nothing that is older than the last
\* generation is taken for it.
CopyInv(o) ==
    /\ cache[o].generation <= cr[o].generation
    /\ o \in synced => cache[o] = cr[o]
    /\ cr[o].phase = "deleting" =>
          /\ cr[o].finalizer
          /\ ~Unnoticed(o) => cache[o].phase = "deleting" /\ cache[o].finalizer

\* The clean-up of o is under way.
Cleaning(o) ==
    LET p == ControllerOf(o)
    IN  loc[p].pc \in {"delete", "remove", "finalizer"} /\ loc[p].me = o /\ loc[p].cleanup

GoingOn(o) == cr[o].phase = "deleting" => Unnoticed(o) \/ o \in queue \/ Cleaning(o)

DeletionInv == \A o \in Owners : CopyInv(o) /\ GoingOn(o)

\* What a step does to the stored and the cached o: nothing; users change it; its
\* controller writes it; the cache is brought up to date.
Untouched(o) == cr'[o] = cr[o] /\ cache'[o] = cache[o] /\ (o \in synced' => o \in synced)

Edited(o) ==
    /\ cr'[o].generation = cr[o].generation + 1 /\ cache'[o] = cache[o] /\ o \notin synced'
    /\ cr'[o].phase = "deleting" => cr'[o].finalizer

Rewritten(o) ==
    /\ cr'[o].generation = cr[o].generation /\ cache'[o] = cache[o]
    /\ o \in synced' => o \in synced /\ cr'[o] = cr[o]
    /\ cr'[o].phase = "deleting" => cr[o].phase = "deleting" /\ cr'[o].finalizer = cr[o].finalizer

Refreshed(o) == cr'[o] = cr[o] /\ cache'[o] = cr[o]

OwnerMove(o) == Untouched(o) \/ Edited(o) \/ Rewritten(o) \/ Refreshed(o)

\* An owner has the type of one.
LEMMA OwnerFields ==
    ASSUME TypeOK, NEW o \in Owners
    PROVE  cr[o] \in Resource /\ cr[o].generation \in Nat /\ cache[o].generation \in Nat
  BY DEF TypeOK, Resource

LEMMA FinishMoves ==
    ASSUME TypeOK, NEW p \in Controllers, FinishStep(p), NEW o \in Owners
    PROVE  Untouched(o) \/ Rewritten(o)
<1>0. cr \in [Owners -> Resource] /\ loc[p].me \in Owners /\ cr[o] \in Resource
  BY LocalFields, OwnerFields DEF TypeOK
<1>1. CASE WriteStatus(p)
  <2> DEFINE new == NewStatus(p)
  <2>1. CASE o = loc[p].me
    <3>1. cr' = [cr EXCEPT ![o].status = new] /\ cache' = cache
      BY <1>1, <2>1 DEF WriteStatus
    <3>2. synced' = IF cr[o].status = new THEN synced ELSE synced \ {o}
      BY <1>1, <2>1 DEF WriteStatus
    <3> HIDE DEF new
    <3>3. /\ cr'[o].generation = cr[o].generation /\ cr'[o].phase = cr[o].phase
          /\ cr'[o].finalizer = cr[o].finalizer
      BY <1>0, <3>1 DEF Resource
    <3>4. cr[o].status = new => cr'[o] = cr[o]
      BY <1>0, <3>1 DEF Resource
    <3> QED
      BY <3>1, <3>2, <3>3, <3>4 DEF Rewritten
  <2>2. CASE o # loc[p].me
    <3>1. cr'[o] = cr[o] /\ cache' = cache
      BY <1>0, <1>1, <2>2 DEF WriteStatus
    <3>2. o \in synced' => o \in synced
      BY <1>1 DEF WriteStatus
    <3> QED
      BY <3>1, <3>2 DEF Untouched
  <2> QED
    BY <2>1, <2>2
<1>2. CASE WriteStatusFails(p)
  BY <1>2 DEF WriteStatusFails, Untouched
<1>3. CASE RemoveFinalizer(p)
  <2>1. CASE o = loc[p].me
    <3>1. cr' = [cr EXCEPT ![o].phase = "gone", ![o].finalizer = FALSE]
          /\ cache' = cache /\ o \notin synced'
      BY <1>3, <2>1 DEF RemoveFinalizer
    <3>2. cr'[o].generation = cr[o].generation /\ cr'[o].phase = "gone"
      BY <1>0, <3>1 DEF Resource
    <3> QED
      BY <3>1, <3>2 DEF Rewritten
  <2>2. CASE o # loc[p].me
    BY <1>0, <1>3, <2>2 DEF RemoveFinalizer, Untouched
  <2> QED
    BY <2>1, <2>2
<1>4. CASE RemoveFinalizerFails(p)
  BY <1>4 DEF RemoveFinalizerFails, Untouched
<1> QED
  BY <1>1, <1>2, <1>3, <1>4 DEF FinishStep

LEMMA BeginMoves ==
    ASSUME TypeOK, DeletionInv, NEW p \in Controllers, NEW b, BeginStep(p, b), NEW o \in Owners
    PROVE  Untouched(o) \/ Rewritten(o)
<1>0. cr \in [Owners -> Resource] /\ cr[o] \in Resource
  BY OwnerFields DEF TypeOK
<1>1. CASE BeginNew(p, b)
  <2>1. CASE o = b
    <3>1. cr' = [cr EXCEPT ![o].finalizer = TRUE] /\ cache' = cache /\ o \notin synced'
      BY <1>1, <2>1 DEF BeginNew
    <3>2. cr[o].phase = "live"
      BY <1>1, <2>1 DEF BeginNew, DeletionInv, CopyInv
    <3>3. cr'[o].generation = cr[o].generation /\ cr'[o].phase = "live"
      BY <1>0, <3>1, <3>2 DEF Resource
    <3> QED
      BY <3>1, <3>3 DEF Rewritten
  <2>2. CASE o # b
    BY <1>0, <1>1, <2>2 DEF BeginNew, Untouched
  <2> QED
    BY <2>1, <2>2
<1>2. CASE BeginGone(p, b) \/ BeginLive(p, b) \/ BeginNewFails(p, b) \/ BeginCleanup(p, b)
  BY <1>2 DEF BeginGone, BeginLive, BeginNewFails, BeginCleanup, crVars, Untouched
<1> QED
  BY <1>1, <1>2 DEF BeginStep

\* The calls about assets leave the owners alone.
LEMMA LoopMoves ==
    ASSUME NEW p, DeleteStep(p) \/ CreateStep(p), NEW o
    PROVE  Untouched(o)
<1>1. UNCHANGED crVars
  <2>1. DeleteStep(p) => UNCHANGED crVars
    BY DEF DeleteStep, SkipDelete, GetForDelete, DeleteObject, DropOwner, RemoveFails, EndDeletes,
       crVars
  <2>2. CreateStep(p) => UNCHANGED crVars
    BY DEF CreateStep, VisitKey, LoadKey, LoadKeyFails, CheckFails, CheckOwned, CheckUnowned,
       CheckMissing, CheckMissingFails, Adopt, AdoptFails, Apply, ApplyFails, EndKey, EndCreates,
       crVars
  <2> QED
    BY <2>1, <2>2
<1> QED
  BY <1>1 DEF crVars, Untouched

LEMMA EnvironmentMoves ==
    ASSUME TypeOK, Environment, NEW o \in Owners
    PROVE  OwnerMove(o)
<1>0. cr \in [Owners -> Resource] /\ cr[o] \in Resource
  BY OwnerFields DEF TypeOK
<1>1. ASSUME NEW e \in Owners, NEW s \in Specs[e], CreateOrEdit(e, s) PROVE OwnerMove(o)
  <2>1. cr' = [cr EXCEPT ![e] = [cr[e] EXCEPT !.phase = "live", !.spec = s,
                                              !.generation = cr[e].generation + 1]]
        /\ cache' = cache /\ synced' = synced \ {e}
    BY <1>1 DEF CreateOrEdit, StoreResource
  <2>2. CASE o = e
    <3>1. cr'[o].generation = cr[o].generation + 1 /\ cr'[o].phase = "live"
      BY <1>0, <2>1, <2>2 DEF Resource
    <3> QED
      BY <2>1, <2>2, <3>1 DEF OwnerMove, Edited
  <2>3. CASE o # e
    BY <1>0, <2>1, <2>3 DEF OwnerMove, Untouched
  <2> QED
    BY <2>2, <2>3
<1>2. ASSUME NEW e \in Owners, DeleteOwner(e) PROVE OwnerMove(o)
  <2>1. cr' = [cr EXCEPT ![e] = [cr[e] EXCEPT
                  !.phase = IF cr[e].finalizer THEN "deleting" ELSE "gone",
                  !.generation = cr[e].generation + 1]]
        /\ cache' = cache /\ synced' = synced \ {e}
    BY <1>2 DEF DeleteOwner, StoreResource
  <2>2. CASE o = e
    <3>1. /\ cr'[o].generation = cr[o].generation + 1 /\ cr'[o].finalizer = cr[o].finalizer
          /\ cr'[o].phase = IF cr[o].finalizer THEN "deleting" ELSE "gone"
      BY <1>0, <2>1, <2>2 DEF Resource
    <3>2. cr'[o].phase = "deleting" => cr'[o].finalizer
      BY <3>1
    <3> QED
      BY <2>1, <2>2, <3>1, <3>2 DEF OwnerMove, Edited
  <2>3. CASE o # e
    BY <1>0, <2>1, <2>3 DEF OwnerMove, Untouched
  <2> QED
    BY <2>2, <2>3
<1>3. ASSUME NEW e \in Owners, DeliverEvent(e) PROVE OwnerMove(o)
  BY <1>3 DEF DeliverEvent, OwnerMove, Untouched, Refreshed, TypeOK
<1>4. ASSUME NEW e \in Owners, FireTimer(e) PROVE OwnerMove(o)
  BY <1>4 DEF FireTimer, crVars, OwnerMove, Untouched
<1>5. ASSUME NEW a \in Assets, LoseAsset(a) \/ CollectGarbage(a) PROVE OwnerMove(o)
  BY <1>5 DEF LoseAsset, CollectGarbage, crVars, OwnerMove, Untouched
<1> QED
  BY <1>1, <1>2, <1>3, <1>4, <1>5 DEF Environment

LEMMA OwnerMoves ==
    ASSUME TypeOK, DeletionInv, [Next]_vars, NEW o \in Owners
    PROVE  OwnerMove(o)
<1>1. ASSUME NEW p \in Controllers, ControllerStep(p) PROVE OwnerMove(o)
  BY <1>1, BeginMoves, LoopMoves, FinishMoves DEF ControllerStep, OwnerMove
<1>2. ASSUME NEW p \in Controllers, Restart(p) PROVE OwnerMove(o)
  <2> DEFINE mine == {e \in Owners : ControllerOf(e) = p}
  <2>1. /\ cr' = cr /\ cache'[o] = (IF o \in mine THEN cr[o] ELSE cache[o])
        /\ synced' = synced \cup mine
    BY <1>2 DEF Restart
  <2> QED
    BY <2>1 DEF OwnerMove, Refreshed, Untouched
<1>3. CASE UNCHANGED vars
  BY <1>3 DEF vars, OwnerMove, Untouched
<1> QED
  BY <1>1, <1>2, <1>3, EnvironmentMoves DEF Next

\* The copies that the cache has.
LEMMA CopyStep ==
    ASSUME TypeOK, NEW o \in Owners, CopyInv(o), OwnerMove(o)
    PROVE  CopyInv(o)'
<1>0. cr[o].generation \in Nat /\ cache[o].generation \in Nat
  BY OwnerFields
<1>1. CASE Untouched(o)
  BY <1>1 DEF Untouched, CopyInv, Unnoticed
<1>2. CASE Edited(o)
  BY <1>0, <1>2 DEF Edited, CopyInv, Unnoticed
<1>3. CASE Rewritten(o)
  BY <1>3 DEF Rewritten, CopyInv, Unnoticed
<1>4. CASE Refreshed(o)
  BY <1>0, <1>4 DEF Refreshed, CopyInv, Unnoticed
<1> QED
  BY <1>1, <1>2, <1>3, <1>4 DEF OwnerMove

\* A place in the queue is kept until the controller takes o up.
LEMMA PlaceIsKept ==
    ASSUME TypeOK, [Next]_vars, NEW o \in queue, cr[o].phase = "deleting"
    PROVE  o \in queue' \/ BeginStep(ControllerOf(o), o)
<1>1. ASSUME NEW p \in Controllers, NEW b \in queue, BeginStep(p, b)
      PROVE  o \in queue' \/ BeginStep(ControllerOf(o), o)
  <2>1. CASE o = b
    <3>1. p = ControllerOf(o)
      BY <1>1, <2>1 DEF BeginStep, BeginGone, BeginLive, BeginNew, BeginNewFails, BeginCleanup,
         Dequeue
    <3> QED
      BY <1>1, <2>1, <3>1
  <2>2. CASE o # b
    BY <1>1, <2>2
       DEF BeginStep, BeginGone, BeginLive, BeginNew, BeginNewFails, BeginCleanup
  <2> QED
    BY <2>1, <2>2
<1>2. ASSUME NEW a, RemoveAsset(a) PROVE o \in queue'
  BY <1>2 DEF RemoveAsset
<1>3. ASSUME NEW p \in Controllers, DeleteStep(p) PROVE o \in queue'
  BY <1>2, <1>3 DEF DeleteStep, SkipDelete, GetForDelete, DeleteObject, DropOwner, RemoveFails,
     EndDeletes
<1>4. ASSUME NEW p \in Controllers, CreateStep(p) PROVE o \in queue'
  BY <1>4 DEF CreateStep, VisitKey, LoadKey, LoadKeyFails, CheckFails, CheckOwned, CheckUnowned,
     CheckMissing, CheckMissingFails, Adopt, AdoptFails, Apply, ApplyFails, EndKey, EndCreates
<1>5. ASSUME NEW p \in Controllers, FinishStep(p) PROVE o \in queue'
  BY <1>5 DEF FinishStep, WriteStatus, WriteStatusFails, RemoveFinalizer, RemoveFinalizerFails
<1>6. CASE Environment
  <2>1. ASSUME NEW e \in Owners, NEW s \in Specs[e], CreateOrEdit(e, s) PROVE o \in queue'
    BY <2>1 DEF CreateOrEdit
  <2>2. ASSUME NEW e \in Owners, DeleteOwner(e) \/ DeliverEvent(e) \/ FireTimer(e)
        PROVE  o \in queue'
    BY <2>2 DEF DeleteOwner, DeliverEvent, FireTimer
  <2>3. ASSUME NEW a \in Assets, LoseAsset(a) \/ CollectGarbage(a) PROVE o \in queue'
    BY <1>2, <2>3 DEF LoseAsset, CollectGarbage
  <2> QED
    BY <1>6, <2>1, <2>2, <2>3 DEF Environment
<1>7. ASSUME NEW p \in Controllers, Restart(p) PROVE o \in queue'
  <2> DEFINE mine == {e \in Owners : ControllerOf(e) = p}
  <2>1. queue' = (queue \ mine) \cup {e \in mine : cr[e].phase \in {"live", "deleting"}}
    BY <1>7 DEF Restart
  <2> QED
    BY <2>1
<1>8. CASE UNCHANGED vars
  BY <1>8 DEF vars
<1> QED
  BY <1>1, <1>3, <1>4, <1>5, <1>6, <1>7, <1>8 DEF Next, ControllerStep

\* One controller works on o.
LEMMA ControllerOfType == \A o : ControllerOf(o) \in Controllers
  BY DEF ControllerOf, Controllers

\* A clean-up goes on until o is gone or comes back to the queue.
LEMMA CleaningGoesOn ==
    ASSUME TypeOK, [Next]_vars, NEW o \in Owners, Cleaning(o), cr[o].phase = "deleting"
    PROVE  Cleaning(o)' \/ o \in queue' \/ cr'[o].phase # "deleting"
<1> DEFINE p == ControllerOf(o)
<1>0. p \in Controllers /\ cr \in [Owners -> Resource] /\ cr[o] \in Resource
  BY ControllerOfType, OwnerFields DEF TypeOK
<1>a. loc[p].pc \in {"delete", "remove", "finalizer"} /\ loc[p].me = o /\ loc[p].cleanup
  BY DEF Cleaning
<1>b. (loc'[p].pc \in {"delete", "remove", "finalizer"} /\ loc'[p].me = o /\ loc'[p].cleanup)
      => Cleaning(o)'
  BY DEF Cleaning
<1>c. loc'[p] = loc[p] => Cleaning(o)'
  BY <1>a, <1>b
<1> HIDE DEF p
<1>1. CASE DeleteStep(p)
  <2>1. ASSUME NEW i, FinishDelete(p, i) PROVE Cleaning(o)'
    BY <1>0, <1>a, <1>b, <2>1, FinishDeleteEffect DEF SameRun
  <2>2. ASSUME NEW i, GetForDelete(p, i) PROVE Cleaning(o)'
    BY <1>0, <1>a, <1>b, <2>2, GetForDeleteEffect DEF SameRun
  <2>3. CASE EndDeletes(p)
    BY <1>0, <1>a, <1>b, <2>3, EndDeletesEffect DEF SameRun
  <2> QED
    BY <1>1, <2>1, <2>2, <2>3
       DEF DeleteStep, SkipDelete, DeleteObject, DropOwner, RemoveFails
<1>2. ~CreateStep(p)
  BY <1>a DEF CreateStep, VisitKey, LoadKey, LoadKeyFails, CheckFails, CheckOwned, CheckUnowned,
     CheckMissing, CheckMissingFails, Adopt, AdoptFails, Apply, ApplyFails, EndKey, EndCreates
<1>3. CASE FinishStep(p)
  <2>1. CASE RemoveFinalizer(p)
    <3>1. cr' = [cr EXCEPT ![o].phase = "gone", ![o].finalizer = FALSE]
      BY <1>a, <2>1 DEF RemoveFinalizer
    <3> QED
      BY <1>0, <3>1 DEF Resource
  <2>2. CASE RemoveFinalizerFails(p)
    BY <1>a, <2>2 DEF RemoveFinalizerFails
  <2> QED
    BY <1>3, <1>a, <2>1, <2>2 DEF FinishStep, WriteStatus, WriteStatusFails
<1>4. \A b \in queue : BeginStep(p, b) => loc' = loc
  BY <1>a DEF BeginStep, BeginGone, BeginLive, BeginNew, BeginNewFails, BeginCleanup, Dequeue, Idle
<1>5. ASSUME NEW q \in Controllers, q # p, ControllerStep(q) PROVE loc'[p] = loc[p]
  <2>1. \A r : Become(q, r) => loc'[p] = loc[p]
    BY <1>0, <1>5 DEF Become, TypeOK
  <2>2. ASSUME NEW b \in queue, BeginStep(q, b) PROVE loc'[p] = loc[p]
    BY <2>1, <2>2 DEF BeginStep, BeginGone, BeginLive, BeginNew, BeginNewFails, BeginCleanup,
       Activate
  <2>3. DeleteStep(q) => loc'[p] = loc[p]
    BY <2>1 DEF DeleteStep, SkipDelete, GetForDelete, DeleteObject, DropOwner, RemoveFails,
       EndDeletes, FinishDelete
  <2>4. CreateStep(q) => loc'[p] = loc[p]
    BY <2>1 DEF CreateStep, VisitKey, LoadKey, LoadKeyFails, CheckFails, CheckOwned, CheckUnowned,
       CheckMissing, CheckMissingFails, Adopt, AdoptFails, Apply, ApplyFails, EndKey, EndCreates,
       FinishAsset
  <2>5. FinishStep(q) => loc'[p] = loc[p]
    BY <2>1 DEF FinishStep, WriteStatus, WriteStatusFails, RemoveFinalizer, RemoveFinalizerFails,
       EndReconcile
  <2> QED
    BY <1>5, <2>2, <2>3, <2>4, <2>5 DEF ControllerStep
<1>6. CASE Environment
  BY <1>6, <1>c DEF Environment, CreateOrEdit, DeleteOwner, DeliverEvent, FireTimer, LoseAsset,
     CollectGarbage
<1>7. ASSUME NEW q \in Controllers, Restart(q)
      PROVE  Cleaning(o)' \/ o \in queue' \/ cr'[o].phase # "deleting"
  <2>1. CASE q = p
    <3>1. queue' = (queue \ {e \in Owners : ControllerOf(e) = q})
                     \cup {e \in {d \in Owners : ControllerOf(d) = q} :
                             cr[e].phase \in {"live", "deleting"}}
      BY <1>7 DEF Restart
    <3> QED
      BY <2>1, <3>1 DEF p
  <2>2. CASE q # p
    BY <1>0, <1>7, <1>c, <2>2, EndReconcileEffect DEF Restart, OthersStay
  <2> QED
    BY <2>1, <2>2
<1>8. CASE UNCHANGED vars
  BY <1>8, <1>c DEF vars
<1>9. CASE ControllerStep(p)
  BY <1>1, <1>2, <1>3, <1>4, <1>9, <1>c DEF ControllerStep
<1> QED
  BY <1>5, <1>6, <1>7, <1>8, <1>9, <1>c DEF Next

\* The controller takes a deleted owner up.
LEMMA DeletedIsCleaned ==
    ASSUME TypeOK, NEW o \in Owners, CopyInv(o), cr[o].phase = "deleting", ~Unnoticed(o),
           o \in queue, BeginStep(ControllerOf(o), o)
    PROVE  Cleaning(o)'
<1>1. cache[o].phase = "deleting" /\ cache[o].finalizer
  BY DEF CopyInv
<1>2. BeginCleanup(ControllerOf(o), o)
  BY <1>1 DEF BeginStep, BeginGone, BeginLive, BeginNew, BeginNewFails
<1> QED
  BY <1>2, ControllerOfType, CleanupEffect DEF Cleaning

\* What the cache learns of a deleted owner brings it to the queue.
LEMMA NewsIsQueued ==
    ASSUME TypeOK, [Next]_vars, NEW o \in Owners, cr[o].phase = "deleting", Unnoticed(o),
           cache'[o].generation = cr[o].generation
    PROVE  o \in queue'
<1>1. CASE cache'[o] = cache[o]
  BY <1>1 DEF Unnoticed
<1>2. ASSUME NEW p \in Controllers, ControllerStep(p) PROVE cache' = cache
  BY <1>2 DEF ControllerStep, BeginStep, BeginGone, BeginLive, BeginNew, BeginNewFails,
     BeginCleanup, DeleteStep, SkipDelete, GetForDelete, DeleteObject, DropOwner, RemoveFails,
     EndDeletes, CreateStep, VisitKey, LoadKey, LoadKeyFails, CheckFails, CheckOwned,
     CheckUnowned, CheckMissing, CheckMissingFails, Adopt, AdoptFails, Apply, ApplyFails, EndKey,
     EndCreates, FinishStep, WriteStatus, WriteStatusFails, RemoveFinalizer,
     RemoveFinalizerFails, crVars
<1>3. ASSUME NEW e \in Owners, DeliverEvent(e) PROVE cache'[o] = cache[o] \/ o \in queue'
  <2>1. CASE e = o
    BY <1>3, <2>1 DEF DeliverEvent, Unnoticed
  <2>2. CASE e # o
    BY <1>3, <2>2 DEF DeliverEvent, TypeOK
  <2> QED
    BY <2>1, <2>2
<1>4. CASE Environment
  BY <1>1, <1>3, <1>4 DEF Environment, CreateOrEdit, DeleteOwner, StoreResource, FireTimer,
     LoseAsset, CollectGarbage, crVars
<1>5. ASSUME NEW p \in Controllers, Restart(p) PROVE cache'[o] = cache[o] \/ o \in queue'
  <2> DEFINE mine == {e \in Owners : ControllerOf(e) = p}
  <2>1. queue' = (queue \ mine) \cup {e \in mine : cr[e].phase \in {"live", "deleting"}}
    BY <1>5 DEF Restart
  <2>2. cache' = [e \in Owners |-> IF e \in mine THEN cr[e] ELSE cache[e]]
    BY <1>5 DEF Restart
  <2> QED
    BY <2>1, <2>2
<1>6. CASE UNCHANGED vars
  BY <1>1, <1>6 DEF vars
<1> QED
  BY <1>1, <1>2, <1>4, <1>5, <1>6 DEF Next

LEMMA DeletionInvInit == Init => DeletionInv
<1> SUFFICES ASSUME Init, NEW o \in Owners PROVE CopyInv(o) /\ GoingOn(o)
  BY DEF DeletionInv
<1>1. cr[o] = NewResource /\ cache[o] = NewResource
  BY DEF Init
<1>2. NewResource.phase = "absent" /\ NewResource.generation = 0
  BY DEF NewResource
<1> QED
  BY <1>1, <1>2 DEF CopyInv, GoingOn, Unnoticed

LEMMA DeletionInvStep == TypeOK /\ DeletionInv /\ [Next]_vars => DeletionInv'
<1> SUFFICES ASSUME TypeOK, DeletionInv, [Next]_vars, NEW o \in Owners
             PROVE  CopyInv(o)' /\ GoingOn(o)'
  BY DEF DeletionInv
<1>1. CopyInv(o) /\ GoingOn(o) /\ OwnerMove(o)
  BY OwnerMoves DEF DeletionInv
<1>2. cr[o].generation \in Nat /\ cache[o].generation \in Nat
  BY OwnerFields
<1>3. GoingOn(o)'
  <2> SUFFICES ASSUME cr'[o].phase = "deleting"
               PROVE  cache'[o].generation # cr'[o].generation \/ o \in queue' \/ Cleaning(o)'
    BY DEF GoingOn, Unnoticed
  <2>1. CASE Edited(o)
    BY <1>1, <1>2, <2>1 DEF Edited, CopyInv
  <2>2. CASE Untouched(o) \/ Rewritten(o) \/ Refreshed(o)
    <3>1. cr[o].phase = "deleting" /\ cr'[o].generation = cr[o].generation
      BY <2>2 DEF Untouched, Rewritten, Refreshed
    <3>2. CASE Unnoticed(o)
      BY <3>1, <3>2, NewsIsQueued
    <3>3. CASE ~Unnoticed(o) /\ o \in queue
      BY <1>1, <3>1, <3>3, PlaceIsKept, DeletedIsCleaned
    <3>4. CASE Cleaning(o)
      BY <3>1, <3>4, CleaningGoesOn
    <3> QED
      BY <1>1, <3>1, <3>2, <3>3, <3>4 DEF GoingOn
  <2> QED
    BY <1>1, <2>1, <2>2 DEF OwnerMove
<1> QED
  BY <1>1, <1>3, CopyStep

\* A stack, or a Kabanero, that is being deleted is never at rest: its clean-up is
\* under way or to come, whatever fails, restarts, is edited or lost meanwhile and
\* however old the copies are that its controller works on (processDeletion).
THEOREM NoRestWithDeletion == Spec => []DeletionGoesOn
<1>1. DeletionInv => DeletionGoesOn
  <2> SUFFICES ASSUME DeletionInv, NEW o \in Owners, cr[o].phase = "deleting", Quiet(o)
               PROVE  FALSE
    BY DEF DeletionGoesOn
  <2>1. ~Unnoticed(o) /\ o \notin queue
    BY DEF DeletionInv, CopyInv, Unnoticed, Quiet
  <2>2. Cleaning(o)
    BY <2>1 DEF DeletionInv, GoingOn
  <2> QED
    BY <2>2, ControllerOfType DEF Cleaning, Quiet, Idle
<1> QED
  BY <1>1, TypeCorrect, DeletionInvInit, DeletionInvStep, PTL DEF Spec

-----------------------------------------------------------------------------
(* An owner that is not disturbed *)

\* Users change or delete o while a reconcile of o runs or is due: the status of
\* the assets that the reconcile makes is refused.
EditedMeanwhile(o) ==
    /\ Busy(o)
    /\ (\E s \in Specs[o] : CreateOrEdit(o, s)) \/ DeleteOwner(o)

\* A version of o lists a zip twice.
ListedTwice(o) == \E s \in Specs[o] : CreateOrEdit(o, s) /\ ~NoDuplicates(s)

\* An asset goes that o owns, or o is no longer named as an owner of it: an
\* outsider deletes it; the other controller does, which read it before o
\* joined; the other controller applies what it found missing before o made it.
ReferenceTaken(o) ==
    \/ \E a \in Assets : o \in owners[a] /\ LoseAsset(a)
    \/ \E p \in Controllers :
          /\ loc[p].me # o /\ o \in owners[loc[p].item[2]]
          /\ Apply(p) \/ (o \notin loc[p].seen /\ DeleteObject(p))

\* A call fails on behalf of o, and the code goes on as if it had not.  (The
\* operator does try again when a Get fails in the creating loop.)
ErrorSwallowed(o) ==
    \E p \in Controllers :
        /\ loc[p].me = o
        /\ \/ \E i \in loc[p].todo : \/ o \in Stacks /\ CheckFails(p, i)
                                     \/ i[2] \in exists /\ SkipDelete(p, i)
           \/ AdoptFails(p) \/ RemoveFails(p)
           \/ p \in fresh /\ WriteStatusFails(p)

\* A TriggerBinding or TriggerTemplate is made for o: without an owner.
MadeUnowned(o) ==
    \E p \in Controllers :
        loc[p].me = o /\ loc[p].item[2] \in Triggers /\ Apply(p)

\* A zip is read for o whose content is not the usual one.
RenderedOtherwise(o) ==
    \E p \in Controllers :
        /\ loc[p].me = o
        /\ \/ \E k \in loc[p].keys : LoadKey(p, k) /\ loc'[p].loaded # Usual[k]
           \/ \E i \in loc[p].todo : CheckMissing(p, i) /\ loc'[p].loaded # Usual[i[1]]

\* The steps that put o among the disturbed owners.
Disturbs(o) ==
    \/ EditedMeanwhile(o) \/ ListedTwice(o) \/ ReferenceTaken(o)
    \/ ErrorSwallowed(o) \/ MadeUnowned(o) \/ RenderedOtherwise(o)

\* The assets that a spec asks for.
Product(spec) == {a \in Assets : \E k \in KeysOf(spec) : a \in Usual[k]}

\* The assets that carry the owner reference of o.
Owned(o) == {a \in Assets : o \in owners[a]}

\* The assets that a status knows to be active.
Recorded(status) ==
    {a \in Assets : \E k \in KeysOf(status.uses) : status.assets[k][a] = "active"}

\* A zip has no list, or one of all its assets.
Whole(lists) == \A k \in Keys : Listed(lists[k]) \in {{}, Usual[k]}

WellFormed(r) ==
    /\ NoDuplicates(r.spec) /\ NoDuplicates(r.status.uses)
    /\ Whole(r.status.assets)

\* o is being reconciled; an edit of o has not been noticed yet.
RunOf(o) == loc[ControllerOf(o)]

Working(o) == ~Idle(ControllerOf(o)) /\ RunOf(o).me = o

Waking(o) == cache[o].generation # cr[o].generation

\* Every asset of the spec is active in the status.
Complete(o) ==
    /\ cr[o].status.uses = cr[o].spec
    /\ \A k \in KeysOf(cr[o].spec) : \A a \in Usual[k] : cr[o].status.assets[k][a] = "active"

\* The cache, and what an old version in it still tells.
CacheInv(o) ==
    /\ o \in synced => cache[o] = cr[o]
    /\ cache[o].generation <= cr[o].generation
    /\ ~Waking(o) => /\ cache[o].spec = cr[o].spec
                     /\ \/ cache[o].phase = cr[o].phase
                        \/ cache[o].phase = "deleting" /\ cr[o].phase = "gone"
    /\ cache[o].finalizer => cr[o].finalizer \/ cr[o].phase = "gone"
    /\ o \in queue \/ o \in timer \/ Working(o) => ~Waking(o)
    /\ cr[o].phase = "deleting" /\ ~Waking(o) => cache[o].status = cr[o].status
    /\ WellFormed(cr[o]) /\ WellFormed(cache[o])

\* Whatever o owns can be found again, from its spec or from its status.
OwnedInv(o) ==
    /\ cr[o].phase \in {"absent", "gone"} => Owned(o) = {}
    /\ cr[o].phase = "live" /\ ~cr[o].finalizer => Owned(o) = {}
    /\ cr[o].phase = "live" => Owned(o) \subseteq Product(cr[o].spec) \cup Recorded(cr[o].status)
    /\ cr[o].phase = "live" /\ Waking(o) => Owned(o) \subseteq Recorded(cr[o].status)
    /\ cr[o].phase = "deleting" => Owned(o) \subseteq Recorded(cr[o].status)

\* At rest o owns what its spec asks for and its status says so.  A reconcile
\* may begin, or be about to begin, with an outdated version, and then its
\* status will be refused: only when the stored one is complete or a retry due.
RestInv(o) ==
    /\ cr[o].phase = "live" /\ ~Working(o) /\ o \notin queue /\ o \notin timer /\ ~Waking(o) =>
          Owned(o) = Product(cr[o].spec) /\ Complete(o)
    /\ cr[o].phase = "live" /\ ~Working(o) /\ o \in queue /\ o \notin synced =>
          Owned(o) \subseteq Product(cr[o].spec) /\ (Complete(o) \/ o \in timer)
    /\ Working(o) /\ ~RunOf(o).cleanup /\ ControllerOf(o) \notin fresh =>
          Complete(o) \/ o \in timer \/ (o \in queue /\ o \in synced)

OwnerInv(o) == CacheInv(o) /\ OwnedInv(o) /\ RestInv(o)

\* The run r, on behalf of an owner that is stored as c and owns the assets own.
Deleting(r) == r.pc \in {"delete", "remove"}

Creating(r) == r.pc \in {"assets", "adopt", "apply"}

RunKind(r, c) ==
    IF r.cleanup
    THEN /\ c.phase \in {"deleting", "gone"} /\ r.spec = {}
         /\ r.pc \in {"delete", "remove", "finalizer"}
    ELSE /\ c.phase = "live" /\ c.finalizer /\ r.spec = c.spec
         /\ r.pc # "finalizer"

RunLists(r) == r.keys \subseteq KeysOf(r.spec) /\ Whole(r.lists)

\* What is owned without need is on the list of the deleting loop.
RunOwned(r, own) ==
    IF Deleting(r)
    THEN own \subseteq Product(r.spec) \cup {i[2] : i \in r.todo} /\ KeysOf(r.spec) \subseteq r.keys
    ELSE own \subseteq Product(r.spec)

\* The list of the creating loop is about one zip.
RunTodo(r) ==
    /\ Creating(r) =>
          \A x \in r.todo : /\ x[1] \in KeysOf(r.spec) \ r.keys
                            /\ x[2] \in Usual[x[1]]
                            /\ Listed(r.lists[x[1]]) = Usual[x[1]]
                            /\ r.loaded \in {{}, Usual[x[1]]}
                            /\ \A y \in r.todo : y[1] = x[1]
    /\ r.pc \in {"adopt", "apply"} => r.item \in r.todo
    /\ r.pc = "status" => r.keys = {}

\* The state of an asset is a reason to try again; the operator has one more.
Reason(r, st) == st = "failed" \/ (r.me \notin Stacks /\ st = "unknown")

\* An asset of a zip that was visited is active and owned, or a retry is due.
AssetDone(r, own, k, a) ==
    \/ k \in r.broken
    \/ Creating(r) /\ <<k, a>> \in r.todo
    \/ Reason(r, r.lists[k][a])
    \/ r.lists[k][a] = "active" /\ a \in own

RunDone(r, own) ==
    \A k \in KeysOf(r.spec) \ r.keys : \A a \in Usual[k] : AssetDone(r, own, k, a)

RunOK(r, c, own) ==
    RunKind(r, c) /\ RunLists(r) /\ RunOwned(r, own) /\ RunTodo(r) /\ RunDone(r, own)

\* What is known of an owner that is not disturbed.
Tracked(o) == OwnerInv(o) /\ (Working(o) => RunOK(RunOf(o), cr[o], Owned(o)))

SettleInv == \A o \in Owners \ disturbed : Tracked(o)

\* What is known of all owners: one controller works on each, and what has an
\* owner exists.
WorkInv ==
    /\ \A p \in Controllers : ~Idle(p) => ControllerOf(loc[p].me) = p
    /\ \A a \in Assets : owners[a] # {} => a \in exists

\* No owner leaves the disturbed ones.
LEMMA DisturbedStay ==
    ASSUME Next
    PROVE  disturbed \subseteq disturbed'
<1> USE DEF Disturb, history
<1>1. ASSUME NEW p \in Controllers, NEW o \in queue, BeginStep(p, o)
      PROVE  disturbed \subseteq disturbed'
  BY <1>1 DEF BeginStep, BeginGone, BeginLive, BeginNew, BeginNewFails, BeginCleanup
<1>2. ASSUME NEW p \in Controllers, DeleteStep(p)
      PROVE  disturbed \subseteq disturbed'
  BY <1>2 DEF DeleteStep, SkipDelete, GetForDelete, DeleteObject, DropOwner, RemoveFails,
              EndDeletes
<1>3. ASSUME NEW p \in Controllers, CreateStep(p)
      PROVE  disturbed \subseteq disturbed'
  <2>1. ASSUME NEW k \in loc[p].keys, VisitKey(p, k) \/ LoadKey(p, k) \/ LoadKeyFails(p, k)
        PROVE  disturbed \subseteq disturbed'
    BY <2>1 DEF VisitKey, LoadKey, LoadKeyFails
  <2>2. ASSUME NEW i \in loc[p].todo,
               \/ CheckFails(p, i) \/ CheckOwned(p, i) \/ CheckUnowned(p, i)
               \/ CheckMissing(p, i) \/ CheckMissingFails(p, i)
        PROVE  disturbed \subseteq disturbed'
    BY <2>2 DEF CheckFails, CheckOwned, CheckUnowned, CheckMissing, CheckMissingFails
  <2>3. CASE \/ Adopt(p) \/ AdoptFails(p) \/ Apply(p) \/ ApplyFails(p)
             \/ EndKey(p) \/ EndCreates(p)
    BY <2>3 DEF Adopt, AdoptFails, Apply, ApplyFails, EndKey, EndCreates
  <2> QED
    BY <1>3, <2>1, <2>2, <2>3 DEF CreateStep
<1>4. ASSUME NEW p \in Controllers, FinishStep(p)
      PROVE  disturbed \subseteq disturbed'
  BY <1>4 DEF FinishStep, WriteStatus, WriteStatusFails, RemoveFinalizer, RemoveFinalizerFails
<1>5. ASSUME NEW p \in Controllers, Restart(p)
      PROVE  disturbed \subseteq disturbed'
  BY <1>5 DEF Restart
<1>6. CASE Environment
  <2>1. ASSUME NEW o \in Owners, DeliverEvent(o) \/ FireTimer(o)
        PROVE  disturbed \subseteq disturbed'
    BY <2>1 DEF DeliverEvent, FireTimer
  <2>2. ASSUME NEW o \in Owners, DeleteOwner(o) \/ \E s \in Specs[o] : CreateOrEdit(o, s)
        PROVE  disturbed \subseteq disturbed'
    BY <2>2 DEF DeleteOwner, CreateOrEdit
  <2>3. ASSUME NEW a \in Assets, LoseAsset(a) \/ CollectGarbage(a)
        PROVE  disturbed \subseteq disturbed'
    BY <2>3 DEF LoseAsset, CollectGarbage
  <2> QED
    BY <1>6, <2>1, <2>2, <2>3 DEF Environment
<1> QED
  BY <1>1, <1>2, <1>3, <1>4, <1>5, <1>6 DEF Next, ControllerStep

\* The steps that the properties except are the ones named above, and no more.
LEMMA DisturbersAreMarked ==
    ASSUME TypeOK, NEW u \in Owners, Disturbs(u)
    PROVE  u \in disturbed'
<1> USE DEF Disturb
<1>1. CASE EditedMeanwhile(u)
  BY <1>1 DEF EditedMeanwhile, CreateOrEdit, DeleteOwner
<1>2. CASE ListedTwice(u)
  BY <1>2 DEF ListedTwice, CreateOrEdit
<1>3. CASE ReferenceTaken(u)
  <2>1. ASSUME NEW a \in Assets, u \in owners[a], LoseAsset(a)
        PROVE  u \in disturbed'
    BY <2>1 DEF LoseAsset
  <2>2. ASSUME NEW p \in Controllers, loc[p].me # u, u \in owners[loc[p].item[2]],
               Apply(p) \/ (u \notin loc[p].seen /\ DeleteObject(p))
        PROVE  u \in disturbed'
    BY <2>2 DEF Apply, DeleteObject
  <2> QED
    BY <1>3, <2>1, <2>2 DEF ReferenceTaken
<1>4. CASE ErrorSwallowed(u)
  <2>1. PICK p \in Controllers :
           /\ loc[p].me = u
           /\ \/ \E i \in loc[p].todo : \/ u \in Stacks /\ CheckFails(p, i)
                                        \/ i[2] \in exists /\ SkipDelete(p, i)
              \/ AdoptFails(p) \/ RemoveFails(p)
              \/ p \in fresh /\ WriteStatusFails(p)
    BY <1>4 DEF ErrorSwallowed
  <2>2. ASSUME NEW i \in loc[p].todo,
               \/ u \in Stacks /\ CheckFails(p, i)
               \/ i[2] \in exists /\ SkipDelete(p, i)
        PROVE  u \in disturbed'
    BY <2>1, <2>2 DEF CheckFails, SkipDelete
  <2>3. CASE AdoptFails(p) \/ RemoveFails(p) \/ (p \in fresh /\ WriteStatusFails(p))
    BY <2>1, <2>3 DEF AdoptFails, RemoveFails, WriteStatusFails
  <2> QED
    BY <2>1, <2>2, <2>3
<1>5. CASE MadeUnowned(u)
  BY <1>5 DEF MadeUnowned, Apply
<1>6. CASE RenderedOtherwise(u)
  <2>1. ASSUME NEW p \in Controllers, NEW k \in loc[p].keys, loc[p].me = u,
               LoadKey(p, k), loc'[p].loaded # Usual[k]
        PROVE  u \in disturbed'
    <3>1. PICK m \in Contents[k] :
             /\ loc'[p].loaded = m
             /\ Disturb(IF m = Usual[k] THEN {} ELSE {loc[p].me})
      BY <2>1, LoadKeyEffect
    <3> QED
      BY <2>1, <3>1
  <2>2. ASSUME NEW p \in Controllers, NEW i \in loc[p].todo, loc[p].me = u,
               CheckMissing(p, i), loc'[p].loaded # Usual[i[1]]
        PROVE  u \in disturbed'
    <3>1. PICK m \in Manifests(p, i) :
             /\ loc'[p].loaded = m
             /\ Disturb(IF m = Usual[i[1]] THEN {} ELSE {loc[p].me})
      BY <2>2, CheckMissingEffect
    <3> QED
      BY <2>2, <3>1
  <2> QED
    BY <1>6, <2>1, <2>2 DEF RenderedOtherwise
<1> QED
  BY <1>1, <1>2, <1>3, <1>4, <1>5, <1>6 DEF Disturbs

\* Who is not disturbed after a step was not so before it, nor by it.
LEMMA StillUndisturbed ==
    ASSUME TypeOK, Next, NEW u \in Owners \ disturbed'
    PROVE  u \in Owners \ disturbed /\ ~Disturbs(u)
  BY DisturbedStay, DisturbersAreMarked

\* A zip renders to assets.
LEMMA UsualType ==
    ASSUME NEW k \in Keys
    PROVE  Usual[k] \in Contents[k] /\ Usual[k] \in SUBSET Assets
<1>1. Contents[k] \in SUBSET SUBSET Assets
  BY StackAssumption
<1> QED
  BY <1>1, StackAssumption

\* The keys of entries are keys.
LEMMA KeysAreKeys ==
    ASSUME NEW uses \in SUBSET Use
    PROVE  KeysOf(uses) \subseteq Keys
  BY DEF KeysOf, Use

\* Setting the state of an asset.
LEMMA SetStateValue ==
    ASSUME NEW lists \in AssetLists, NEW i \in Keys \X Assets, NEW st \in AssetStates,
           NEW k \in Keys, NEW a \in Assets
    PROVE  SetState(lists, i, st)[k][a] = IF k = i[1] /\ a = i[2] THEN st ELSE lists[k][a]
  BY DEF SetState, AssetLists

\* ... which does not change the list.
LEMMA SetStateListed ==
    ASSUME NEW lists \in AssetLists, NEW i \in Keys \X Assets, NEW st \in AssetStates,
           st # "none", i[2] \in Listed(lists[i[1]]), NEW k \in Keys
    PROVE  Listed(SetState(lists, i, st)[k]) = Listed(lists[k])
  BY SetStateValue DEF Listed

-----------------------------------------------------------------------------
(* What the steps do to those whom they are not about *)

\* The steps of the two loops.
LEMMA LoopEffects ==
    ASSUME TypeOK, NEW p \in Controllers, DeleteStep(p) \/ CreateStep(p)
    PROVE  /\ ~Idle(p) /\ loc'[p].pc # "idle" /\ SameRun(p) /\ OthersStay(p)
           /\ UNCHANGED <<crVars, timer>>
<1>1. CASE DeleteStep(p)
  <2>1. ~Idle(p) /\ UNCHANGED <<crVars, timer>>
    BY <1>1 DEF DeleteStep, SkipDelete, GetForDelete, DeleteObject, DropOwner, RemoveFails,
                EndDeletes, Idle
  <2>2. ASSUME NEW i, FinishDelete(p, i) PROVE loc'[p].pc # "idle" /\ SameRun(p) /\ OthersStay(p)
    BY <2>2, FinishDeleteEffect
  <2>3. loc'[p].pc # "idle" /\ SameRun(p) /\ OthersStay(p)
    <3>1. CASE EndDeletes(p)
      BY <3>1, EndDeletesEffect
    <3>2. ASSUME NEW i \in loc[p].todo, GetForDelete(p, i)
          PROVE  loc'[p].pc # "idle" /\ SameRun(p) /\ OthersStay(p)
      BY <3>2, GetForDeleteEffect
    <3> QED
      BY <1>1, <2>2, <3>1, <3>2 DEF DeleteStep, SkipDelete, DeleteObject, DropOwner, RemoveFails
  <2> QED
    BY <2>1, <2>3
<1>2. CASE CreateStep(p)
  <2>1. ~Idle(p) /\ UNCHANGED <<crVars, timer>>
    BY <1>2 DEF CreateStep, VisitKey, LoadKey, LoadKeyFails, CheckFails, CheckOwned, CheckUnowned,
       CheckMissing, CheckMissingFails, Adopt, AdoptFails, Apply, ApplyFails, EndKey, EndCreates,
       Idle
  <2>2. ASSUME NEW i, NEW st, FinishAsset(p, i, st)
        PROVE  loc'[p].pc # "idle" /\ SameRun(p) /\ OthersStay(p)
    BY <2>2, FinishAssetEffect
  <2>3. ASSUME NEW k \in loc[p].keys, VisitKey(p, k) \/ LoadKey(p, k) \/ LoadKeyFails(p, k)
        PROVE  loc'[p].pc # "idle" /\ SameRun(p) /\ OthersStay(p)
    BY <2>3, VisitKeyEffect, LoadKeyEffect, LoadKeyFailsEffect
  <2>4. ASSUME NEW i \in loc[p].todo, CheckUnowned(p, i) \/ CheckMissing(p, i)
        PROVE  loc'[p].pc # "idle" /\ SameRun(p) /\ OthersStay(p)
    BY <2>4, CheckUnownedEffect, CheckMissingEffect
  <2>5. ASSUME EndKey(p) \/ EndCreates(p)
        PROVE  loc'[p].pc # "idle" /\ SameRun(p) /\ OthersStay(p)
    BY <2>5, EndKeyEffect, EndCreatesEffect
  <2>6. loc'[p].pc # "idle" /\ SameRun(p) /\ OthersStay(p)
    <3>1. ASSUME NEW i \in loc[p].todo,
                 CheckFails(p, i) \/ CheckOwned(p, i) \/ CheckMissingFails(p, i)
          PROVE  loc'[p].pc # "idle" /\ SameRun(p) /\ OthersStay(p)
      BY <2>2, <3>1 DEF CheckFails, CheckOwned, CheckMissingFails
    <3>2. CASE Adopt(p) \/ AdoptFails(p) \/ Apply(p) \/ ApplyFails(p)
      BY <2>2, <3>2 DEF Adopt, AdoptFails, Apply, ApplyFails
    <3> QED
      BY <1>2, <2>3, <2>4, <2>5, <3>1, <3>2 DEF CreateStep
  <2> QED
    BY <2>1, <2>6
<1> QED
  BY <1>1, <1>2

\* The end of a reconcile.
LEMMA FinishEffects ==
    ASSUME TypeOK, NEW p \in Controllers, FinishStep(p)
    PROVE  /\ ~Idle(p) /\ loc'[p].pc = "idle" /\ OthersStay(p) /\ fresh' = fresh \ {p}
           /\ UNCHANGED <<cache, exists, owners, held>>
           /\ \A u \in Owners : u # loc[p].me =>
                 /\ cr'[u] = cr[u] /\ (u \in synced' <=> u \in synced)
                 /\ (u \in queue' <=> u \in queue) /\ (u \in timer' <=> u \in timer)
<1>1. ~Idle(p) /\ EndReconcile(p) /\ UNCHANGED <<cache, exists, owners, held>>
  BY DEF FinishStep, WriteStatus, WriteStatusFails, RemoveFinalizer, RemoveFinalizerFails, Idle,
         apiVars
<1>2. loc'[p].pc = "idle" /\ OthersStay(p) /\ fresh' = fresh \ {p}
  BY <1>1, EndReconcileEffect DEF EndReconcile
<1>3. ASSUME NEW u \in Owners, u # loc[p].me
      PROVE  /\ cr'[u] = cr[u] /\ (u \in synced' <=> u \in synced)
             /\ (u \in queue' <=> u \in queue) /\ (u \in timer' <=> u \in timer)
  <2>1. CASE WriteStatus(p)
    BY <1>3, <2>1 DEF WriteStatus, TypeOK
  <2>2. CASE WriteStatusFails(p)
    BY <1>3, <2>2 DEF WriteStatusFails
  <2>3. CASE RemoveFinalizer(p)
    BY <1>3, <2>3 DEF RemoveFinalizer, TypeOK
  <2>4. CASE RemoveFinalizerFails(p)
    BY <1>3, <2>4 DEF RemoveFinalizerFails
  <2> QED
    BY <2>1, <2>2, <2>3, <2>4 DEF FinishStep
<1> QED
  BY <1>1, <1>2, <1>3

\* The start of a reconcile.
LEMMA BeginEffects ==
    ASSUME TypeOK, NEW p \in Controllers, NEW o \in Owners, BeginStep(p, o)
    PROVE  /\ Idle(p) /\ o \in queue /\ ControllerOf(o) = p
           /\ OthersStay(p) /\ (loc'[p] = loc[p] \/ loc'[p].me = o)
           /\ UNCHANGED <<exists, owners, held>>
           /\ \A q \in Controllers : q # p => (q \in fresh' <=> q \in fresh)
           /\ \A u \in Owners : u # o =>
                 /\ cr'[u] = cr[u] /\ cache'[u] = cache[u] /\ (u \in synced' <=> u \in synced)
                 /\ (u \in queue' <=> u \in queue) /\ (u \in timer' <=> u \in timer)
<1>1. Dequeue(p, o) /\ UNCHANGED <<exists, owners, held>>
  BY DEF BeginStep, BeginGone, BeginLive, BeginNew, BeginNewFails, BeginCleanup, apiVars
<1>2. OthersStay(p) /\ (loc'[p] = loc[p] \/ loc'[p].me = o)
  <2>1. CASE BeginGone(p, o) \/ BeginNewFails(p, o)
    BY <2>1 DEF BeginGone, BeginNewFails, OthersStay
  <2>2. CASE BeginLive(p, o) \/ BeginNew(p, o)
    BY <2>2, ActivateEffect DEF BeginLive, BeginNew
  <2>3. CASE BeginCleanup(p, o)
    BY <2>3, CleanupEffect
  <2> QED
    BY <2>1, <2>2, <2>3 DEF BeginStep
<1>3. ASSUME NEW q \in Controllers, q # p PROVE q \in fresh' <=> q \in fresh
  BY <1>3 DEF BeginStep, BeginGone, BeginLive, BeginNew, BeginNewFails, BeginCleanup, crVars
<1>4. ASSUME NEW u \in Owners, u # o
      PROVE  /\ cr'[u] = cr[u] /\ cache'[u] = cache[u] /\ (u \in synced' <=> u \in synced)
             /\ (u \in queue' <=> u \in queue) /\ (u \in timer' <=> u \in timer)
  <2>1. CASE BeginNew(p, o)
    BY <1>4, <2>1 DEF BeginNew, TypeOK
  <2>2. CASE BeginGone(p, o) \/ BeginLive(p, o) \/ BeginNewFails(p, o) \/ BeginCleanup(p, o)
    BY <1>4, <2>2 DEF BeginGone, BeginLive, BeginNewFails, BeginCleanup, crVars
  <2> QED
    BY <2>1, <2>2 DEF BeginStep
<1> QED
  BY <1>1, <1>2, <1>3, <1>4 DEF Dequeue

\* The references to an owner whom no step of a loop is about, and its place in
\* the queue, stay as they are unless it is disturbed.
LEMMA LoopSparesOthers ==
    ASSUME TypeOK, HeldMatches, NEW p \in Controllers, DeleteStep(p) \/ CreateStep(p),
           NEW u \in Owners, u # loc[p].me, ~ReferenceTaken(u)
    PROVE  Owned(u)' = Owned(u) /\ (u \in queue' <=> u \in queue)
<1> DEFINE a == loc[p].item[2]
           me == loc[p].me
<1>0. a \in Assets /\ owners \in [Assets -> SUBSET Owners]
  BY LocalFields DEF TypeOK
<1>1. CASE UNCHANGED <<owners, queue>>
  BY <1>1 DEF Owned
<1>2. ASSUME NEW refs, owners' = [owners EXCEPT ![a] = refs], u \in refs <=> u \in owners[a]
      PROVE  Owned(u)' = Owned(u)
  BY <1>0, <1>2 DEF Owned
<1>3. CASE DeleteObject(p)
  <2>1. owners' = [owners EXCEPT ![a] = {}] /\ OtherOwners(p) = {}
        /\ (queue' = queue \/ queue' = queue \cup Watchers(a))
    BY <1>3 DEF DeleteObject, RemoveAsset, StoreOwners
  <2>2. u \notin loc[p].seen
    BY <2>1 DEF OtherOwners
  <2>3. u \notin owners[a]
    BY <1>3, <2>2 DEF ReferenceTaken
  <2>4. u \notin Watchers(a)
    BY <2>3 DEF Watchers
  <2> QED
    BY <1>2, <2>1, <2>3, <2>4
<1>4. CASE DropOwner(p)
  <2>1. /\ owners' = [owners EXCEPT ![a] = loc[p].seen \ {me}] /\ queue' = queue
        /\ loc[p].seen = owners[a]
    BY <1>4 DEF DropOwner, StoreOwners, OtherOwners, HeldMatches, Holding
  <2> QED
    BY <1>2, <2>1
<1>5. CASE Adopt(p)
  <2>1. /\ owners' = [owners EXCEPT ![a] = loc[p].seen \cup {me}] /\ queue' = queue
        /\ loc[p].seen = owners[a]
    BY <1>5 DEF Adopt, StoreOwners, HeldMatches, Holding
  <2> QED
    BY <1>2, <2>1
<1>6. CASE Apply(p)
  <2>1. /\ owners' = [owners EXCEPT ![a] = IF a \in Triggers THEN owners[a] ELSE {me}]
        /\ queue' = queue
    BY <1>6 DEF Apply, StoreOwners
  <2>2. u \notin owners[a]
    BY <1>6 DEF ReferenceTaken
  <2> QED
    BY <1>2, <2>1, <2>2
<1>7. CASE DeleteStep(p) /\ ~DeleteObject(p) /\ ~DropOwner(p)
  BY <1>1, <1>7 DEF DeleteStep, SkipDelete, GetForDelete, RemoveFails, EndDeletes, apiVars
<1>8. CASE CreateStep(p) /\ ~Adopt(p) /\ ~Apply(p)
  BY <1>1, <1>8 DEF CreateStep, VisitKey, LoadKey, LoadKeyFails, CheckFails, CheckOwned,
     CheckUnowned, CheckMissing, CheckMissingFails, AdoptFails, ApplyFails, EndKey, EndCreates,
     apiVars
<1> QED
  BY <1>3, <1>4, <1>5, <1>6, <1>7, <1>8

\* Somebody else takes an asset away.
LEMMA LossSparesOthers ==
    ASSUME TypeOK, SettleInv, NEW a \in Assets, LoseAsset(a) \/ CollectGarbage(a),
           NEW u \in Owners \ disturbed, ~ReferenceTaken(u)
    PROVE  Owned(u)' = Owned(u) /\ (u \in queue' <=> u \in queue)
<1>0. owners \in [Assets -> SUBSET Owners] /\ OwnedInv(u)
  BY DEF TypeOK, SettleInv, Tracked, OwnerInv
<1>1. ASSUME u \notin owners[a], RemoveAsset(a) PROVE Owned(u)' = Owned(u) /\ (u \in queue' <=> u \in queue)
  <2>1. owners' = [owners EXCEPT ![a] = {}] /\ u \notin Watchers(a)
        /\ (queue' = queue \/ queue' = queue \cup Watchers(a))
    BY <1>1 DEF RemoveAsset, StoreOwners, Watchers
  <2> QED
    BY <1>0, <1>1, <2>1 DEF Owned
<1>2. CASE LoseAsset(a)
  BY <1>1, <1>2 DEF LoseAsset, ReferenceTaken
<1>3. CASE CollectGarbage(a)
  <2> DEFINE living == {o \in owners[a] : cr[o].phase # "gone"}
  <2>1. cr[u].phase = "gone" => u \notin owners[a]
    BY <1>0 DEF OwnedInv, Owned
  <2>2. u \in living <=> u \in owners[a]
    BY <2>1
  <2>3. CASE living = {}
    BY <1>1, <1>3, <2>2, <2>3 DEF CollectGarbage
  <2>4. CASE living # {}
    <3>1. owners' = [owners EXCEPT ![a] = living] /\ queue' = queue
      BY <1>3, <2>4 DEF CollectGarbage, StoreOwners
    <3> QED
      BY <1>0, <2>2, <3>1 DEF Owned
  <2> QED
    BY <2>3, <2>4
<1> QED
  BY <1>2, <1>3

\* One controller works on o.
LEMMA Works ==
    ASSUME TypeOK, WorkInv, NEW p \in Controllers, ~Idle(p)
    PROVE  /\ loc[p].me \in Owners /\ ControllerOf(loc[p].me) = p /\ Working(loc[p].me)
           /\ RunOf(loc[p].me) = loc[p]
  BY LocalFields DEF WorkInv, Working, RunOf

\* WorkInv holds in the beginning ...
LEMMA WorkInvInit == Init => WorkInv
  BY DEF Init, WorkInv, Idle, IdleState

\* ... and is kept.
LEMMA WorkInvStep == TypeOK /\ HeldMatches /\ WorkInv /\ [Next]_vars => WorkInv'
<1> SUFFICES ASSUME TypeOK, HeldMatches, WorkInv, [Next]_vars PROVE WorkInv'
  OBVIOUS
<1> DEFINE Present == \A a \in Assets : owners[a] # {} => a \in exists
           Assigned == \A p \in Controllers : ~Idle(p) => ControllerOf(loc[p].me) = p
<1>0. Present /\ Assigned /\ (Present' /\ Assigned' => WorkInv')
  BY DEF WorkInv
<1>1. ASSUME NEW p \in Controllers, OthersStay(p),
             loc'[p].pc = "idle" \/ ControllerOf(loc'[p].me) = p
      PROVE  Assigned'
  BY <1>0, <1>1 DEF OthersStay, Idle
<1>2. ASSUME UNCHANGED <<exists, owners>> PROVE Present'
  BY <1>0, <1>2
<1>3. ASSUME NEW a \in Assets, NEW refs, owners' = [owners EXCEPT ![a] = refs],
             exists \ {a} \subseteq exists', refs # {} => a \in exists'
      PROVE  Present'
  BY <1>0, <1>3 DEF TypeOK
<1>4. ASSUME NEW a \in Assets, RemoveAsset(a) PROVE Present'
  BY <1>3, <1>4 DEF RemoveAsset, StoreOwners
<1> HIDE DEF Present, Assigned
<1>5. CASE UNCHANGED vars
  BY <1>0, <1>2, <1>5 DEF vars, Assigned, Idle
<1>6. ASSUME NEW p \in Controllers, NEW o \in queue, BeginStep(p, o) PROVE WorkInv'
  <2>1. o \in Owners
    BY DEF TypeOK
  <2>2. /\ Idle(p) /\ ControllerOf(o) = p /\ OthersStay(p)
        /\ (loc'[p] = loc[p] \/ loc'[p].me = o) /\ UNCHANGED <<exists, owners>>
    BY <1>6, <2>1, BeginEffects
  <2> QED
    BY <1>0, <1>1, <1>2, <2>2 DEF Idle
<1>7. ASSUME NEW p \in Controllers, DeleteStep(p) \/ CreateStep(p) PROVE WorkInv'
  <2>1. Assigned'
    <3>1. ~Idle(p) /\ SameRun(p) /\ OthersStay(p)
      BY <1>7, LoopEffects
    <3> QED
      BY <1>0, <1>1, <3>1 DEF SameRun, Assigned
  <2>2. Present'
    <3> DEFINE a == loc[p].item[2]
    <3>0. a \in Assets
      BY LocalFields
    <3> HIDE DEF a
    <3>1. CASE DeleteObject(p)
      BY <1>4, <3>0, <3>1 DEF DeleteObject, a
    <3>2. CASE DropOwner(p)
      <4>1. a \in exists /\ exists' = exists /\ \E refs : owners' = [owners EXCEPT ![a] = refs]
        BY <3>2 DEF DropOwner, StoreOwners, HeldMatches, Holding, a
      <4> QED
        BY <1>3, <3>0, <4>1
    <3>3. CASE Adopt(p)
      <4>1. a \in exists /\ exists' = exists /\ \E refs : owners' = [owners EXCEPT ![a] = refs]
        BY <3>3 DEF Adopt, StoreOwners, HeldMatches, Holding, a
      <4> QED
        BY <1>3, <3>0, <4>1
    <3>4. CASE Apply(p)
      <4>1. exists' = exists \cup {a} /\ \E refs : owners' = [owners EXCEPT ![a] = refs]
        BY <3>4 DEF Apply, StoreOwners, a
      <4> QED
        BY <1>3, <3>0, <4>1
    <3>5. CASE DeleteStep(p) /\ ~DeleteObject(p) /\ ~DropOwner(p)
      BY <1>2, <3>5 DEF DeleteStep, SkipDelete, GetForDelete, RemoveFails, EndDeletes, apiVars
    <3>6. CASE CreateStep(p) /\ ~Adopt(p) /\ ~Apply(p)
      BY <1>2, <3>6 DEF CreateStep, VisitKey, LoadKey, LoadKeyFails, CheckFails, CheckOwned,
         CheckUnowned, CheckMissing, CheckMissingFails, AdoptFails, ApplyFails, EndKey, EndCreates,
         apiVars
    <3> QED
      BY <1>7, <3>1, <3>2, <3>3, <3>4, <3>5, <3>6
  <2> QED
    BY <1>0, <2>1, <2>2
<1>8. ASSUME NEW p \in Controllers, FinishStep(p) \/ Restart(p) PROVE WorkInv'
  <2>1. EndReconcile(p) /\ UNCHANGED <<exists, owners>>
    BY <1>8 DEF FinishStep, WriteStatus, WriteStatusFails, RemoveFinalizer, RemoveFinalizerFails,
                Restart, apiVars
  <2> QED
    BY <1>0, <1>1, <1>2, <2>1, EndReconcileEffect
<1>9. CASE Environment
  <2>1. loc' = loc
    BY <1>9 DEF Environment, CreateOrEdit, DeleteOwner, DeliverEvent, FireTimer, LoseAsset,
       CollectGarbage
  <2>2. Assigned'
    BY <1>0, <2>1 DEF Assigned, Idle
  <2>3. ASSUME NEW a \in Assets, LoseAsset(a) PROVE Present'
    BY <1>4, <2>3 DEF LoseAsset
  <2>4. ASSUME NEW a \in Assets, CollectGarbage(a) PROVE Present'
    <3>1. CASE RemoveAsset(a)
      BY <1>4, <3>1
    <3>2. CASE a \in exists /\ exists' = exists /\ \E refs : owners' = [owners EXCEPT ![a] = refs]
      BY <1>3, <3>2
    <3> QED
      BY <2>4, <3>1, <3>2 DEF CollectGarbage, StoreOwners
  <2>5. CASE UNCHANGED <<exists, owners>>
    BY <1>0, <1>2, <2>2, <2>5
  <2> QED
    BY <1>0, <1>9, <2>2, <2>3, <2>4, <2>5
       DEF Environment, CreateOrEdit, DeleteOwner, DeliverEvent, FireTimer, apiVars
<1> QED
  BY <1>5, <1>6, <1>7, <1>8, <1>9 DEF Next, ControllerStep

\* Nothing happens to o.
LEMMA StaysTracked ==
    ASSUME NEW o \in Owners, Tracked(o), cr'[o] = cr[o], cache'[o] = cache[o],
           o \in synced' <=> o \in synced, o \in queue' <=> o \in queue,
           o \in timer' <=> o \in timer, Owned(o)' = Owned(o),
           \/ ~Working(o) /\ ~Working(o)'
           \/ RunOf(o)' = RunOf(o) /\ (ControllerOf(o) \in fresh' <=> ControllerOf(o) \in fresh)
    PROVE  Tracked(o)'
<1>1. /\ Waking(o)' = Waking(o) /\ Complete(o)' = Complete(o) /\ Working(o)' = Working(o)
      /\ Working(o) => RunOf(o)' = RunOf(o)
                       /\ (ControllerOf(o) \in fresh' <=> ControllerOf(o) \in fresh)
  BY DEF Waking, Complete, Working, RunOf, Idle
<1>2. CacheInv(o)'
  BY <1>1 DEF Tracked, OwnerInv, CacheInv
<1>3. OwnedInv(o)'
  BY <1>1 DEF Tracked, OwnerInv, OwnedInv
<1>4. RestInv(o)'
  BY <1>1 DEF Tracked, OwnerInv, RestInv
<1>5. Working(o)' => RunOK(RunOf(o)', cr'[o], Owned(o)')
  BY <1>1 DEF Tracked
<1> QED
  BY <1>2, <1>3, <1>4, <1>5 DEF Tracked, OwnerInv
-----------------------------------------------------------------------------
(* The steps of a run *)

\* r and n belong to the same reconcile.
Same(n, r) ==
    n.me = r.me /\ n.cleanup = r.cleanup /\ n.spec = r.spec /\ n.broken = r.broken

\* The deleting loop goes on: what was given up was on its list.
LEMMA DeletingOn ==
    ASSUME NEW r \in Local, NEW n \in Local, NEW c, NEW own, NEW own2,
           RunOK(r, c, own), Deleting(r), Deleting(n), Same(n, r),
           n.lists = r.lists, n.keys = r.keys,
           \/ own2 = own /\ n.todo = r.todo
           \/ \E i \in Keys \X Assets : own2 = own \ {i[2]} /\ n.todo = r.todo \ {i}
    PROVE  RunOK(n, c, own2)
<1>1. RunKind(n, c) /\ RunLists(n) /\ RunTodo(n)
  BY DEF RunOK, RunKind, RunLists, RunTodo, Same, Deleting, Creating
<1>2. own \subseteq Product(r.spec) \cup {i[2] : i \in r.todo} /\ KeysOf(r.spec) \subseteq r.keys
  BY DEF RunOK, RunOwned
<1>3. own2 \subseteq Product(n.spec) \cup {i[2] : i \in n.todo}
  BY <1>2 DEF Same
<1>4. RunDone(n, own2) /\ RunOwned(n, own2)
  BY <1>2, <1>3 DEF RunDone, RunOwned, Same
<1> QED
  BY <1>1, <1>4 DEF RunOK

\* ... and ends.
LEMMA DeletingEnds ==
    ASSUME NEW r \in Local, NEW n \in Local, NEW c, NEW own,
           RunOK(r, c, own), r.pc = "delete", r.todo = {},
           n.pc = IF r.cleanup THEN "finalizer" ELSE "create", Same(n, r),
           n.lists = r.lists, n.keys = r.keys
    PROVE  RunOK(n, c, own)
<1>1. RunKind(n, c) /\ RunLists(n) /\ RunTodo(n)
  BY DEF RunOK, RunKind, RunLists, RunTodo, Same, Creating
<1>2. own \subseteq Product(r.spec) /\ KeysOf(r.spec) \subseteq r.keys
  BY DEF RunOK, RunOwned, Deleting
<1>3. RunDone(n, own) /\ RunOwned(n, own)
  BY <1>2 DEF RunDone, RunOwned, Same, Deleting
<1> QED
  BY <1>1, <1>3 DEF RunOK

\* A key is taken up.
LEMMA KeyTaken ==
    ASSUME NEW r \in Local, NEW n \in Local, NEW c, NEW own,
           RunOK(r, c, own), r.pc = "create", NEW k \in r.keys,
           n.pc = "assets", Same(n, r), n.keys = r.keys \ {k},
           n.todo = {k} \X Usual[k], n.loaded \in {{}, Usual[k]},
           Listed(n.lists[k]) = Usual[k],
           \A j \in Keys : j # k => n.lists[j] = r.lists[j]
    PROVE  RunOK(n, c, own)
<1>0. k \in Keys /\ k \in KeysOf(r.spec) /\ KeysOf(r.spec) \subseteq Keys
  BY KeysAreKeys DEF Local, RunOK, RunLists
<1>1. RunKind(n, c) /\ RunLists(n)
  BY <1>0 DEF RunOK, RunKind, RunLists, Same, Whole
<1>2. RunTodo(n)
  BY <1>0 DEF RunTodo, Same
<1>3. RunOwned(n, own)
  BY DEF RunOK, RunOwned, Same, Deleting
<1>4. RunDone(n, own)
  <2> SUFFICES ASSUME NEW j \in KeysOf(n.spec) \ n.keys, NEW a \in Usual[j]
               PROVE  AssetDone(n, own, j, a)
    BY DEF RunDone
  <2>1. CASE j = k
    BY <2>1 DEF AssetDone, Creating
  <2>2. CASE j # k
    <3>1. AssetDone(r, own, j, a)
      BY <2>2 DEF RunOK, RunDone, Same
    <3>2. n.lists[j] = r.lists[j]
      BY <1>0, <2>2 DEF Same
    <3> QED
      BY <3>1, <3>2 DEF AssetDone, Reason, Creating, Same
  <2> QED
    BY <2>1, <2>2
<1> QED
  BY <1>1, <1>2, <1>3, <1>4 DEF RunOK

\* A zip cannot be read.
LEMMA KeyBroken ==
    ASSUME NEW r \in Local, NEW n \in Local, NEW c, NEW own,
           RunOK(r, c, own), r.pc = "create", NEW k \in r.keys,
           n.pc = "create", n.me = r.me, n.cleanup = r.cleanup, n.spec = r.spec, n.lists = r.lists,
           n.keys = r.keys \ {k}, n.broken = r.broken \cup {k}
    PROVE  RunOK(n, c, own)
<1>1. RunKind(n, c) /\ RunLists(n) /\ RunTodo(n) /\ RunOwned(n, own)
  BY DEF RunOK, RunKind, RunLists, RunTodo, RunOwned, Deleting, Creating
<1>2. RunDone(n, own)
  BY DEF RunOK, RunDone, AssetDone, Reason, Creating
<1> QED
  BY <1>1, <1>2 DEF RunOK

\* A call about an asset to create begins.
LEMMA ItemTaken ==
    ASSUME NEW r \in Local, NEW n \in Local, NEW c, NEW own,
           RunOK(r, c, own), r.pc = "assets", NEW i \in r.todo,
           n.pc \in {"adopt", "apply"}, Same(n, r), n.keys = r.keys, n.lists = r.lists,
           n.todo = r.todo, n.item = i, n.loaded \in {r.loaded, Usual[i[1]]}
    PROVE  RunOK(n, c, own)
<1>1. RunKind(n, c) /\ RunLists(n) /\ RunOwned(n, own)
  BY DEF RunOK, RunKind, RunLists, RunOwned, Deleting, Same
<1>2. RunTodo(n)
  <2>1. \A x \in r.todo : /\ x[1] = i[1] /\ x[1] \in KeysOf(r.spec) \ r.keys
                          /\ x[2] \in Usual[x[1]]
                          /\ Listed(r.lists[x[1]]) = Usual[x[1]]
                          /\ r.loaded \in {{}, Usual[x[1]]}
                          /\ \A y \in r.todo : y[1] = x[1]
    BY DEF RunOK, RunTodo, Creating
  <2>2. \A x \in r.todo : n.loaded \in {{}, Usual[x[1]]}
    BY <2>1
  <2> QED
    BY <2>1, <2>2 DEF RunTodo, Same
<1>3. RunDone(n, own)
  <2> SUFFICES ASSUME NEW k \in KeysOf(n.spec) \ n.keys, NEW a \in Usual[k]
               PROVE  AssetDone(n, own, k, a)
    BY DEF RunDone
  <2>1. AssetDone(r, own, k, a)
    BY DEF RunOK, RunDone, Same
  <2> QED
    BY <2>1 DEF AssetDone, Reason, Creating, Same
<1> QED
  BY <1>1, <1>2, <1>3 DEF RunOK

\* ... and ends: the asset is ours, or there is a reason to try again.
LEMMA ItemDone ==
    ASSUME NEW r \in Local, NEW n \in Local, NEW c, NEW own, NEW own2,
           RunOK(r, c, own), Creating(r), NEW i \in r.todo, NEW st \in {"failed", "active", "unknown"},
           st = "unknown" => r.me \notin Stacks,
           n.pc = "assets", Same(n, r), n.keys = r.keys, n.todo = r.todo \ {i},
           n.lists = SetState(r.lists, i, st), n.loaded \in {r.loaded, Usual[i[1]]},
           own2 = IF st = "active" THEN own \cup {i[2]} ELSE own
    PROVE  RunOK(n, c, own2)
<1>0. /\ i \in Keys \X Assets /\ i[1] \in Keys /\ i[2] \in Assets /\ st \in AssetStates
      /\ st # "none" /\ r.lists \in AssetLists /\ KeysOf(r.spec) \subseteq Keys
  BY KeysAreKeys DEF Local, AssetStates
<1>1. /\ i[1] \in KeysOf(r.spec) \ r.keys /\ i[2] \in Usual[i[1]]
      /\ Listed(r.lists[i[1]]) = Usual[i[1]]
  BY DEF RunOK, RunTodo
<1>2. \A k \in Keys : Listed(n.lists[k]) = Listed(r.lists[k])
  BY <1>0, <1>1, SetStateListed
<1>3. RunKind(n, c) /\ RunLists(n)
  BY <1>2 DEF RunOK, RunKind, RunLists, Same, Whole, Creating
<1>4. RunTodo(n)
  BY <1>0, <1>2 DEF RunOK, RunTodo, Creating, Same
<1>5. RunOwned(n, own2)
  <2>1. own \subseteq Product(r.spec)
    BY DEF RunOK, RunOwned, Creating, Deleting
  <2>2. i[2] \in Product(r.spec)
    BY <1>0, <1>1 DEF Product
  <2> QED
    BY <2>1, <2>2 DEF RunOwned, Deleting, Same
<1>6. RunDone(n, own2)
  <2> SUFFICES ASSUME NEW k \in KeysOf(n.spec) \ n.keys, NEW a \in Usual[k]
               PROVE  AssetDone(n, own2, k, a)
    BY DEF RunDone
  <2>1. AssetDone(r, own, k, a)
    BY DEF RunOK, RunDone, Same
  <2>2. CASE <<k, a>> = i
    <3>1. n.lists[k][a] = st
      BY <1>0, <2>2, SetStateValue
    <3>2. st = "active" => a \in own2
      BY <2>2
    <3> QED
      BY <3>1, <3>2 DEF AssetDone, Reason, Same
  <2>3. CASE <<k, a>> # i
    <3>1. a \in Assets
      BY <1>0, UsualType DEF Same
    <3>2. n.lists[k][a] = r.lists[k][a]
      BY <1>0, <2>3, <3>1, SetStateValue DEF Same
    <3> QED
      BY <2>1, <2>3, <3>2 DEF AssetDone, Reason, Creating, Same
  <2> QED
    BY <2>2, <2>3
<1> QED
  BY <1>3, <1>4, <1>5, <1>6 DEF RunOK

\* A key, or all keys, are done.
LEMMA KeyDone ==
    ASSUME NEW r \in Local, NEW n \in Local, NEW c, NEW own,
           RunOK(r, c, own), Same(n, r), n.keys = r.keys, n.lists = r.lists, n.todo = r.todo,
           \/ r.pc = "assets" /\ r.todo = {} /\ n.pc = "create"
           \/ r.pc = "create" /\ r.keys = {} /\ n.pc = "status"
    PROVE  RunOK(n, c, own)
<1>1. RunKind(n, c) /\ RunLists(n) /\ RunTodo(n) /\ RunOwned(n, own)
  BY DEF RunOK, RunKind, RunLists, RunTodo, RunOwned, Deleting, Creating, Same
<1>2. RunDone(n, own)
  <2> SUFFICES ASSUME NEW k \in KeysOf(n.spec) \ n.keys, NEW a \in Usual[k]
               PROVE  AssetDone(n, own, k, a)
    BY DEF RunDone
  <2>1. AssetDone(r, own, k, a)
    BY DEF RunOK, RunDone, Same
  <2>2. ~(Creating(r) /\ <<k, a>> \in r.todo)
    BY DEF Creating
  <2> QED
    BY <2>1, <2>2 DEF AssetDone, Reason, Same
<1> QED
  BY <1>1, <1>2 DEF RunOK

-----------------------------------------------------------------------------
(* The loops, on behalf of an owner that they do not disturb *)

\* The errors that the code does not notice, and what it does not expect, are
\* the steps that disturb an owner.
LEMMA Heard ==
    ASSUME NEW p \in Controllers, ~Disturbs(loc[p].me)
    PROVE  /\ \A i \in loc[p].todo :
                 /\ loc[p].me \in Stacks => ~CheckFails(p, i)
                 /\ i[2] \in exists => ~SkipDelete(p, i)
                 /\ CheckMissing(p, i) => loc'[p].loaded = Usual[i[1]]
           /\ \A k \in loc[p].keys : LoadKey(p, k) => loc'[p].loaded = Usual[k]
           /\ ~AdoptFails(p) /\ ~RemoveFails(p) /\ (p \in fresh => ~WriteStatusFails(p))
           /\ loc[p].item[2] \in Triggers => ~Apply(p)
  BY DEF Disturbs, ErrorSwallowed, MadeUnowned, RenderedOtherwise

\* The owner loses assets, or gets some that its spec asks for.
LEMMA LoopStep ==
    ASSUME TypeOK, NEW p \in Controllers, ~Idle(p), loc'[p].pc # "idle",
           NEW me \in Owners, loc[p].me = me, ControllerOf(me) = p, Tracked(me),
           UNCHANGED <<crVars, timer>>, SameRun(p), queue \subseteq queue',
           Owned(me)' \subseteq Owned(me) \cup Product(loc[p].spec),
           RunOK(loc'[p], cr[me], Owned(me)')
    PROVE  Tracked(me)'
<1>1. Working(me) /\ Working(me)' /\ RunOf(me) = loc[p] /\ RunOf(me)' = loc'[p]
  BY DEF Working, RunOf, Idle, SameRun
<1>2. OwnerInv(me) /\ RunKind(loc[p], cr[me])
  BY <1>1 DEF Tracked, RunOK
<1>3. CacheInv(me)'
  BY <1>1, <1>2 DEF OwnerInv, CacheInv, Waking, crVars
<1>4. loc[p].cleanup => Product(loc[p].spec) = {}
  BY <1>2 DEF RunKind, Product, KeysOf
<1>5. /\ loc[p].cleanup => cr[me].phase \in {"deleting", "gone"} /\ Owned(me)' \subseteq Owned(me)
      /\ ~loc[p].cleanup => /\ cr[me].phase = "live" /\ cr[me].finalizer
                            /\ Owned(me)' \subseteq Owned(me) \cup Product(cr[me].spec)
  BY <1>2, <1>4 DEF RunKind
<1>6. ~Waking(me)
  BY <1>1, <1>2 DEF OwnerInv, CacheInv
<1>7. OwnedInv(me)'
  BY <1>2, <1>5, <1>6 DEF OwnerInv, OwnedInv, Waking, crVars
<1>8. RestInv(me)'
  BY <1>1, <1>2 DEF OwnerInv, RestInv, Complete, crVars, SameRun
<1>9. cr'[me] = cr[me]
  BY DEF crVars
<1> QED
  BY <1>1, <1>3, <1>7, <1>8, <1>9 DEF Tracked, OwnerInv

\* The references of one asset are stored.
LEMMA StoreOwned ==
    ASSUME TypeOK, NEW me \in Owners, NEW a \in Assets, NEW refs,
           owners' = [owners EXCEPT ![a] = refs]
    PROVE  Owned(me)' = IF me \in refs THEN Owned(me) \cup {a} ELSE Owned(me) \ {a}
<1>1. \A b \in Assets : owners'[b] = IF b = a THEN refs ELSE owners[b]
  BY DEF TypeOK
<1> QED
  BY <1>1 DEF Owned

\* No asset changes, and nothing is queued.
LEMMA QuietLoopStep ==
    ASSUME TypeOK, NEW p \in Controllers, ~Idle(p), loc'[p].pc # "idle",
           NEW me \in Owners, loc[p].me = me, ControllerOf(me) = p, Tracked(me),
           UNCHANGED <<crVars, timer>>, SameRun(p), queue' = queue, owners' = owners,
           RunOK(loc'[p], cr[me], Owned(me))
    PROVE  Tracked(me)'
<1>1. Owned(me)' = Owned(me)
  BY DEF Owned
<1> QED
  BY <1>1, LoopStep

\* What is known in the beginning of a step of a run.
LEMMA AtWork ==
    ASSUME TypeOK, WorkInv, NEW p \in Controllers, ~Idle(p), NEW me, me = loc[p].me, Tracked(me)
    PROVE  /\ me \in Owners /\ ControllerOf(me) = p /\ Working(me) /\ loc[p] \in Local
           /\ RunOK(loc[p], cr[me], Owned(me)) /\ OwnerInv(me)
           /\ cr[me] \in Resource /\ cache[me] \in Resource
<1>1. me \in Owners /\ ControllerOf(me) = p /\ Working(me) /\ RunOf(me) = loc[p]
  BY Works
<1> QED
  BY <1>1 DEF Tracked, TypeOK

\* A step of the deleting loop.
LEMMA DeleteTracks ==
    ASSUME TypeOK, TypeOK', HeldMatches, WorkInv, NEW p \in Controllers, DeleteStep(p),
           NEW me, me = loc[p].me, Tracked(me), ~Disturbs(me)
    PROVE  Tracked(me)'
<1> DEFINE r == loc[p]
           n == loc'[p]
<1>1. ~Idle(p) /\ n.pc # "idle" /\ SameRun(p) /\ UNCHANGED <<crVars, timer>>
  BY LoopEffects
<1>2. /\ me \in Owners /\ ControllerOf(me) = p /\ r \in Local /\ n \in Local
      /\ RunOK(r, cr[me], Owned(me))
  BY <1>1, AtWork DEF TypeOK
<1>3. r.item \in Keys \X Assets /\ r.item[2] \in Assets
  BY LocalFields
<1>4. ASSUME NEW i \in r.todo, SkipDelete(p, i)
      PROVE  Tracked(me)'
  <2>1. /\ i[2] \notin exists /\ FinishDelete(p, i) /\ r.pc = "delete"
        /\ UNCHANGED <<queue, owners>>
    BY <1>4, Heard DEF SkipDelete, apiVars
  <2>2. i \in Keys \X Assets /\ i[2] \in Assets
    BY LocalFields
  <2>3. owners[i[2]] = {}
    BY <2>1, <2>2 DEF WorkInv
  <2>4. Owned(me) = Owned(me) \ {i[2]}
    BY <2>3 DEF Owned
  <2>5. /\ n.pc = "delete" /\ n.todo = r.todo \ {i}
        /\ n.lists = r.lists /\ n.keys = r.keys /\ Same(n, r)
    BY <2>1, FinishDeleteEffect DEF Same, SameRun
  <2> HIDE DEF n, r
  <2>6. RunOK(n, cr[me], Owned(me))
    BY <1>2, <2>1, <2>2, <2>4, <2>5, DeletingOn DEF Deleting
  <2> QED
    BY <1>1, <1>2, <2>1, <2>6, QuietLoopStep DEF n
<1>5. ASSUME NEW i \in r.todo, GetForDelete(p, i)
      PROVE  Tracked(me)'
  <2>1. /\ n.pc = "remove" /\ n.todo = r.todo
        /\ n.lists = r.lists /\ n.keys = r.keys /\ Same(n, r) /\ r.pc = "delete"
    BY <1>5, GetForDeleteEffect DEF Same, SameRun, GetForDelete
  <2>2. UNCHANGED <<queue, owners>>
    BY <1>5 DEF GetForDelete
  <2> HIDE DEF n, r
  <2>3. RunOK(n, cr[me], Owned(me))
    BY <1>2, <2>1, DeletingOn DEF Deleting
  <2> QED
    BY <1>1, <1>2, <2>2, <2>3, QuietLoopStep DEF n
<1>6. ASSUME NEW refs, owners' = [owners EXCEPT ![r.item[2]] = refs], me \notin refs,
             r.pc = "remove", FinishDelete(p, r.item), queue \subseteq queue'
      PROVE  Tracked(me)'
  <2>1. PICK i \in Keys \X Assets : i = r.item
    BY <1>3
  <2>2. /\ n.pc = "delete" /\ n.todo = r.todo \ {i}
        /\ n.lists = r.lists /\ n.keys = r.keys /\ Same(n, r)
    BY <1>6, <2>1, FinishDeleteEffect DEF Same, SameRun
  <2>3. Owned(me)' = Owned(me) \ {i[2]}
    <3>1. PICK a \in Assets : a = r.item[2]
      BY <1>3
    <3>2. owners' = [owners EXCEPT ![a] = refs]
      BY <1>6, <3>1
    <3>3. Owned(me)' = IF me \in refs THEN Owned(me) \cup {a} ELSE Owned(me) \ {a}
      BY <1>2, <3>2, StoreOwned
    <3> QED
      BY <1>6, <2>1, <3>1, <3>3
  <2> HIDE DEF n, r
  <2>4. RunOK(n, cr[me], Owned(me)')
    BY <1>2, <1>6, <2>2, <2>3, DeletingOn DEF Deleting
  <2> QED
    BY <1>1, <1>2, <1>6, <2>3, <2>4, LoopStep DEF n, r
<1>7. CASE DeleteObject(p)
  <2>1. /\ owners' = [owners EXCEPT ![r.item[2]] = {}] /\ r.pc = "remove"
        /\ FinishDelete(p, r.item) /\ queue \subseteq queue'
    BY <1>7 DEF DeleteObject, RemoveAsset, StoreOwners
  <2> HIDE DEF r
  <2> QED
    BY <1>6, <2>1
<1>8. CASE DropOwner(p)
  <2>1. PICK refs : refs = OtherOwners(p)
    OBVIOUS
  <2>2. /\ owners' = [owners EXCEPT ![r.item[2]] = refs] /\ r.pc = "remove"
        /\ FinishDelete(p, r.item) /\ queue' = queue
    BY <1>8, <2>1 DEF DropOwner, StoreOwners
  <2>3. me \notin refs
    BY <2>1 DEF OtherOwners
  <2> HIDE DEF r
  <2> QED
    BY <1>6, <2>2, <2>3
<1>9. CASE EndDeletes(p)
  <2>1. /\ n.pc = IF r.cleanup THEN "finalizer" ELSE "create"
        /\ r.todo = {} /\ r.pc = "delete"
        /\ n.lists = r.lists /\ n.keys = r.keys /\ Same(n, r)
    BY <1>9, EndDeletesEffect DEF Same, SameRun, EndDeletes
  <2>2. UNCHANGED <<queue, owners>>
    BY <1>9 DEF EndDeletes, apiVars
  <2> HIDE DEF n, r
  <2>3. RunOK(n, cr[me], Owned(me))
    BY <1>2, <2>1, DeletingEnds
  <2> QED
    BY <1>1, <1>2, <2>2, <2>3, QuietLoopStep DEF n
<1>10. ~RemoveFails(p)
  BY Heard
<1> QED
  BY <1>4, <1>5, <1>7, <1>8, <1>9, <1>10 DEF DeleteStep

\* A call about an asset to create ends without a change to it.
LEMMA FinishTracks ==
    ASSUME TypeOK, TypeOK', WorkInv, NEW p \in Controllers, NEW me, me = loc[p].me, Tracked(me),
           ~Idle(p), Creating(loc[p]), NEW i \in loc[p].todo,
           NEW st \in {"failed", "active", "unknown"}, st = "unknown" => me \notin Stacks,
           st = "active" => me \in owners[i[2]],
           FinishAsset(p, i, st), UNCHANGED <<crVars, queue, timer, owners>>
    PROVE  Tracked(me)'
<1> DEFINE r == loc[p]
           n == loc'[p]
<1>1. /\ me \in Owners /\ ControllerOf(me) = p /\ r \in Local /\ n \in Local
      /\ RunOK(r, cr[me], Owned(me))
  BY AtWork DEF TypeOK
<1>2. /\ n.pc = "assets" /\ n.todo = r.todo \ {i} /\ n.keys = r.keys /\ Same(n, r)
      /\ n.lists = SetState(r.lists, i, st) /\ n.loaded = r.loaded /\ SameRun(p)
  BY FinishAssetEffect DEF Same, SameRun
<1>3. i[2] \in Assets
  BY LocalFields
<1>4. Owned(me) = IF st = "active" THEN Owned(me) \cup {i[2]} ELSE Owned(me)
  BY <1>3 DEF Owned
<1>5. Creating(r) /\ i \in r.todo /\ (st = "unknown" => r.me \notin Stacks) /\ n.pc # "idle"
  BY <1>2
<1> HIDE DEF r, n
<1>6. RunOK(n, cr[me], Owned(me))
  BY <1>1, <1>2, <1>4, <1>5, ItemDone
<1> QED
  BY <1>1, <1>2, <1>5, <1>6, QuietLoopStep DEF n

\* ... with the controller as one of its owners.
LEMMA JoinTracks ==
    ASSUME TypeOK, TypeOK', WorkInv, NEW p \in Controllers, NEW me, me = loc[p].me, Tracked(me),
           ~Idle(p), Creating(loc[p]), NEW i \in loc[p].todo, FinishAsset(p, i, "active"),
           NEW refs, me \in refs, owners' = [owners EXCEPT ![i[2]] = refs],
           UNCHANGED <<crVars, queue, timer>>
    PROVE  Tracked(me)'
<1> DEFINE r == loc[p]
           n == loc'[p]
<1>1. /\ me \in Owners /\ ControllerOf(me) = p /\ r \in Local /\ n \in Local
      /\ RunOK(r, cr[me], Owned(me))
  BY AtWork DEF TypeOK
<1>2. /\ n.pc = "assets" /\ n.todo = r.todo \ {i} /\ n.keys = r.keys /\ Same(n, r)
      /\ n.lists = SetState(r.lists, i, "active") /\ n.loaded = r.loaded /\ SameRun(p)
  BY FinishAssetEffect DEF Same, SameRun
<1>3. PICK a \in Assets : a = i[2]
  BY LocalFields
<1>4. owners' = [owners EXCEPT ![a] = refs]
  BY <1>3
<1>5. Owned(me)' = Owned(me) \cup {a}
  BY <1>1, <1>4, StoreOwned
<1>6. a \in Product(r.spec)
  <2>1. i[1] \in KeysOf(r.spec) /\ i[2] \in Usual[i[1]]
    BY <1>1 DEF RunOK, RunTodo
  <2> QED
    BY <1>3, <2>1 DEF Product
<1>7. /\ Creating(r) /\ i \in r.todo /\ n.pc # "idle"
      /\ Owned(me)' = IF "active" = "active" THEN Owned(me) \cup {i[2]} ELSE Owned(me)
  BY <1>2, <1>3, <1>5
<1> HIDE DEF r, n
<1>8. RunOK(n, cr[me], Owned(me)')
  BY <1>1, <1>2, <1>7, ItemDone
<1>9. Owned(me)' \subseteq Owned(me) \cup Product(r.spec)
  BY <1>5, <1>6
<1> QED
  BY <1>1, <1>2, <1>7, <1>8, <1>9, LoopStep DEF n, r

\* A step of the creating loop.
LEMMA CreateTracks ==
    ASSUME TypeOK, TypeOK', WorkInv, NEW p \in Controllers, CreateStep(p),
           NEW me, me = loc[p].me, Tracked(me), ~Disturbs(me)
    PROVE  Tracked(me)'
<1> DEFINE r == loc[p]
           n == loc'[p]
<1>1. ~Idle(p) /\ n.pc # "idle" /\ SameRun(p) /\ UNCHANGED <<crVars, timer>>
  BY LoopEffects
<1>2. /\ me \in Owners /\ ControllerOf(me) = p /\ r \in Local /\ n \in Local
      /\ RunOK(r, cr[me], Owned(me))
  BY <1>1, AtWork DEF TypeOK
<1>3. UNCHANGED queue
  BY DEF CreateStep, VisitKey, LoadKey, LoadKeyFails, CheckFails, CheckOwned, CheckUnowned,
         CheckMissing, CheckMissingFails, Adopt, AdoptFails, Apply, ApplyFails, EndKey, EndCreates
<1>4. r.pc \in {"adopt", "apply"} => r.item \in r.todo /\ Creating(r)
  BY <1>2 DEF RunOK, RunTodo, Creating
<1>5. ASSUME NEW k \in r.keys, VisitKey(p, k)
      PROVE  Tracked(me)'
  <2>1. /\ n.pc = "assets" /\ n.keys = r.keys \ {k} /\ n.loaded = {} /\ Same(n, r)
        /\ n.todo = {k} \X Listed(r.lists[k]) /\ n.lists = r.lists
        /\ r.pc = "create" /\ UNCHANGED owners /\ Listed(r.lists[k]) # {}
    BY <1>5, VisitKeyEffect DEF Same, SameRun, VisitKey, apiVars
  <2>2. Listed(r.lists[k]) = Usual[k]
    BY <1>2, <2>1, LocalFields DEF RunOK, RunLists, Whole
  <2> HIDE DEF n, r
  <2>3. RunOK(n, cr[me], Owned(me))
    BY <1>2, <2>1, <2>2, KeyTaken
  <2> QED
    BY <1>1, <1>2, <1>3, <2>1, <2>3, QuietLoopStep DEF n
<1>6. ASSUME NEW k \in r.keys, LoadKey(p, k)
      PROVE  Tracked(me)'
  <2>1. k \in Keys /\ r.lists \in AssetLists /\ Usual[k] \subseteq Assets
    BY LocalFields, UsualType
  <2>2. /\ n.pc = "assets" /\ n.keys = r.keys \ {k} /\ n.loaded = Usual[k] /\ Same(n, r)
        /\ n.todo = {k} \X Usual[k] /\ n.lists = [r.lists EXCEPT ![k] = NewList(Usual[k])]
        /\ r.pc = "create" /\ UNCHANGED owners
    <3>1. PICK m \in Contents[k] :
             /\ n.pc = "assets" /\ n.keys = r.keys \ {k} /\ n.loaded = m
             /\ n.lists = [r.lists EXCEPT ![k] = NewList(m)]
             /\ n.todo = {k} \X m /\ SameRun(p) /\ n.broken = r.broken
      BY <1>6, LoadKeyEffect
    <3>2. m = Usual[k]
      BY <1>6, <3>1, Heard
    <3>3. Same(n, r) /\ r.pc = "create" /\ UNCHANGED owners
      BY <1>6, <3>1 DEF Same, SameRun, LoadKey, apiVars
    <3> QED
      BY <3>1, <3>2, <3>3
  <2>3. Listed(NewList(Usual[k])) = Usual[k]
    BY <2>1 DEF Listed, NewList
  <2>4. /\ n.lists[k] = NewList(Usual[k])
        /\ \A j \in Keys : j # k => n.lists[j] = r.lists[j]
    BY <2>1, <2>2 DEF AssetLists
  <2> HIDE DEF n, r
  <2>5. Listed(n.lists[k]) = Usual[k] /\ n.loaded \in {{}, Usual[k]}
    BY <2>2, <2>3, <2>4
  <2>6. RunOK(n, cr[me], Owned(me))
    BY <1>2, <2>2, <2>4, <2>5, KeyTaken
  <2> QED
    BY <1>1, <1>2, <1>3, <2>2, <2>6, QuietLoopStep DEF n
<1>7. ASSUME NEW k \in r.keys, LoadKeyFails(p, k)
      PROVE  Tracked(me)'
  <2>1. /\ n.pc = "create" /\ n.keys = r.keys \ {k} /\ n.broken = r.broken \cup {k}
        /\ n.me = r.me /\ n.cleanup = r.cleanup /\ n.spec = r.spec /\ n.lists = r.lists
        /\ r.pc = "create" /\ UNCHANGED owners
    BY <1>7, LoadKeyFailsEffect DEF SameRun, LoadKeyFails, apiVars
  <2> HIDE DEF n, r
  <2>2. RunOK(n, cr[me], Owned(me))
    BY <1>2, <2>1, KeyBroken
  <2> QED
    BY <1>1, <1>2, <1>3, <2>1, <2>2, QuietLoopStep DEF n
<1>8. ASSUME NEW i \in r.todo, CheckFails(p, i)
      PROVE  Tracked(me)'
  <2>1. Creating(r) /\ FinishAsset(p, i, "unknown") /\ UNCHANGED owners /\ me \notin Stacks
    BY <1>8, Heard DEF CheckFails, Creating, apiVars
  <2> QED
    BY <1>1, <1>3, <2>1, FinishTracks
<1>9. ASSUME NEW i \in r.todo, CheckOwned(p, i)
      PROVE  Tracked(me)'
  <2>1. /\ Creating(r) /\ me \in owners[i[2]] /\ FinishAsset(p, i, "active")
        /\ UNCHANGED owners
    BY <1>9 DEF CheckOwned, Creating, apiVars
  <2> QED
    BY <1>1, <1>3, <2>1, FinishTracks
<1>10. ASSUME NEW i \in r.todo, CheckMissingFails(p, i)
       PROVE  Tracked(me)'
  <2>1. Creating(r) /\ FinishAsset(p, i, "failed") /\ UNCHANGED owners
    BY <1>10 DEF CheckMissingFails, Creating, apiVars
  <2> QED
    BY <1>1, <1>3, <2>1, FinishTracks
<1>11. ASSUME NEW i \in r.todo, CheckUnowned(p, i)
       PROVE  Tracked(me)'
  <2>1. /\ n.pc = "adopt" /\ n.item = i /\ n.todo = r.todo /\ n.lists = r.lists /\ n.keys = r.keys
        /\ n.loaded = r.loaded /\ Same(n, r) /\ r.pc = "assets" /\ UNCHANGED owners
    BY <1>11, CheckUnownedEffect DEF Same, SameRun, CheckUnowned
  <2> HIDE DEF n, r
  <2>2. RunOK(n, cr[me], Owned(me))
    BY <1>2, <1>11, <2>1, ItemTaken
  <2> QED
    BY <1>1, <1>2, <1>3, <2>1, <2>2, QuietLoopStep DEF n
<1>12. ASSUME NEW i \in r.todo, CheckMissing(p, i)
       PROVE  Tracked(me)'
  <2>1. r.pc = "assets" /\ UNCHANGED owners
    BY <1>12 DEF CheckMissing, apiVars
  <2>2. i[2] \in Usual[i[1]]
    BY <1>2, <2>1 DEF RunOK, RunTodo, Creating
  <2>3. n.loaded = Usual[i[1]]
    BY <1>12, Heard
  <2>4. /\ n.keys = r.keys /\ Same(n, r)
        /\ \/ /\ n.pc = "apply" /\ n.item = i /\ n.todo = r.todo /\ n.lists = r.lists
           \/ /\ n.pc = "assets" /\ n.todo = r.todo \ {i}
              /\ n.lists = SetState(r.lists, i, "failed")
    <3>1. PICK m \in Manifests(p, i) :
           /\ \/ /\ i[2] \in m \ Foreign
                 /\ n.pc = "apply" /\ n.item = i /\ n.todo = r.todo
                 /\ n.lists = r.lists
              \/ /\ i[2] \in m \cap Foreign
                 /\ n.pc = "assets" /\ n.todo = r.todo \ {i}
                 /\ n.lists = SetState(r.lists, i, "failed")
              \/ /\ i[2] \notin m
                 /\ n.pc = "assets" /\ n.todo = r.todo \ {i}
                 /\ n.lists = r.lists
           /\ n.loaded = m /\ SameRun(p) /\ n.keys = r.keys /\ n.broken = r.broken
      BY <1>12, CheckMissingEffect
    <3> QED
      BY <2>2, <2>3, <3>1 DEF Same, SameRun
  <2> HIDE DEF n, r
  <2>5. RunOK(n, cr[me], Owned(me))
    <3>1. CASE n.pc = "apply"
      BY <1>2, <1>12, <2>1, <2>3, <2>4, <3>1, ItemTaken
    <3>2. CASE n.pc = "assets"
      <4>1. Creating(r) /\ Owned(me) = IF "failed" = "active" THEN Owned(me) \cup {i[2]}
                                                           ELSE Owned(me)
        BY <2>1 DEF Creating
      <4> QED
        BY <1>2, <1>12, <2>3, <2>4, <3>2, <4>1, ItemDone
    <3> QED
      BY <2>4, <3>1, <3>2
  <2> QED
    BY <1>1, <1>2, <1>3, <2>1, <2>5, QuietLoopStep DEF n
<1>13. CASE Adopt(p)
  <2>1. PICK i \in r.todo : i = r.item
    BY <1>4, <1>13 DEF Adopt
  <2>2. PICK refs : refs = r.seen \cup {me}
    OBVIOUS
  <2>3. /\ Creating(r) /\ FinishAsset(p, i, "active")
        /\ owners' = [owners EXCEPT ![i[2]] = refs]
    BY <1>4, <1>13, <2>1, <2>2 DEF Adopt, StoreOwners
  <2> QED
    BY <1>1, <1>3, <2>2, <2>3, JoinTracks
<1>14. CASE Apply(p)
  <2>1. PICK i \in r.todo : i = r.item
    BY <1>4, <1>14 DEF Apply
  <2>2. PICK refs : refs = {me}
    OBVIOUS
  <2>3. r.item[2] \notin Triggers
    BY <1>14, Heard
  <2>4. /\ Creating(r) /\ FinishAsset(p, i, "active")
        /\ owners' = [owners EXCEPT ![i[2]] = refs]
    BY <1>4, <1>14, <2>1, <2>2, <2>3 DEF Apply, StoreOwners
  <2> QED
    BY <1>1, <1>3, <2>2, <2>4, JoinTracks
<1>15. CASE ApplyFails(p)
  <2>1. PICK i \in r.todo : i = r.item
    BY <1>4, <1>15 DEF ApplyFails
  <2>2. Creating(r) /\ FinishAsset(p, i, "failed") /\ UNCHANGED owners
    BY <1>4, <1>15, <2>1 DEF ApplyFails, apiVars
  <2> QED
    BY <1>1, <1>3, <2>2, FinishTracks
<1>16. CASE EndKey(p)
  <2>1. /\ r.pc = "assets" /\ r.todo = {} /\ n.pc = "create" /\ n.todo = r.todo
        /\ n.lists = r.lists /\ n.keys = r.keys /\ Same(n, r) /\ UNCHANGED owners
    BY <1>16, EndKeyEffect DEF Same, SameRun, EndKey, apiVars
  <2> HIDE DEF n, r
  <2>2. RunOK(n, cr[me], Owned(me))
    BY <1>2, <2>1, KeyDone
  <2> QED
    BY <1>1, <1>2, <1>3, <2>1, <2>2, QuietLoopStep DEF n
<1>17. CASE EndCreates(p)
  <2>1. /\ r.pc = "create" /\ r.keys = {} /\ n.pc = "status" /\ n.todo = r.todo
        /\ n.lists = r.lists /\ n.keys = r.keys /\ Same(n, r) /\ UNCHANGED owners
    BY <1>17, EndCreatesEffect DEF Same, SameRun, EndCreates, apiVars
  <2> HIDE DEF n, r
  <2>2. RunOK(n, cr[me], Owned(me))
    BY <1>2, <2>1, KeyDone
  <2> QED
    BY <1>1, <1>2, <1>3, <2>1, <2>2, QuietLoopStep DEF n
<1>18. ~AdoptFails(p)
  BY Heard
<1> QED
  BY <1>5, <1>6, <1>7, <1>8, <1>9, <1>10, <1>11, <1>12, <1>13, <1>14, <1>15, <1>16, <1>17, <1>18
     DEF CreateStep

-----------------------------------------------------------------------------
(* The start and the end of a run *)

\* A run is started with what the cache says; what is owned is in its spec or in
\* its status.
LEMMA RunStarts ==
    ASSUME NEW h \in Resource, NEW n \in Local, NEW c, NEW own,
           WellFormed(h), own \subseteq Product(h.spec) \cup Recorded(h.status),
           c.phase = "live", c.finalizer, c.spec = h.spec,
           n.pc = "delete", n.cleanup = FALSE, n.spec = h.spec, n.lists = h.status.assets,
           n.keys = RetainedKeys(h.spec, h.status.uses),
           n.todo = ActiveAssets(DroppedKeys(h.spec, h.status.uses), h.status)
    PROVE  RunOK(n, c, own)
<1> DEFINE spec == h.spec
           uses == h.status.uses
<1>1. spec \in SUBSET Use /\ uses \in SUBSET Use /\ NoDuplicates(uses)
  BY ResourceFields DEF WellFormed
<1>2. /\ KeysOf(spec) \subseteq RetainedKeys(spec, uses)
      /\ KeysOf(uses) \ KeysOf(spec) \subseteq DroppedKeys(spec, uses)
  BY <1>1, UsedKeysRetained, UnusedKeysDropped
<1>3. RetainedKeys(spec, uses) \cap DroppedKeys(spec, uses) = {}
  <2>1. \A k : UseCount(spec, uses, k) \in Int
    <3> SUFFICES ASSUME NEW k PROVE UseCount(spec, uses, k) \in Int
      OBVIOUS
    <3>1. UseCount(spec, uses, k) =
            Cardinality(EntriesOf(uses, k)) - Cardinality(Decrements(spec, uses, k))
              + Cardinality(Increments(spec, uses, k))
      BY DEF UseCount, EntriesOf, Decrements, Increments
    <3> QED
      BY <1>1, <3>1, CountedSetsAreFinite
  <2> HIDE DEF spec, uses
  <2> QED
    BY <2>1 DEF RetainedKeys, DroppedKeys
<1>4. RetainedKeys(spec, uses) \subseteq KeysOf(spec)
  BY <1>2, <1>3 DEF RetainedKeys, UseMapKeys
<1>5. RunKind(n, c) /\ RunLists(n) /\ RunTodo(n) /\ RunDone(n, own)
  BY <1>2, <1>4 DEF RunKind, RunLists, RunTodo, RunDone, Creating, WellFormed
<1>6. own \subseteq Product(spec) \cup {i[2] : i \in n.todo}
  <2> SUFFICES ASSUME NEW a \in Recorded(h.status), a \notin Product(spec)
               PROVE  \E i \in n.todo : i[2] = a
    OBVIOUS
  <2>1. PICK k \in KeysOf(uses) : h.status.assets[k][a] = "active"
    BY DEF Recorded
  <2>2. k \in Keys /\ a \in Assets
    BY <1>1, KeysAreKeys DEF Recorded
  <2>3. a \in Usual[k]
    <3>1. a \in Listed(h.status.assets[k])
      BY <2>1, <2>2 DEF Listed
    <3> QED
      BY <2>2, <3>1 DEF WellFormed, Whole
  <2>4. k \notin KeysOf(spec)
    BY <2>2, <2>3 DEF Product
  <2>5. <<k, a>> \in n.todo
    BY <1>2, <2>1, <2>2, <2>4, ResourceFields DEF ActiveAssets
  <2> QED
    BY <2>5
<1>7. RunOwned(n, own)
  BY <1>2, <1>6 DEF RunOwned, Deleting
<1> QED
  BY <1>5, <1>7 DEF RunOK

\* A cleanup is started with what the cache says.
LEMMA CleanupStarts ==
    ASSUME NEW h \in Resource, NEW n \in Local, NEW c, NEW own,
           own \subseteq Recorded(h.status), c.phase \in {"deleting", "gone"},
           n.pc = "delete", n.cleanup = TRUE, n.spec = {}, n.lists = NoLists, n.keys = {},
           n.todo = ActiveAssets(KeysOf(h.status.uses), h.status)
    PROVE  RunOK(n, c, own)
<1>1. KeysOf(n.spec) = {} /\ Whole(n.lists)
  BY DEF KeysOf, Whole, NoLists, EmptyList, Listed
<1>2. RunKind(n, c) /\ RunLists(n) /\ RunTodo(n) /\ RunDone(n, own)
  BY <1>1 DEF RunKind, RunLists, RunTodo, RunDone, Creating
<1>3. own \subseteq {i[2] : i \in n.todo}
  <2> SUFFICES ASSUME NEW a \in Recorded(h.status)
               PROVE  \E i \in n.todo : i[2] = a
    OBVIOUS
  <2>1. PICK k \in KeysOf(h.status.uses) : h.status.assets[k][a] = "active"
    BY DEF Recorded
  <2>2. <<k, a>> \in n.todo
    BY <2>1 DEF ActiveAssets, Recorded
  <2> QED
    BY <2>2
<1>4. RunOwned(n, own)
  BY <1>1, <1>3 DEF RunOwned, Deleting
<1> QED
  BY <1>2, <1>4 DEF RunOK

\* A reconcile of o starts.
LEMMA BeginTracks ==
    ASSUME TypeOK, TypeOK', NEW p \in Controllers, NEW o \in Owners, BeginStep(p, o), Tracked(o)
    PROVE  Tracked(o)'
<1> DEFINE n == loc'[p]
<1>0. n \in Local /\ cache[o] \in Resource /\ cr[o] \in Resource /\ cr'[o] \in Resource
  BY DEF TypeOK
<1>1. OwnerInv(o) /\ o \in queue /\ ControllerOf(o) = p /\ Idle(p)
  BY BeginEffects DEF Tracked
<1>2. Owned(o)' = Owned(o)
  BY BeginEffects DEF Owned
<1>3. ~Waking(o) /\ ~Working(o)
  BY <1>1 DEF OwnerInv, CacheInv, Working
<1>4. /\ cache[o].spec = cr[o].spec
      /\ cache[o].phase = cr[o].phase \/ (cache[o].phase = "deleting" /\ cr[o].phase = "gone")
  BY <1>1, <1>3 DEF OwnerInv, CacheInv
<1>5. CASE BeginGone(p, o)
  <2>1. cr[o].phase # "live"
    BY <1>1, <1>4, <1>5 DEF BeginGone, OwnerInv, CacheInv
  <2>2. UNCHANGED <<crVars, timer, loc>> /\ queue' = queue \ {o}
    BY <1>5 DEF BeginGone
  <2>3. ~Working(o)'
    BY <1>1, <2>2 DEF Working, Idle
  <2>4. CacheInv(o)'
    BY <1>1, <1>3, <2>2, <2>3 DEF OwnerInv, CacheInv, Waking, crVars
  <2>5. OwnedInv(o)'
    BY <1>1, <1>2, <2>2 DEF OwnerInv, OwnedInv, Waking, crVars
  <2>6. RestInv(o)'
    BY <2>1, <2>2, <2>3 DEF RestInv, crVars
  <2> QED
    BY <2>3, <2>4, <2>5, <2>6 DEF Tracked, OwnerInv
<1>6. CASE BeginNewFails(p, o)
  <2>1. UNCHANGED <<cr, cache, synced, fresh, queue, timer, loc>>
    BY <1>6 DEF BeginNewFails, crVars
  <2>2. ~Working(o)'
    BY <1>1, <2>1 DEF Working, Idle
  <2> QED
    BY <1>2, <1>3, <2>1, <2>2, StaysTracked
<1>7. CASE BeginLive(p, o)
  <2>1. /\ cache[o].phase = "live" /\ cache[o].finalizer /\ queue' = queue \ {o}
        /\ UNCHANGED <<cr, cache, synced, timer>>
        /\ (p \notin fresh' => o \notin synced)
    BY <1>7 DEF BeginLive
  <2>2. cr[o].phase = "live" /\ cr[o].finalizer
    BY <1>1, <1>4, <2>1 DEF OwnerInv, CacheInv
  <2>3. /\ n.pc = "delete" /\ n.me = o /\ n.cleanup = FALSE
        /\ n.spec = cache[o].spec /\ n.lists = cache[o].status.assets
        /\ n.keys = RetainedKeys(cache[o].spec, cache[o].status.uses)
        /\ n.todo = ActiveAssets(DroppedKeys(cache[o].spec, cache[o].status.uses), cache[o].status)
    <3>1. PICK h \in Resource : h = cache[o]
      BY <1>0
    <3>2. Activate(p, o, h)
      BY <1>7, <3>1 DEF BeginLive, Activate
    <3>3. /\ n.pc = "delete" /\ n.me = o /\ n.cleanup = FALSE
          /\ n.spec = h.spec /\ n.lists = h.status.assets
          /\ n.keys = RetainedKeys(h.spec, h.status.uses)
          /\ n.todo = ActiveAssets(DroppedKeys(h.spec, h.status.uses), h.status)
      BY <1>0, <3>2, ActivateEffect
    <3> HIDE DEF n
    <3> QED
      BY <3>1, <3>3
  <2>4. Owned(o) \subseteq Product(cache[o].spec) \cup Recorded(cache[o].status)
    <3>1. CASE o \in synced
      BY <1>1, <2>2, <3>1 DEF OwnerInv, CacheInv, OwnedInv
    <3>2. CASE o \notin synced
      BY <1>1, <1>3, <1>4, <2>2, <3>2 DEF OwnerInv, RestInv
    <3> QED
      BY <3>1, <3>2
  <2>5. Working(o)' /\ RunOf(o)' = n
    BY <1>1, <2>3 DEF Working, Idle, RunOf
  <2> HIDE DEF n
  <2>6. RunOK(n, cr[o], Owned(o))
    BY <1>0, <1>1, <1>4, <2>2, <2>3, <2>4, RunStarts DEF OwnerInv, CacheInv
  <2>7. CacheInv(o)'
    BY <1>1, <1>3, <2>1 DEF OwnerInv, CacheInv, Waking
  <2>8. OwnedInv(o)'
    BY <1>1, <1>2, <2>1 DEF OwnerInv, OwnedInv, Waking
  <2>9. RestInv(o)'
    <3>1. p \notin fresh' => Complete(o) \/ o \in timer
      BY <1>1, <1>3, <2>1, <2>2 DEF OwnerInv, RestInv
    <3> QED
      BY <1>1, <2>1, <2>5, <3>1 DEF RestInv, Complete
  <2> QED
    BY <1>2, <2>1, <2>5, <2>6, <2>7, <2>8, <2>9 DEF Tracked, OwnerInv
<1>8. CASE BeginNew(p, o)
  <2>1. /\ cache[o].phase = "live" /\ ~cache[o].finalizer /\ queue' = queue \ {o}
        /\ o \in synced /\ cr' = [cr EXCEPT ![o] = [cr[o] EXCEPT !.finalizer = TRUE]]
        /\ synced' = synced \ {o} /\ fresh' = fresh \cup {p} /\ UNCHANGED <<cache, timer>>
    BY <1>0, <1>8 DEF BeginNew, TypeOK
  <2>2. cache[o] = cr[o] /\ Owned(o) = {}
    BY <1>1, <2>1 DEF OwnerInv, CacheInv, OwnedInv
  <2>3. /\ n.pc = "delete" /\ n.me = o /\ n.cleanup = FALSE
        /\ n.spec = cache[o].spec /\ n.lists = cache[o].status.assets
        /\ n.keys = RetainedKeys(cache[o].spec, cache[o].status.uses)
        /\ n.todo = ActiveAssets(DroppedKeys(cache[o].spec, cache[o].status.uses), cache[o].status)
    <3>1. PICK h \in Resource : h = cache[o]
      BY <1>0
    <3>2. Activate(p, o, h)
      BY <1>8, <3>1 DEF BeginNew, Activate
    <3>3. /\ n.pc = "delete" /\ n.me = o /\ n.cleanup = FALSE
          /\ n.spec = h.spec /\ n.lists = h.status.assets
          /\ n.keys = RetainedKeys(h.spec, h.status.uses)
          /\ n.todo = ActiveAssets(DroppedKeys(h.spec, h.status.uses), h.status)
      BY <1>0, <3>2, ActivateEffect
    <3> HIDE DEF n
    <3> QED
      BY <3>1, <3>3
  <2>4. /\ cr'[o].phase = "live" /\ cr'[o].finalizer /\ cr'[o].spec = cache[o].spec
        /\ cr'[o].status = cache[o].status /\ cr'[o].generation = cache[o].generation
    BY <1>0, <2>1, <2>2 DEF Resource, TypeOK
  <2>5. Working(o)' /\ RunOf(o)' = n
    BY <1>1, <2>3 DEF Working, Idle, RunOf
  <2> HIDE DEF n
  <2>6. RunOK(n, cr'[o], Owned(o))
    BY <1>0, <1>1, <2>2, <2>3, <2>4, RunStarts DEF OwnerInv, CacheInv
  <2>7. CacheInv(o)'
    BY <1>1, <2>1, <2>4 DEF OwnerInv, CacheInv, Waking, WellFormed
  <2>8. OwnedInv(o)'
    BY <1>2, <2>2, <2>4 DEF OwnedInv
  <2>9. RestInv(o)'
    BY <1>1, <2>1, <2>5 DEF RestInv
  <2> QED
    BY <1>2, <2>5, <2>6, <2>7, <2>8, <2>9 DEF Tracked, OwnerInv
<1>9. CASE BeginCleanup(p, o)
  <2>1. /\ cache[o].phase = "deleting" /\ queue' = queue \ {o}
        /\ UNCHANGED <<cr, cache, synced, timer>>
    BY <1>9 DEF BeginCleanup
  <2>2. cr[o].phase \in {"deleting", "gone"}
    BY <1>4, <2>1
  <2>3. /\ n.pc = "delete" /\ n.me = o /\ n.cleanup = TRUE /\ n.spec = {}
        /\ n.lists = NoLists /\ n.keys = {}
        /\ n.todo = ActiveAssets(KeysOf(cache[o].status.uses), cache[o].status)
    BY <1>0, <1>9, CleanupEffect
  <2>4. Owned(o) \subseteq Recorded(cache[o].status)
    BY <1>1, <1>3, <2>2 DEF OwnerInv, CacheInv, OwnedInv
  <2>5. Working(o)' /\ RunOf(o)' = n
    BY <1>1, <2>3 DEF Working, Idle, RunOf
  <2> HIDE DEF n
  <2>6. RunOK(n, cr[o], Owned(o))
    BY <1>0, <2>2, <2>3, <2>4, CleanupStarts
  <2>7. CacheInv(o)'
    BY <1>1, <1>3, <2>1 DEF OwnerInv, CacheInv, Waking
  <2>8. OwnedInv(o)'
    BY <1>1, <1>2, <2>1 DEF OwnerInv, OwnedInv, Waking
  <2>9. RestInv(o)'
    BY <2>1, <2>2, <2>3, <2>5 DEF RestInv
  <2> QED
    BY <1>2, <2>1, <2>5, <2>6, <2>7, <2>8, <2>9 DEF Tracked, OwnerInv
<1> QED
  BY <1>5, <1>6, <1>7, <1>8, <1>9 DEF BeginStep

\* A run that comes to its status owns nothing but what its spec asks for; all
\* of it, if there is no reason to try again.
LEMMA RunEnds ==
    ASSUME NEW r \in Local, NEW c, NEW own, RunOK(r, c, own), r.pc = "status"
    PROVE  /\ own \subseteq Product(r.spec)
           /\ \A k \in Keys : Listed(r.lists[k]) \in {{}, Usual[k]}
           /\ \/ r.broken \cap KeysOf(r.spec) # {}
              \/ \E k \in KeysOf(r.spec), a \in Assets : Reason(r, r.lists[k][a])
              \/ /\ Product(r.spec) \subseteq own
                 /\ \A k \in KeysOf(r.spec) : \A a \in Usual[k] : r.lists[k][a] = "active"
<1>1. r.keys = {} /\ own \subseteq Product(r.spec) /\ Whole(r.lists)
  BY DEF RunOK, RunTodo, RunOwned, Deleting, RunLists
<1>2. KeysOf(r.spec) \subseteq Keys
  BY KeysAreKeys DEF Local
<1>3. ASSUME r.broken \cap KeysOf(r.spec) = {},
             ~\E k \in KeysOf(r.spec), a \in Assets : Reason(r, r.lists[k][a]),
             NEW k \in KeysOf(r.spec), NEW a \in Usual[k]
      PROVE  r.lists[k][a] = "active" /\ a \in own
  <2>1. AssetDone(r, own, k, a)
    BY <1>1 DEF RunOK, RunDone
  <2>2. a \in Assets
    BY <1>2, UsualType
  <2> QED
    BY <1>3, <2>1, <2>2 DEF AssetDone, Creating
<1>4. CASE \/ r.broken \cap KeysOf(r.spec) # {}
           \/ \E k \in KeysOf(r.spec), a \in Assets : Reason(r, r.lists[k][a])
  BY <1>1, <1>4 DEF Whole
<1>5. CASE ~ \/ r.broken \cap KeysOf(r.spec) # {}
             \/ \E k \in KeysOf(r.spec), a \in Assets : Reason(r, r.lists[k][a])
  <2>1. \A k \in KeysOf(r.spec) : \A a \in Usual[k] : r.lists[k][a] = "active" /\ a \in own
    BY <1>3, <1>5
  <2> QED
    BY <1>1, <2>1 DEF Whole, Product
<1> QED
  BY <1>4, <1>5

\* What holds of the controller p that is about to end a run for me.
EndsWell(p, me) ==
    /\ cr[me].phase = "live" /\ cr[me].finalizer /\ loc[p].cleanup = FALSE
    /\ loc[p].spec = cr[me].spec /\ Owned(me) \subseteq Product(cr[me].spec)
    /\ NewStatus(p).uses = cr[me].spec
    /\ Whole(NewStatus(p).assets)
    /\ \/ NeedsRetry(p)
       \/ /\ Owned(me) = Product(cr[me].spec)
          /\ \A k \in KeysOf(cr[me].spec) : \A a \in Usual[k] :
                NewStatus(p).assets[k][a] = "active"

\* The status that the run writes: its lists are whole, and it tells what it
\* owns unless there will be another run.
LEMMA StatusTells ==
    ASSUME TypeOK, NEW p \in Controllers, NEW me, me = loc[p].me, me \in Owners,
           loc[p].pc = "status", RunOK(loc[p], cr[me], Owned(me))
    PROVE  EndsWell(p, me)
<1> DEFINE r == loc[p]
           lists == NewStatus(p).assets
           again == \/ r.broken \cap KeysOf(r.spec) # {}
                    \/ \E k \in KeysOf(r.spec), a \in Assets : Reason(r, r.lists[k][a])
<1>1. r \in Local
  BY DEF TypeOK
<1>2. /\ cr[me].phase = "live" /\ cr[me].finalizer /\ r.cleanup = FALSE /\ r.spec = cr[me].spec
  BY <1>1 DEF RunOK, RunKind, Local
<1>3. /\ Owned(me) \subseteq Product(r.spec)
      /\ \A k \in Keys : Listed(r.lists[k]) \in {{}, Usual[k]}
      /\ \/ again
         \/ /\ Product(r.spec) \subseteq Owned(me)
            /\ \A k \in KeysOf(r.spec) : \A a \in Usual[k] : r.lists[k][a] = "active"
  BY <1>1, RunEnds
<1>4. KeysOf(r.spec) \subseteq Keys
  BY <1>1, KeysAreKeys DEF Local
<1>5. /\ NewStatus(p).uses = r.spec
      /\ \A k \in Keys : lists[k] = IF k \in KeysOf(r.spec) THEN r.lists[k] ELSE EmptyList
  BY DEF NewStatus
<1>6. Whole(lists)
  <2>1. Listed(EmptyList) = {}
    BY DEF Listed, EmptyList
  <2> HIDE DEF lists
  <2> QED
    BY <1>3, <1>5, <2>1 DEF Whole
<1>7. ASSUME again
      PROVE  NeedsRetry(p)
  <2>1. CASE r.broken \cap KeysOf(r.spec) # {}
    BY <2>1 DEF NeedsRetry
  <2>2. ASSUME NEW k \in KeysOf(r.spec), NEW a \in Assets, Reason(r, r.lists[k][a])
        PROVE  NeedsRetry(p)
    <3>1. k \in Keys /\ lists[k][a] = r.lists[k][a]
      BY <1>4, <1>5
    <3>2. CASE me \in Stacks
      <4>1. lists[k][a] = "failed"
        BY <2>2, <3>1, <3>2 DEF Reason
      <4> QED
        BY <3>1, <3>2, <4>1 DEF NeedsRetry, FailedAssets
    <3>3. CASE me \notin Stacks
      <4>1. lists[k][a] \in {"failed", "unknown"} /\ me \in Gitops
        BY <2>2, <3>1, <3>3 DEF Reason, Owners
      <4> QED
        BY <3>1, <4>1 DEF NeedsRetry, GitopsReady
    <3> QED
      BY <3>2, <3>3
  <2> QED
    BY <1>7, <2>1, <2>2
<1>8. \/ NeedsRetry(p)
      \/ /\ Owned(me) = Product(r.spec)
         /\ \A k \in KeysOf(r.spec) : \A a \in Usual[k] : lists[k][a] = "active"
  <2>1. CASE again
    BY <1>7, <2>1
  <2>2. CASE /\ Product(r.spec) \subseteq Owned(me)
             /\ \A k \in KeysOf(r.spec) : \A a \in Usual[k] : r.lists[k][a] = "active"
    <3>1. Owned(me) = Product(r.spec)
      BY <1>3, <2>2
    <3>2. \A k \in KeysOf(r.spec) : lists[k] = r.lists[k]
      BY <1>4, <1>5
    <3> QED
      BY <2>2, <3>1, <3>2
  <2> HIDE DEF again
  <2> QED
    BY <1>3, <2>1, <2>2
<1> HIDE DEF r
<1> QED
  BY <1>2, <1>3, <1>5, <1>6, <1>8 DEF EndsWell, lists, r

\* The end of a reconcile: what is not done by then will be tried again.
LEMMA EndTracks ==
    ASSUME TypeOK, TypeOK', WorkInv, NEW p \in Controllers, FinishStep(p),
           NEW me, me = loc[p].me, Tracked(me), ~Disturbs(me)
    PROVE  Tracked(me)'
<1> DEFINE r == loc[p]
<1>1. /\ ~Idle(p) /\ loc'[p].pc = "idle" /\ UNCHANGED <<cache, owners>>
  BY FinishEffects
<1>2. /\ me \in Owners /\ ControllerOf(me) = p /\ Working(me) /\ RunOK(r, cr[me], Owned(me))
      /\ OwnerInv(me) /\ cr[me] \in Resource /\ cache[me] \in Resource /\ r \in Local
  BY <1>1, AtWork
<1>3. ~Waking(me)
  BY <1>2 DEF OwnerInv, CacheInv
<1>4. RunOf(me) = r
  BY <1>2 DEF RunOf
<1>5. ~Working(me)' /\ Owned(me)' = Owned(me)
  BY <1>1, <1>2 DEF Working, Idle, Owned
<1> HIDE DEF r
<1>6. CASE WriteStatus(p)
  <2> DEFINE new == NewStatus(p)
  <2>1. /\ cr[me].phase = "live" /\ cr[me].finalizer /\ Owned(me) \subseteq Product(cr[me].spec)
        /\ new.uses = cr[me].spec /\ Whole(new.assets)
        /\ \/ NeedsRetry(p)
           \/ /\ Owned(me) = Product(cr[me].spec)
              /\ \A k \in KeysOf(cr[me].spec) : \A a \in Usual[k] : new.assets[k][a] = "active"
    <3>1. loc[p].pc = "status"
      BY <1>6 DEF WriteStatus
    <3>2. loc[p].me = me /\ RunOK(loc[p], cr[me], Owned(me))
      BY <1>2 DEF r
    <3>3. EndsWell(p, me)
      BY <1>2, <3>1, <3>2, StatusTells
    <3> QED
      BY <3>3 DEF EndsWell
  <2>2. /\ cr' = [cr EXCEPT ![me] = [cr[me] EXCEPT !.status = new]]
        /\ synced' = IF cr[me].status = new THEN synced ELSE synced \ {me}
        /\ timer' = IF NeedsRetry(p) THEN timer \cup {me} ELSE timer
        /\ UNCHANGED queue
    BY <1>2, <1>6 DEF WriteStatus, TypeOK
  <2> HIDE DEF new
  <2>3. /\ cr'[me].phase = "live" /\ cr'[me].finalizer /\ cr'[me].spec = cr[me].spec
        /\ cr'[me].generation = cr[me].generation /\ cr'[me].status = new
        /\ (cr[me].status = new => cr'[me] = cr[me])
    BY <1>2, <2>1, <2>2 DEF Resource, TypeOK
  <2>4. CacheInv(me)'
    <3>1. WellFormed(cr[me]) /\ WellFormed(cache[me])
      BY <1>2 DEF OwnerInv, CacheInv
    <3>2. WellFormed(cr'[me]) /\ WellFormed(cache'[me])
      BY <1>1, <2>1, <2>3, <3>1 DEF WellFormed
    <3>3. /\ me \in synced' => cache'[me] = cr'[me]
          /\ ~Waking(me)' /\ cache'[me].spec = cr'[me].spec /\ cache'[me].phase = "live"
          /\ cache'[me].generation <= cr'[me].generation
      BY <1>1, <1>2, <1>3, <2>1, <2>2, <2>3 DEF OwnerInv, CacheInv, Waking
    <3> QED
      BY <1>5, <2>3, <3>2, <3>3 DEF CacheInv
  <2>5. ~Waking(me)'
    BY <1>1, <1>3, <2>3 DEF Waking
  <2>6. OwnedInv(me)'
    <3>1. Owned(me)' \subseteq Product(cr'[me].spec)
      BY <1>5, <2>1, <2>3
    <3> QED
      BY <2>3, <2>5, <3>1 DEF OwnedInv
  <2>7. RestInv(me)'
    <3>1. me \in timer' \/ (Owned(me)' = Product(cr'[me].spec) /\ Complete(me)')
      BY <1>5, <2>1, <2>2, <2>3 DEF Complete
    <3>2. Owned(me)' \subseteq Product(cr'[me].spec)
      BY <1>5, <2>1, <2>3
    <3> QED
      BY <1>5, <3>1, <3>2 DEF RestInv
  <2> QED
    BY <1>5, <2>4, <2>6, <2>7 DEF Tracked, OwnerInv
<1>7. CASE WriteStatusFails(p)
  <2>1. /\ cr[me].phase = "live" /\ cr[me].finalizer /\ Owned(me) \subseteq Product(cr[me].spec)
        /\ loc[p].cleanup = FALSE
        /\ NeedsRetry(p) \/ Owned(me) = Product(cr[me].spec)
    <3>1. loc[p].pc = "status"
      BY <1>7 DEF WriteStatusFails
    <3>2. loc[p].me = me /\ RunOK(loc[p], cr[me], Owned(me))
      BY <1>2 DEF r
    <3>3. EndsWell(p, me)
      BY <1>2, <3>1, <3>2, StatusTells
    <3> QED
      BY <3>3 DEF EndsWell
  <2>2. /\ p \notin fresh /\ UNCHANGED <<cr, synced, queue>>
        /\ timer' = IF NeedsRetry(p) THEN timer \cup {me} ELSE timer
    BY <1>7, Heard DEF WriteStatusFails
  <2>3. CacheInv(me)'
    BY <1>1, <1>2, <1>3, <1>5, <2>2 DEF OwnerInv, CacheInv, Waking
  <2>4. OwnedInv(me)'
    BY <1>1, <1>2, <1>5, <2>2 DEF OwnerInv, OwnedInv, Waking
  <2>5. RestInv(me)'
    <3>1. Complete(me) \/ me \in timer \/ (me \in queue /\ me \in synced)
      BY <1>2, <1>4, <2>1, <2>2 DEF OwnerInv, RestInv, r
    <3>2. Complete(me)' = Complete(me) /\ timer \subseteq timer'
      BY <2>2 DEF Complete
    <3> QED
      BY <1>5, <2>1, <2>2, <3>1, <3>2 DEF RestInv
  <2> QED
    BY <1>5, <2>3, <2>4, <2>5 DEF Tracked, OwnerInv
<1>8. ASSUME RemoveFinalizer(p) \/ RemoveFinalizerFails(p)
      PROVE  /\ cr[me].phase \in {"deleting", "gone"} /\ Owned(me) = {}
             /\ cache[me].phase \in {"deleting", "gone"}
  <2>1. r.pc = "finalizer"
    BY <1>8 DEF RemoveFinalizer, RemoveFinalizerFails, r
  <2>2. cr[me].phase \in {"deleting", "gone"} /\ Owned(me) = {}
    BY <1>2, <2>1 DEF RunOK, RunKind, RunOwned, Deleting, Product, KeysOf
  <2> QED
    BY <1>2, <1>3, <2>2 DEF OwnerInv, CacheInv
<1>9. CASE RemoveFinalizer(p)
  <2>1. /\ cr' = [cr EXCEPT ![me] = [[cr[me] EXCEPT !.phase = "gone"] EXCEPT !.finalizer = FALSE]]
        /\ synced' = synced \ {me} /\ UNCHANGED <<queue, timer>>
    BY <1>2, <1>9 DEF RemoveFinalizer, TypeOK
  <2>2. /\ cr'[me].phase = "gone" /\ cr'[me].spec = cr[me].spec
        /\ cr'[me].generation = cr[me].generation /\ cr'[me].status = cr[me].status
    BY <1>2, <2>1 DEF Resource, TypeOK
  <2>3. CacheInv(me)'
    BY <1>1, <1>2, <1>3, <1>5, <1>8, <1>9, <2>1, <2>2 DEF OwnerInv, CacheInv, Waking, WellFormed
  <2>4. OwnedInv(me)' /\ RestInv(me)'
    BY <1>5, <1>8, <1>9, <2>2 DEF OwnedInv, RestInv
  <2> QED
    BY <1>5, <2>3, <2>4 DEF Tracked, OwnerInv
<1>10. CASE RemoveFinalizerFails(p)
  <2>1. UNCHANGED <<cr, synced, timer>> /\ queue' = queue \cup {me}
    BY <1>2, <1>10 DEF RemoveFinalizerFails
  <2>2. CacheInv(me)'
    BY <1>1, <1>2, <1>3, <1>5, <2>1 DEF OwnerInv, CacheInv, Waking
  <2>3. OwnedInv(me)' /\ RestInv(me)'
    BY <1>5, <1>8, <1>10, <2>1 DEF OwnedInv, RestInv
  <2> QED
    BY <1>5, <2>2, <2>3 DEF Tracked, OwnerInv
<1> QED
  BY <1>6, <1>7, <1>9, <1>10 DEF FinishStep

\* A process restarts: it gets its resources anew.
LEMMA RestartTracks ==
    ASSUME TypeOK, TypeOK', NEW p \in Controllers, Restart(p), NEW o \in Owners, Tracked(o)
    PROVE  Tracked(o)'
<1>1. UNCHANGED <<cr, exists, owners>> /\ loc'[p].pc = "idle" /\ OthersStay(p)
  BY EndReconcileEffect DEF Restart
<1>2. Owned(o)' = Owned(o)
  BY <1>1 DEF Owned
<1>3. CASE ControllerOf(o) = p
  <2>1. OwnerInv(o) /\ ~Working(o)'
    BY <1>1, <1>3 DEF Working, Idle, Tracked
  <2>2. /\ cache'[o] = cr[o] /\ o \in synced' /\ o \notin timer'
        /\ cr[o].phase \in {"live", "deleting"} => o \in queue'
    BY <1>3 DEF Restart
  <2>3. ~Waking(o)'
    BY <1>1, <2>2 DEF Waking
  <2>4. CacheInv(o)'
    <3>1. cr[o].generation \in Nat
      BY DEF TypeOK, Resource
    <3> QED
      BY <1>1, <2>1, <2>2, <3>1 DEF OwnerInv, CacheInv, Waking
  <2>5. OwnedInv(o)'
    BY <1>1, <1>2, <2>1, <2>3 DEF OwnerInv, OwnedInv
  <2>6. RestInv(o)'
    BY <1>1, <2>1, <2>2 DEF RestInv
  <2> QED
    BY <2>1, <2>4, <2>5, <2>6 DEF Tracked, OwnerInv
<1>4. CASE ControllerOf(o) # p
  <2>1. ControllerOf(o) \in Controllers
    BY ControllerOfType
  <2>2. /\ cache'[o] = cache[o] /\ (o \in synced' <=> o \in synced)
        /\ (o \in queue' <=> o \in queue) /\ (o \in timer' <=> o \in timer)
        /\ (ControllerOf(o) \in fresh' <=> ControllerOf(o) \in fresh) /\ cr'[o] = cr[o]
    BY <1>4 DEF Restart, EndReconcile
  <2>3. RunOf(o)' = RunOf(o)
    BY <1>1, <1>4, <2>1 DEF OthersStay, RunOf
  <2> QED
    BY <1>2, <2>2, <2>3, StaysTracked
<1> QED
  BY <1>3, <1>4

-----------------------------------------------------------------------------
(* Users, watches and timers *)

\* What the status of an owner at rest says is all it owns.
LEMMA RestTells ==
    ASSUME TypeOK, NEW o \in Owners, OwnerInv(o), cr[o].phase = "live", ~Working(o),
           o \notin queue, o \notin timer, ~Waking(o)
    PROVE  /\ Owned(o) = Product(cr[o].spec) /\ Complete(o)
           /\ Owned(o) = Recorded(cr[o].status)
<1>1. Owned(o) = Product(cr[o].spec) /\ Complete(o) /\ WellFormed(cr[o])
  BY DEF OwnerInv, RestInv, CacheInv
<1>2. KeysOf(cr[o].spec) \subseteq Keys
  BY KeysAreKeys DEF TypeOK, Resource
<1>3. Product(cr[o].spec) \subseteq Recorded(cr[o].status)
  BY <1>1 DEF Product, Recorded, Complete
<1>4. Recorded(cr[o].status) \subseteq Product(cr[o].spec)
  <2> SUFFICES ASSUME NEW a \in Recorded(cr[o].status) PROVE a \in Product(cr[o].spec)
    OBVIOUS
  <2>1. PICK k \in KeysOf(cr[o].spec) : a \in Assets /\ cr[o].status.assets[k][a] = "active"
    BY <1>1 DEF Recorded, Complete
  <2>2. a \in Listed(cr[o].status.assets[k])
    BY <2>1 DEF Listed
  <2>3. a \in Usual[k]
    BY <1>1, <1>2, <2>2 DEF WellFormed, Whole
  <2> QED
    BY <2>1, <2>3 DEF Product
<1> QED
  BY <1>1, <1>3, <1>4

\* Nobody works on an owner whose edit does not disturb it; its status tells
\* what the old spec has left, though the last edit may not be noticed yet.
LEMMA UndisturbedEdit ==
    ASSUME TypeOK, NEW o \in Owners, Tracked(o), ~Disturbs(o), cr[o].phase \in {"absent", "live"},
           (\E s \in Specs[o] : CreateOrEdit(o, s)) \/ DeleteOwner(o)
    PROVE  /\ o \notin queue /\ o \notin timer /\ ~Working(o)
           /\ Owned(o) \subseteq Recorded(cr[o].status)
           /\ ~cr[o].finalizer => Owned(o) = {}
<1>1. ~Busy(o)
  BY DEF Disturbs, EditedMeanwhile
<1>2. o \notin queue /\ o \notin timer /\ ~Working(o)
  BY <1>1, ControllerOfType DEF Busy, Working, RunOf
<1>3. OwnerInv(o)
  BY DEF Tracked
<1>4. Owned(o) \subseteq Recorded(cr[o].status)
  <2>1. CASE Waking(o) \/ cr[o].phase = "absent"
    BY <1>3, <2>1 DEF OwnerInv, OwnedInv
  <2>2. CASE ~Waking(o) /\ cr[o].phase = "live"
    BY <1>2, <1>3, <2>2, RestTells
  <2> QED
    BY <2>1, <2>2
<1>5. ~cr[o].finalizer => Owned(o) = {}
  BY <1>3 DEF OwnerInv, OwnedInv
<1> QED
  BY <1>2, <1>4, <1>5

\* A user creates or edits o.
LEMMA EditTracks ==
    ASSUME TypeOK, TypeOK', NEW o \in Owners, NEW s \in Specs[o], CreateOrEdit(o, s),
           Tracked(o), ~Disturbs(o)
    PROVE  Tracked(o)'
<1>0. OwnerInv(o) /\ cr[o] \in Resource /\ cache[o] \in Resource
  BY DEF Tracked, TypeOK
<1>1. /\ cr[o].phase \in {"absent", "live"}
      /\ cr' = [cr EXCEPT ![o] = [cr[o] EXCEPT !.phase = "live", !.spec = s, !.generation = @ + 1]]
      /\ synced' = synced \ {o}
      /\ UNCHANGED <<cache, queue, timer, owners, loc>>
  BY DEF CreateOrEdit, StoreResource, apiVars
<1>2. /\ cr'[o].phase = "live" /\ cr'[o].spec = s /\ cr'[o].generation = cr[o].generation + 1
      /\ cr'[o].finalizer = cr[o].finalizer /\ cr'[o].status = cr[o].status
  BY <1>0, <1>1 DEF Resource, TypeOK
<1>3. /\ o \notin queue /\ o \notin timer /\ ~Working(o)
      /\ Owned(o) \subseteq Recorded(cr[o].status)
      /\ ~cr[o].finalizer => Owned(o) = {}
  BY <1>1, UndisturbedEdit
<1>4. ~Working(o)' /\ Owned(o)' = Owned(o)
  BY <1>1, <1>3 DEF Working, RunOf, Idle, Owned
<1>5. NoDuplicates(s)
  BY DEF Disturbs, ListedTwice
<1>6. Waking(o)' /\ cache'[o].generation <= cr'[o].generation
  <2>1. cache[o].generation <= cr[o].generation /\ cr[o].generation \in Nat
        /\ cache[o].generation \in Nat
    BY <1>0 DEF OwnerInv, CacheInv, Resource
  <2> QED
    BY <1>1, <1>2, <2>1 DEF Waking
<1>7. CacheInv(o)'
  <2>1. WellFormed(cr'[o]) /\ WellFormed(cache'[o])
    BY <1>0, <1>1, <1>2, <1>5 DEF OwnerInv, CacheInv, WellFormed
  <2>2. cache'[o].finalizer => cr'[o].finalizer
    BY <1>0, <1>1, <1>2 DEF OwnerInv, CacheInv
  <2> QED
    BY <1>1, <1>2, <1>3, <1>4, <1>6, <2>1, <2>2 DEF CacheInv
<1>8. OwnedInv(o)'
  BY <1>2, <1>3, <1>4 DEF OwnedInv
<1>9. RestInv(o)'
  BY <1>1, <1>3, <1>4, <1>6 DEF RestInv
<1> QED
  BY <1>4, <1>7, <1>8, <1>9 DEF Tracked, OwnerInv

\* A user deletes o.
LEMMA DeleteOwnerTracks ==
    ASSUME TypeOK, TypeOK', NEW o \in Owners, DeleteOwner(o), Tracked(o), ~Disturbs(o)
    PROVE  Tracked(o)'
<1> DEFINE next == IF cr[o].finalizer THEN "deleting" ELSE "gone"
<1>0. OwnerInv(o) /\ cr[o] \in Resource /\ cache[o] \in Resource
  BY DEF Tracked, TypeOK
<1>1. /\ cr[o].phase = "live"
      /\ cr' = [cr EXCEPT ![o] = [cr[o] EXCEPT !.phase = next, !.generation = @ + 1]]
      /\ synced' = synced \ {o}
      /\ UNCHANGED <<cache, queue, timer, owners, loc>>
  BY DEF DeleteOwner, StoreResource, apiVars
<1> HIDE DEF next
<1>2. /\ cr'[o].phase = next /\ cr'[o].spec = cr[o].spec
      /\ cr'[o].generation = cr[o].generation + 1
      /\ cr'[o].finalizer = cr[o].finalizer /\ cr'[o].status = cr[o].status
  BY <1>0, <1>1 DEF Resource, TypeOK
<1>3. /\ o \notin queue /\ o \notin timer /\ ~Working(o)
      /\ Owned(o) \subseteq Recorded(cr[o].status)
      /\ ~cr[o].finalizer => Owned(o) = {}
  BY <1>1, UndisturbedEdit
<1>4. ~Working(o)' /\ Owned(o)' = Owned(o)
  BY <1>1, <1>3 DEF Working, RunOf, Idle, Owned
<1>5. Waking(o)' /\ cache'[o].generation <= cr'[o].generation
  <2>1. cache[o].generation <= cr[o].generation /\ cr[o].generation \in Nat
        /\ cache[o].generation \in Nat
    BY <1>0 DEF OwnerInv, CacheInv, Resource
  <2> QED
    BY <1>1, <1>2, <2>1 DEF Waking
<1>6. CacheInv(o)'
  <2>1. WellFormed(cr'[o]) /\ WellFormed(cache'[o])
    BY <1>0, <1>1, <1>2 DEF OwnerInv, CacheInv, WellFormed
  <2>2. cache'[o].finalizer => cr'[o].finalizer
    BY <1>0, <1>1, <1>2 DEF OwnerInv, CacheInv
  <2> QED
    BY <1>1, <1>2, <1>3, <1>4, <1>5, <2>1, <2>2 DEF CacheInv
<1>7. OwnedInv(o)'
  BY <1>2, <1>3, <1>4 DEF OwnedInv, next
<1>8. RestInv(o)'
  BY <1>1, <1>3, <1>4, <1>5 DEF RestInv
<1> QED
  BY <1>4, <1>6, <1>7, <1>8 DEF Tracked, OwnerInv

\* The watch brings a new version of o.
LEMMA DeliverTracks ==
    ASSUME TypeOK, TypeOK', NEW o \in Owners, DeliverEvent(o), Tracked(o)
    PROVE  Tracked(o)'
<1>0. OwnerInv(o) /\ cr[o].generation \in Nat
  BY DEF Tracked, TypeOK, Resource
<1>1. /\ cache' = [cache EXCEPT ![o] = cr[o]] /\ o \notin synced /\ synced' = synced \cup {o}
      /\ queue' = queue \/ queue' = queue \cup {o}
      /\ cache[o].generation # cr[o].generation => o \in queue'
      /\ UNCHANGED <<cr, fresh, timer, owners, loc>>
  BY DEF DeliverEvent, apiVars
<1>2. cache'[o] = cr'[o]
  BY <1>1 DEF TypeOK
<1>3. /\ Working(o)' = Working(o) /\ Owned(o)' = Owned(o) /\ RunOf(o)' = RunOf(o)
      /\ cr'[o] = cr[o]
  BY <1>1 DEF Working, RunOf, Idle, Owned
<1>4. CacheInv(o)'
  BY <1>0, <1>1, <1>2 DEF OwnerInv, CacheInv, Waking
<1>5. OwnedInv(o)'
  BY <1>0, <1>1, <1>2, <1>3 DEF OwnerInv, OwnedInv, Waking
<1>6. RestInv(o)'
  BY <1>0, <1>1, <1>2, <1>3 DEF OwnerInv, RestInv, Waking, Complete
<1> QED
  BY <1>3, <1>4, <1>5, <1>6 DEF Tracked, OwnerInv

\* The time has come to try again.
LEMMA TimerTracks ==
    ASSUME TypeOK, TypeOK', NEW o \in Owners, FireTimer(o), Tracked(o)
    PROVE  Tracked(o)'
<1>0. OwnerInv(o)
  BY DEF Tracked
<1>1. /\ o \in timer /\ o \in synced /\ timer' = timer \ {o} /\ queue' = queue \cup {o}
      /\ UNCHANGED <<cr, cache, synced, fresh, owners, loc>>
  BY DEF FireTimer, apiVars, crVars
<1>2. /\ Working(o)' = Working(o) /\ Owned(o)' = Owned(o) /\ RunOf(o)' = RunOf(o)
      /\ cr'[o] = cr[o]
  BY <1>1 DEF Working, RunOf, Idle, Owned
<1>3. CacheInv(o)'
  BY <1>0, <1>1, <1>2 DEF OwnerInv, CacheInv, Waking
<1>4. OwnedInv(o)'
  BY <1>0, <1>1, <1>2 DEF OwnerInv, OwnedInv, Waking
<1>5. RestInv(o)'
  BY <1>0, <1>1, <1>2 DEF OwnerInv, RestInv, Waking, Complete
<1> QED
  BY <1>2, <1>3, <1>4, <1>5 DEF Tracked, OwnerInv

\* A step of the environment.
LEMMA EnvironmentTracks ==
    ASSUME TypeOK, TypeOK', SettleInv, Environment, NEW u \in Owners \ disturbed, ~Disturbs(u)
    PROVE  Tracked(u)'
<1>0. u \in Owners /\ Tracked(u) /\ ControllerOf(u) \in Controllers
  BY ControllerOfType DEF SettleInv
<1>1. loc' = loc
  BY DEF Environment, CreateOrEdit, DeleteOwner, DeliverEvent, FireTimer, LoseAsset,
     CollectGarbage
<1>2. RunOf(u)' = RunOf(u) /\ (~Working(u) => ~Working(u)')
  BY <1>1 DEF RunOf, Working, Idle
<1>3. ASSUME NEW o \in Owners, NEW s \in Specs[o], CreateOrEdit(o, s)
      PROVE  Tracked(u)'
  <2>1. CASE o = u
    BY <1>0, <1>3, <2>1, EditTracks
  <2>2. CASE o # u
    <3>1. /\ cr'[u] = cr[u] /\ cache' = cache /\ (u \in synced' <=> u \in synced)
          /\ queue' = queue /\ timer' = timer /\ owners' = owners
          /\ fresh' = {q \in fresh : loc[q].me # o}
      BY <1>3, <2>2 DEF CreateOrEdit, StoreResource, apiVars, TypeOK
    <3>2. Working(u) => (ControllerOf(u) \in fresh' <=> ControllerOf(u) \in fresh)
      BY <1>0, <2>2, <3>1 DEF Working, RunOf
    <3>3. Owned(u)' = Owned(u)
      BY <3>1 DEF Owned
    <3> QED
      BY <1>0, <1>2, <3>1, <3>2, <3>3, StaysTracked
  <2> QED
    BY <2>1, <2>2
<1>4. ASSUME NEW o \in Owners, DeleteOwner(o)
      PROVE  Tracked(u)'
  <2>1. CASE o = u
    BY <1>0, <1>4, <2>1, DeleteOwnerTracks
  <2>2. CASE o # u
    <3>1. /\ cr'[u] = cr[u] /\ cache' = cache /\ (u \in synced' <=> u \in synced)
          /\ queue' = queue /\ timer' = timer /\ owners' = owners
          /\ fresh' = {q \in fresh : loc[q].me # o}
      BY <1>4, <2>2 DEF DeleteOwner, StoreResource, apiVars, TypeOK
    <3>2. Working(u) => (ControllerOf(u) \in fresh' <=> ControllerOf(u) \in fresh)
      BY <1>0, <2>2, <3>1 DEF Working, RunOf
    <3>3. Owned(u)' = Owned(u)
      BY <3>1 DEF Owned
    <3> QED
      BY <1>0, <1>2, <3>1, <3>2, <3>3, StaysTracked
  <2> QED
    BY <2>1, <2>2
<1>5. ASSUME NEW o \in Owners, DeliverEvent(o)
      PROVE  Tracked(u)'
  <2>1. CASE o = u
    BY <1>0, <1>5, <2>1, DeliverTracks
  <2>2. CASE o # u
    <3>1. /\ cr' = cr /\ cache'[u] = cache[u] /\ (u \in synced' <=> u \in synced)
          /\ (u \in queue' <=> u \in queue) /\ timer' = timer /\ owners' = owners
          /\ fresh' = fresh
      BY <1>5, <2>2 DEF DeliverEvent, apiVars, TypeOK
    <3>2. Owned(u)' = Owned(u)
      BY <3>1 DEF Owned
    <3> QED
      BY <1>0, <1>2, <3>1, <3>2, StaysTracked
  <2> QED
    BY <2>1, <2>2
<1>6. ASSUME NEW o \in Owners, FireTimer(o)
      PROVE  Tracked(u)'
  <2>1. CASE o = u
    BY <1>0, <1>6, <2>1, TimerTracks
  <2>2. CASE o # u
    <3>1. /\ UNCHANGED <<cr, cache, synced, fresh, owners>>
          /\ (u \in queue' <=> u \in queue) /\ (u \in timer' <=> u \in timer)
      BY <1>6, <2>2 DEF FireTimer, apiVars, crVars
    <3>2. Owned(u)' = Owned(u)
      BY <3>1 DEF Owned
    <3> QED
      BY <1>0, <1>2, <3>1, <3>2, StaysTracked
  <2> QED
    BY <2>1, <2>2
<1>7. ASSUME NEW a \in Assets, LoseAsset(a) \/ CollectGarbage(a)
      PROVE  Tracked(u)'
  <2>1. UNCHANGED <<cr, cache, synced, fresh, timer>>
    BY <1>7 DEF LoseAsset, CollectGarbage, crVars
  <2>2. Owned(u)' = Owned(u) /\ (u \in queue' <=> u \in queue)
    BY <1>7, LossSparesOthers DEF Disturbs
  <2> QED
    BY <1>0, <1>2, <2>1, <2>2, StaysTracked
<1> QED
  BY <1>3, <1>4, <1>5, <1>6, <1>7 DEF Environment

-----------------------------------------------------------------------------
(* Stacks at rest *)

\* A step of a controller.
LEMMA ControllerTracks ==
    ASSUME TypeOK, TypeOK', HeldMatches, WorkInv, NEW p \in Controllers, ControllerStep(p),
           NEW u \in Owners, Tracked(u), ~Disturbs(u)
    PROVE  Tracked(u)'
<1>0. ControllerOf(u) \in Controllers
  BY ControllerOfType
<1>1. ASSUME OthersStay(p), ControllerOf(u) # p
      PROVE  RunOf(u)' = RunOf(u)
  BY <1>0, <1>1 DEF OthersStay, RunOf
<1>2. ASSUME NEW o \in queue, BeginStep(p, o)
      PROVE  Tracked(u)'
  <2>1. o \in Owners
    BY DEF TypeOK
  <2>2. CASE o = u
    BY <1>2, <2>2, BeginTracks
  <2>3. CASE o # u
    <3>1. /\ Idle(p) /\ OthersStay(p) /\ (loc'[p] = loc[p] \/ loc'[p].me = o)
          /\ owners' = owners
          /\ \A q \in Controllers : q # p => (q \in fresh' <=> q \in fresh)
          /\ cr'[u] = cr[u] /\ cache'[u] = cache[u] /\ (u \in synced' <=> u \in synced)
          /\ (u \in queue' <=> u \in queue) /\ (u \in timer' <=> u \in timer)
      BY <1>2, <2>1, <2>3, BeginEffects
    <3>2. Owned(u)' = Owned(u)
      BY <3>1 DEF Owned
    <3>3. ControllerOf(u) = p => ~Working(u) /\ ~Working(u)'
      BY <2>3, <3>1 DEF Working, RunOf, Idle
    <3> QED
      BY <1>0, <1>1, <3>1, <3>2, <3>3, StaysTracked
  <2> QED
    BY <2>2, <2>3
<1>3. ASSUME DeleteStep(p) \/ CreateStep(p)
      PROVE  Tracked(u)'
  <2>1. CASE loc[p].me = u
    BY <1>3, <2>1, DeleteTracks, CreateTracks
  <2>2. CASE loc[p].me # u
    <3>1. SameRun(p) /\ OthersStay(p) /\ UNCHANGED <<cr, cache, synced, fresh, timer>>
      BY <1>3, LoopEffects DEF crVars
    <3>2. Owned(u)' = Owned(u) /\ (u \in queue' <=> u \in queue)
      BY <1>3, <2>2, LoopSparesOthers DEF Disturbs
    <3>3. ControllerOf(u) = p => ~Working(u) /\ ~Working(u)'
      BY <2>2, <3>1 DEF Working, RunOf, SameRun
    <3> QED
      BY <1>0, <1>1, <3>1, <3>2, <3>3, StaysTracked
  <2> QED
    BY <2>1, <2>2
<1>4. ASSUME FinishStep(p)
      PROVE  Tracked(u)'
  <2>1. CASE loc[p].me = u
    BY <1>4, <2>1, EndTracks
  <2>2. CASE loc[p].me # u
    <3>1. /\ loc'[p].pc = "idle" /\ OthersStay(p) /\ fresh' = fresh \ {p}
          /\ UNCHANGED <<cache, owners>>
          /\ cr'[u] = cr[u] /\ (u \in synced' <=> u \in synced)
          /\ (u \in queue' <=> u \in queue) /\ (u \in timer' <=> u \in timer)
      BY <1>4, <2>2, FinishEffects
    <3>2. Owned(u)' = Owned(u)
      BY <3>1 DEF Owned
    <3>3. ControllerOf(u) = p => ~Working(u) /\ ~Working(u)'
      BY <2>2, <3>1 DEF Working, RunOf, Idle
    <3>4. ControllerOf(u) # p => (ControllerOf(u) \in fresh' <=> ControllerOf(u) \in fresh)
      BY <3>1
    <3> QED
      BY <1>0, <1>1, <3>1, <3>2, <3>3, <3>4, StaysTracked
  <2> QED
    BY <2>1, <2>2
<1> QED
  BY <1>2, <1>3, <1>4 DEF ControllerStep

\* In the beginning there is no owner.
LEMMA InitSettles == Init => SettleInv
<1> SUFFICES ASSUME Init, NEW o \in Owners PROVE Tracked(o)
  BY DEF Init, SettleInv
<1>1. /\ cr[o] = NewResource /\ cache[o] = NewResource /\ o \notin queue /\ o \notin timer
      /\ ~Working(o)
  BY ControllerOfType DEF Init, Working, Idle, IdleState
<1>2. Owned(o) = {}
  BY DEF Init, Owned
<1>3. WellFormed(NewResource)
  BY DEF WellFormed, NewResource, NoDuplicates, Whole, NoLists, EmptyList, Listed
<1>4. NewResource.phase = "absent" /\ ~NewResource.finalizer /\ NewResource.generation = 0
  BY DEF NewResource
<1>5. CacheInv(o)
  BY <1>1, <1>3, <1>4 DEF CacheInv, Waking
<1>6. OwnedInv(o) /\ RestInv(o)
  BY <1>1, <1>2, <1>4 DEF OwnedInv, RestInv
<1> QED
  BY <1>1, <1>5, <1>6 DEF Tracked, OwnerInv

\* What is known of an owner is known as long as nothing disturbs it.
LEMMA SettleStep ==
    TypeOK /\ TypeOK' /\ HeldMatches /\ WorkInv /\ SettleInv /\ [Next]_vars
    => SettleInv'
<1> SUFFICES ASSUME TypeOK, TypeOK', HeldMatches, WorkInv, SettleInv,
                    [Next]_vars, NEW u \in Owners \ disturbed'
             PROVE  Tracked(u)'
  BY DEF SettleInv, Owners
<1>1. CASE UNCHANGED vars
  <2>1. UNCHANGED <<cr, cache, synced, fresh, queue, timer, owners, loc, disturbed>>
    BY <1>1 DEF vars
  <2>2. Owned(u)' = Owned(u) /\ RunOf(u)' = RunOf(u) /\ Tracked(u)
    BY <2>1 DEF Owned, RunOf, SettleInv
  <2> QED
    BY <2>1, <2>2, StaysTracked
<1>2. CASE Next
  <2>1. u \in Owners \ disturbed /\ ~Disturbs(u)
    BY <1>2, StillUndisturbed
  <2>2. Tracked(u)
    BY <2>1 DEF SettleInv
  <2> QED
    BY <1>2, <2>1, <2>2, ControllerTracks, RestartTracks, EnvironmentTracks DEF Next
<1> QED
  BY <1>1, <1>2

\* One controller works on each owner, and what has an owner exists.
LEMMA WorkInvHolds == Spec => []WorkInv
  BY WorkInvInit, WorkInvStep, TypeCorrect, HeldAlwaysMatches, PTL DEF Spec

\* The inductive invariant.
LEMMA SettleInvHolds == Spec => []SettleInv
  BY InitSettles, SettleStep, WorkInvHolds, TypeCorrect, HeldAlwaysMatches, PTL
     DEF Spec

\* Who is quiet is at rest.
LEMMA QuietRests ==
    ASSUME TypeOK, NEW o \in Owners, Tracked(o), Quiet(o), cr[o].phase = "live"
    PROVE  /\ Owned(o) = Product(cr[o].spec) /\ Complete(o)
           /\ Owned(o) = Recorded(cr[o].status)
<1>1. OwnerInv(o) /\ o \notin queue /\ o \notin timer /\ ~Working(o)
  BY ControllerOfType DEF Quiet, Working, RunOf, Tracked
<1>2. ~Waking(o)
  BY <1>1 DEF Quiet, OwnerInv, CacheInv, Waking
<1> QED
  BY <1>1, <1>2, RestTells

\* What the status of a stack at rest reports as active is there and its own,
\* for every number of stacks, zips and assets, whatever fails, restarts or is
\* edited; only an owner is excepted that itself was disturbed.
THEOREM ActiveAreOwned == Spec => []ActiveAssetsOwned
<1>1. TypeOK /\ WorkInv /\ SettleInv => ActiveAssetsOwned
  <2> SUFFICES ASSUME TypeOK, WorkInv, SettleInv, NEW o \in Owners \ disturbed,
                      NEW a \in Assets, Settled(o), RecordedActive(o, a)
               PROVE  a \in exists /\ o \in owners[a]
    BY DEF ActiveAssetsOwned
  <2>1. Tracked(o) /\ Quiet(o) /\ cr[o].phase = "live"
    BY DEF SettleInv, Settled
  <2>2. a \in Recorded(cr[o].status)
    BY DEF Recorded, RecordedActive
  <2>3. o \in owners[a]
    BY <2>1, <2>2, QuietRests DEF Owned
  <2> QED
    BY <2>3 DEF WorkInv
<1> QED
  BY <1>1, SettleInvHolds, WorkInvHolds, TypeCorrect, PTL

\* What an owner at rest owns is in its status and wanted by its spec, so what
\* was deactivated is gone, and so is all that a deleted owner had.
THEOREM OwnedAreRecorded == Spec => []OwnedAssetsAreRecorded
<1>1. TypeOK /\ DeletionGoesOn /\ SettleInv => OwnedAssetsAreRecorded
  <2> SUFFICES ASSUME TypeOK, DeletionGoesOn, SettleInv, NEW o \in Owners \ disturbed,
                      NEW a \in Assets, Quiet(o), o \in owners[a]
               PROVE  /\ cr[o].phase = "live" /\ RecordedActive(o, a)
                      /\ \E k \in KeysOf(cr[o].spec) : a \in Usual[k]
    BY DEF OwnedAssetsAreRecorded
  <2>1. Tracked(o) /\ a \in Owned(o)
    BY DEF SettleInv, Owned
  <2>2. cr[o].phase = "live"
    <3>1. cr[o].phase \in {"absent", "live", "deleting", "gone"}
      BY DEF TypeOK, Resource
    <3>2. cr[o].phase # "deleting"
      BY DEF DeletionGoesOn
    <3>3. cr[o].phase \notin {"absent", "gone"}
      BY <2>1 DEF Tracked, OwnerInv, OwnedInv
    <3> QED
      BY <3>1, <3>2, <3>3
  <2>3. a \in Product(cr[o].spec) /\ a \in Recorded(cr[o].status)
    BY <2>1, <2>2, QuietRests
  <2> QED
    BY <2>2, <2>3 DEF Product, Recorded, RecordedActive
<1> QED
  BY <1>1, SettleInvHolds, NoRestWithDeletion, TypeCorrect, PTL

\* No work is forgotten: when nothing is under way any more, every asset of
\* every pipeline of the spec is in place.
THEOREM WorkIsDone == Spec => []RestsActivated
<1>1. TypeOK /\ WorkInv /\ SettleInv => RestsActivated
  <2> SUFFICES ASSUME TypeOK, WorkInv, SettleInv, NEW o \in Owners \ disturbed, Settled(o),
                      NEW k \in KeysOf(cr[o].spec), NEW a \in Usual[k]
               PROVE  a \in exists /\ o \in owners[a] /\ cr[o].status.assets[k][a] = "active"
    BY DEF RestsActivated
  <2>1. Tracked(o) /\ Quiet(o) /\ cr[o].phase = "live"
    BY DEF SettleInv, Settled
  <2>2. Owned(o) = Product(cr[o].spec) /\ Complete(o)
    BY <2>1, QuietRests
  <2>3. k \in Keys
    BY KeysAreKeys DEF TypeOK, Resource
  <2>4. a \in Assets
    BY <2>3, UsualType
  <2>5. a \in Owned(o)
    BY <2>2, <2>4 DEF Product
  <2> QED
    BY <2>2, <2>5 DEF Owned, Complete, WorkInv
<1> QED
  BY <1>1, SettleInvHolds, WorkInvHolds, TypeCorrect, PTL

=============================================================================
