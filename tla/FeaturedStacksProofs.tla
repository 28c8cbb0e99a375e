---------------------------- MODULE FeaturedStacksProofs ----------------------------
(****************************************************************************)
(* For any Stacks, versions, repositories and hubs, and any number of       *)
(* edits, changes and faults: the operator never takes a version with a     *)
(* desired state away from its user, and only well-formed Stacks are stored.*)
(****************************************************************************)
EXTENDS FeaturedStacks, TLAPS, FiniteSetTheorems

IsResource(r) == r = [phase |-> r.phase, spec |-> r.spec]

\* The operator may be behind, but a copy whose version is the latest is the
\* stored Stack: that is what a write with this version relies on.
ViewInv ==
    /\ cr = [s \in Stacks |-> cr[s]] /\ cache = [s \in Stacks |-> cache[s]]
    /\ \A s \in Stacks : IsResource(cr[s])
    /\ \A s \in synced : cache[s] = cr[s]
    /\ synced \subseteq Stacks

LEMMA InitView == Init => ViewInv
  BY DEF Init, ViewInv, IsResource, NoStack

-----------------------------------------------------------------------------
(* What a write does *)

LEMMA StoreKeeps ==
    ASSUME ViewInv, NEW s \in Stacks, NEW r, IsResource(r), Store(s, r)
    PROVE  ViewInv'
<1>1. cr' = [cr EXCEPT ![s] = r] /\ cr'[s] = r /\ \A t \in Stacks \ {s} : cr'[t] = cr[t]
  BY DEF Store, ViewInv
<1>2. cr' = [t \in Stacks |-> cr'[t]] /\ cache' = [t \in Stacks |-> cache'[t]]
  BY <1>1 DEF Store, ViewInv
<1>3. \A t \in Stacks : IsResource(cr[t])'
  BY <1>1 DEF ViewInv, IsResource
<1>4. synced' \subseteq Stacks /\ \A t \in synced' : cache'[t] = cr'[t]
  <2>1. CASE r = cr[s]
    BY <1>1, <2>1 DEF Store, ViewInv
  <2>2. CASE r # cr[s]
    BY <1>1, <2>2 DEF Store, ViewInv
  <2> QED
    BY <2>1, <2>2
<1> QED
  BY <1>2, <1>3, <1>4 DEF ViewInv

LEMMA DeletedIsResource ==
    ASSUME NEW r, IsResource(r)
    PROVE  /\ IsResource(Deleted(r))
           /\ Deleted(r).phase = r.phase => Deleted(r).spec = r.spec
<1>1. CASE r.phase = "new"
  BY <1>1 DEF Deleted, IsResource, NoStack
<1>2. CASE r.phase # "new"
  <2>1. Deleted(r) = [phase |-> "deleting", spec |-> r.spec]
    BY <1>2 DEF Deleted, IsResource
  <2> QED
    BY <2>1 DEF IsResource
<1> QED
  BY <1>1, <1>2

LEMMA WithSpec ==
    ASSUME NEW r, NEW spec, IsResource(r)
    PROVE  /\ IsResource([r EXCEPT !.spec = spec])
           /\ [r EXCEPT !.spec = spec].spec = spec
  BY DEF IsResource

LEMMA WithPhase ==
    ASSUME NEW r, NEW phase, IsResource(r)
    PROVE  IsResource([r EXCEPT !.phase = phase])
  BY DEF IsResource

-----------------------------------------------------------------------------
(* The steps of the operator *)

\* What is left of a Stack, and what it is brought to, agree with the copy that
\* was read in every version that has a desired state.
LEMMA UserVersions ==
    ASSUME NEW s, NEW v \in Versions, cache[s].spec[v].desired # ""
    PROVE  Kept(s)[v] = cache[s].spec[v] /\ Merged(s)[v] = cache[s].spec[v]
  BY DEF Kept, Merged

\* A step writes one Stack at most.
LEMMA OneStack ==
    ASSUME ViewInv, NEW s \in Stacks, NEW r, Store(s, r),
           cr'[s].phase = cr[s].phase =>
              \A v \in Versions : cr[s].spec[v].desired # "" => r.spec[v] = cr[s].spec[v]
    PROVE  \A t \in Stacks : KeepsDesired(t)
<1>1. cr'[s] = r /\ \A t \in Stacks \ {s} : cr'[t] = cr[t]
  BY DEF Store, ViewInv
<1> QED
  BY <1>1 DEF KeepsDesired

LEMMA WritesKeep ==
    ASSUME ViewInv, NEW s \in Stacks, TrimVersions(s) \/ DeleteStale(s) \/ ApplyStack(s)
    PROVE  ViewInv' /\ \A t \in Stacks : KeepsDesired(t)
<1>1. IsResource(cr[s])
  BY DEF ViewInv
<1>2. CASE TrimVersions(s)
  <2> DEFINE r == [cr[s] EXCEPT !.spec = Kept(s)]
  <2>1. Store(s, r) /\ cache[s] = cr[s]
    BY <1>2 DEF TrimVersions, ViewInv
  <2>2. IsResource(r) /\ r.spec = Kept(s)
    BY <1>1, WithSpec
  <2>3. \A v \in Versions : cr[s].spec[v].desired # "" => r.spec[v] = cr[s].spec[v]
    BY <2>1, <2>2, UserVersions
  <2> HIDE DEF r
  <2> QED
    BY <2>1, <2>2, <2>3, StoreKeeps, OneStack
<1>3. CASE DeleteStale(s)
  <2> DEFINE r == Deleted(cr[s])
  <2>1. Store(s, r)
    BY <1>3 DEF DeleteStale
  <2>2. IsResource(r) /\ (r.phase = cr[s].phase => r.spec = cr[s].spec)
    BY <1>1, DeletedIsResource
  <2> HIDE DEF r
  <2>3. cr'[s] = r
    BY <2>1 DEF Store, ViewInv
  <2> QED
    BY <2>1, <2>2, <2>3, StoreKeeps, OneStack
<1>4. CASE ApplyStack(s)
  <2> DEFINE r == [phase |-> IF cache[s].phase = "absent" THEN "new" ELSE cr[s].phase,
                   spec |-> Merged(s)]
  <2>1. Store(s, r) /\ cache[s] = cr[s]
    BY <1>4 DEF ApplyStack, MayStore, ViewInv
  <2>2. IsResource(r) /\ r.spec = Merged(s)
    BY DEF IsResource
  <2>3. \A v \in Versions : cr[s].spec[v].desired # "" => r.spec[v] = cr[s].spec[v]
    BY <2>1, <2>2, UserVersions
  <2> HIDE DEF r
  <2> QED
    BY <2>1, <2>2, <2>3, StoreKeeps, OneStack
<1> QED
  BY <1>2, <1>3, <1>4

\* Without a write of a Stack, or outside the operator, there is nothing to
\* show but the view.
LEMMA UnchangedView ==
    ASSUME ViewInv, UNCHANGED <<cr, cache, synced>>
    PROVE  ViewInv' /\ \A t \in Stacks : KeepsDesired(t)
<1>1. ViewInv'
  BY DEF ViewInv, IsResource
<1>2. \A t \in Stacks : KeepsDesired(t)
  BY DEF KeepsDesired
<1> QED
  BY <1>1, <1>2

LEMMA OthersKeep ==
    ASSUME ViewInv,
           \/ Resolve \/ EndTrim \/ EndApply \/ ChangeHub \/ UNCHANGED vars
           \/ \E s \in Stacks : TrimNothing(s) \/ TrimIgnored(s) \/ DeleteFails(s) \/ ApplyFails(s)
    PROVE  ViewInv' /\ \A t \in Stacks : KeepsDesired(t)
<1>1. UNCHANGED <<cr, cache, synced>>
  BY DEF Resolve, EndTrim, EndApply, ChangeHub, TrimNothing, TrimIgnored, DeleteFails, ApplyFails, vars
<1> QED
  BY <1>1, UnchangedView

LEMMA RestartKeeps ==
    ASSUME ViewInv, Restart
    PROVE  ViewInv' /\ \A t \in Stacks : KeepsDesired(t)
<1>1. cr' = cr /\ cache' = cr /\ synced' = Stacks
  BY DEF Restart
<1>2. ViewInv'
  BY <1>1 DEF ViewInv, IsResource
<1>3. \A t \in Stacks : KeepsDesired(t)
  BY <1>1 DEF KeepsDesired
<1> QED
  BY <1>2, <1>3

-----------------------------------------------------------------------------
(* The steps of everyone else *)

LEMMA EnvironmentKeeps ==
    ASSUME ViewInv, NEW s \in Stacks, Environment(s)
    PROVE  ViewInv' /\ \A t \in Stacks : KeepsDesired(t)
<1>1. IsResource(cr[s])
  BY DEF ViewInv
<1>2. UNCHANGED loc
  BY DEF Environment, DeliverEvent, EditStack, DeleteStack, AddFinalizer, WriteStatus, FinishDeletion
<1>3. ViewInv'
  <2>1. CASE DeliverEvent(s)
    <3>1. cr' = cr /\ cache' = [cache EXCEPT ![s] = cr[s]] /\ synced' = synced \cup {s}
      BY <2>1 DEF DeliverEvent
    <3> QED
      BY <3>1 DEF ViewInv, IsResource
  <2>2. CASE EditStack(s)
    <3>1. PICK phase, spec : Store(s, [phase |-> phase, spec |-> spec])
      BY <2>2 DEF EditStack
    <3> DEFINE r == [phase |-> phase, spec |-> spec]
    <3>2. IsResource(r)
      BY DEF IsResource
    <3> HIDE DEF r
    <3>3. Store(s, r)
      BY <3>1 DEF r
    <3> QED
      BY <3>2, <3>3, StoreKeeps
  <2>3. CASE DeleteStack(s)
    BY <1>1, <2>3, DeletedIsResource, StoreKeeps DEF DeleteStack
  <2>4. CASE AddFinalizer(s)
    BY <1>1, <2>4, WithPhase, StoreKeeps DEF AddFinalizer
  <2>5. CASE WriteStatus(s)
    <3>1. cr' = cr /\ cache' = cache /\ synced' = synced \ {s}
      BY <2>5 DEF WriteStatus
    <3> QED
      BY <3>1 DEF ViewInv, IsResource
  <2>6. CASE FinishDeletion(s)
    <3>1. IsResource(NoStack)
      BY DEF NoStack, IsResource
    <3> QED
      BY <2>6, <3>1, StoreKeeps DEF FinishDeletion
  <2> QED
    BY <2>1, <2>2, <2>3, <2>4, <2>5, <2>6 DEF Environment
<1>4. \A t \in Stacks : KeepsDesired(t)
  BY <1>2 DEF KeepsDesired
<1> QED
  BY <1>3, <1>4

LEMMA NextKeeps == ViewInv /\ [Next]_vars => ViewInv' /\ \A t \in Stacks : KeepsDesired(t)
  BY WritesKeep, OthersKeep, RestartKeeps, EnvironmentKeeps DEF Next, Reconcile, TrimStep

\* A version with a desired state stays as its user left it, in every step of
\* the operator that leaves its Stack in place: a write is made on the latest
\* version or not at all, and a view that is behind decides no more than
\* whether the Stack is deleted.
THEOREM DesiredVersionsAreKept == Spec => DesiredVersionsKept
<1>1. ViewInv /\ [Next]_vars => [\A s \in Stacks : KeepsDesired(s)]_vars
  BY NextKeeps
<1>2. ViewInv /\ [Next]_vars => ViewInv'
  BY NextKeeps
<1> QED
  BY <1>1, <1>2, InitView, PTL DEF Spec, DesiredVersionsKept
-----------------------------------------------------------------------------
(* The types of what is read from the hubs *)

\* Among some repositories one is the last: the sets of those that come after
\* one of them are finite, so there is a least of these sets.
LEMMA LastRepository ==
    ASSUME NEW K, K \subseteq Repositories, K # {}
    PROVE  \E k \in K : \A j \in K : j <= k
<1> DEFINE After(k) == {j \in K : j > k}
           T == {After(k) : k \in K}
<1>1. K \subseteq Int
  BY FeaturedAssumption DEF Repositories
<1>2. IsFiniteSet(K)
  <2>1. 1 \in Int /\ RepositoryCount \in Int
    BY FeaturedAssumption
  <2>2. IsFiniteSet(Repositories)
    BY <2>1, FS_Interval DEF Repositories
  <2> QED
    BY <2>2, FS_Subset
<1>3. T \subseteq FiniteSubsetsOf(K) /\ T # {}
  <2>1. ASSUME NEW k \in K
        PROVE  After(k) \in FiniteSubsetsOf(K)
    <3>1. After(k) \in SUBSET K
      OBVIOUS
    <3>2. IsFiniteSet(After(k))
      BY <1>2, <3>1, FS_Subset
    <3> QED
      BY <3>1, <3>2 DEF FiniteSubsetsOf
  <2> QED
    BY <2>1
<1>4. PICK x \in T : \A y \in T : <<y, x>> \notin StrictSubsetOrdering(K)
  <2>1. IsWellFoundedOn(StrictSubsetOrdering(K), FiniteSubsetsOf(K))
    BY FS_StrictSubsetOrderingWellFounded
  <2> HIDE DEF T
  <2> QED
    BY <1>3, <2>1, WFMin
<1>5. PICK k \in K : x = After(k)
  OBVIOUS
<1>6. ASSUME NEW j \in K, ~ (j <= k)
      PROVE  FALSE
  <2>1. j \in After(k) /\ j \notin After(j)
    BY <1>1, <1>6
  <2>2. After(j) \subseteq After(k)
    <3>1. ASSUME NEW i \in K, i > j
          PROVE  i > k
      BY <1>1, <1>6, <3>1
    <3> QED
      BY <3>1
  <2>3. After(j) \in SUBSET K /\ After(k) \in SUBSET K /\ After(j) \in T
    OBVIOUS
  <2> HIDE DEF After, T
  <2>4. <<After(j), After(k)>> \in StrictSubsetOrdering(K)
    BY <2>1, <2>2, <2>3 DEF StrictSubsetOrdering
  <2> QED
    BY <1>4, <1>5, <2>3, <2>4
<1> QED
  BY <1>6

LEMMA FeaturedType ==
    ASSUME hub \in Hubs, NEW s \in Stacks, NEW v \in Versions
    PROVE  Featured(s, v) \in Content \cup {None}
<1> DEFINE E == EntriesFor(s, v)
           K == {p[1] : p \in E}
<1>1. \A p \in E : p[1] \in Repositories /\ p[2] \in Entry
  <2>1. hub \in [Repositories -> SUBSET Entry]
    BY FeaturedAssumption
  <2>2. ASSUME NEW p \in E
        PROVE  p[1] \in Repositories /\ p[2] \in Entry
    <3>1. PICK r \in Repositories : p \in {r} \X hub[r]
      BY DEF EntriesFor
    <3> QED
      BY <2>1, <3>1
  <2> QED
    BY <2>2
<1>2. CASE E = {}
  BY <1>2 DEF Featured
<1>3. CASE E # {}
  <2>1. \E p \in E : \A q \in E : q[1] <= p[1]
    <3>1. K \subseteq Repositories /\ K # {}
      BY <1>1, <1>3
    <3>2. PICK k \in K : \A j \in K : j <= k
      <4> HIDE DEF K
      <4> QED
        BY <3>1, LastRepository
    <3> QED
      BY <3>2
  <2> DEFINE last == CHOOSE p \in E : \A q \in E : q[1] <= p[1]
  <2>2. last \in E
    BY <2>1
  <2>3. last[1] \in Repositories /\ last[2].content \in Content
    <3> HIDE DEF last, E
    <3>1. last[1] \in Repositories /\ last[2] \in Entry
      BY <1>1, <2>2
    <3> QED
      BY <3>1 DEF Entry
  <2>4. Featured(s, v) = WithPipelines(last[1], last[2].content)
    BY <1>3 DEF Featured
  <2> HIDE DEF last
  <2>5. RepoPipelines[last[1]] \in SUBSET PipelineKinds
    BY <2>3, FeaturedAssumption
  <2> QED
    BY <2>3, <2>4, <2>5 DEF WithPipelines, Content
<1> QED
  BY <1>2, <1>3

LEMMA UntagType ==
    ASSUME NEW c \in Content
    PROVE  Untag(c) \in Content
  BY DEF Untag, Content, ImageKinds

-----------------------------------------------------------------------------
(* Type correctness *)

IsStored(r) ==
    /\ r \in Resource
    /\ r # NoStack => r.phase # "absent" /\ Admissible(r.spec)

Stored ==
    /\ cr \in [Stacks -> Resource] /\ cache \in [Stacks -> Resource]
    /\ \A s \in Stacks : IsStored(cr[s])
    /\ synced \subseteq Stacks

Counted == edits \in 0..MaxEdits /\ changes \in 0..MaxChanges /\ faults \in 0..MaxFaults

World == hub \in Hubs /\ down \subseteq Repositories

LEMMA Types == TypeOK <=> Stored /\ Counted /\ World /\ loc \in Local
  BY DEF TypeOK, Stored, Counted, World, IsStored

LEMMA NoStackType == IsStored(NoStack)
  BY DEF IsStored, NoStack, Resource, StackSpec, NoVersions, NoVersion, States

LEMMA IdleType == IdleState \in Local
  BY DEF IdleState, Local, Index

LEMMA InitType == Init => TypeOK
<1> SUFFICES ASSUME Init PROVE TypeOK
  OBVIOUS
<1>1. NoStack \in Resource
  BY NoStackType DEF IsStored
<1>2. Stored
  BY <1>1, NoStackType DEF Init, Stored
<1>3. Counted /\ World
  BY FeaturedAssumption DEF Init, Counted, World
<1> QED
  BY <1>2, <1>3, Types, IdleType DEF Init

LEMMA StoreType ==
    ASSUME Stored, NEW s \in Stacks, NEW r, IsStored(r), Store(s, r)
    PROVE  Stored'
<1>1. r \in Resource
  BY DEF IsStored
<1>2. cr' \in [Stacks -> Resource] /\ cache' = cache
  BY <1>1 DEF Store, Stored
<1>3. \A t \in Stacks : cr'[t] \in {r, cr[t]}
  BY DEF Store, Stored
<1>4. \A t \in Stacks : IsStored(cr[t])'
  <2> SUFFICES ASSUME NEW t \in Stacks PROVE IsStored(cr'[t])
    BY DEF IsStored
  <2>1. IsStored(cr[t])
    BY DEF Stored
  <2> QED
    BY <1>3, <2>1
<1>5. synced' \subseteq Stacks
  BY DEF Store, Stored
<1> QED
  BY <1>2, <1>4, <1>5 DEF Stored

LEMMA DeletedType ==
    ASSUME NEW r, IsStored(r), r.phase # "absent"
    PROVE  IsStored(Deleted(r))
<1>1. CASE r.phase = "new"
  BY <1>1, NoStackType DEF Deleted
<1>2. CASE r.phase # "new"
  <2>1. r \in Resource /\ r # NoStack /\ Admissible(r.spec)
    BY DEF IsStored, NoStack
  <2>2. Deleted(r) = [r EXCEPT !.phase = "deleting"]
    BY <1>2 DEF Deleted
  <2>3. Deleted(r) \in Resource /\ Deleted(r).phase = "deleting" /\ Deleted(r).spec = r.spec
    BY <2>1, <2>2 DEF Resource
  <2> QED
    BY <2>1, <2>3 DEF IsStored
<1> QED
  BY <1>1, <1>2

LEMMA SpecType ==
    ASSUME NEW spec \in StackSpec, Admissible(spec),
           NEW phase \in {"new", "live", "deleting"}
    PROVE  IsStored([phase |-> phase, spec |-> spec])
  BY DEF IsStored, Resource

LEMMA ViewType ==
    ASSUME Stored, loc \in Local, NEW s \in Stacks
    PROVE  /\ cache[s].spec \in StackSpec
           /\ \A v \in Versions : loc.index[s][v] \in Content \cup {None}
<1>1. cache[s] \in Resource
  BY DEF Stored
<1>2. loc.index \in Index
  BY DEF Local
<1> QED
  BY <1>1, <1>2 DEF Resource, Index

LEMMA KeptType ==
    ASSUME Stored, loc \in Local, NEW s \in Stacks
    PROVE  Kept(s) \in StackSpec
<1>1. NoVersion \in [content : Content \cup {None}, desired : States]
  BY DEF NoVersion, States
<1> QED
  BY <1>1, ViewType DEF Kept, StackSpec

LEMMA VersionType ==
    ASSUME NEW c \in Content, NEW d \in States
    PROVE  [content |-> c, desired |-> d] \in [content : Content \cup {None}, desired : States]
  OBVIOUS

LEMMA MergedType ==
    ASSUME Stored, loc \in Local, NEW s \in Stacks
    PROVE  Merged(s) \in StackSpec
<1>1. ASSUME NEW v \in Versions
      PROVE  Merged(s)[v] \in [content : Content \cup {None}, desired : States]
  <2>1. CASE loc.index[s][v] = None \/ cache[s].spec[v].desired # ""
    <3>1. Merged(s)[v] = cache[s].spec[v]
      BY <2>1 DEF Merged
    <3> QED
      BY <3>1, ViewType DEF StackSpec
  <2>2. CASE ~ (loc.index[s][v] = None \/ cache[s].spec[v].desired # "")
    <3>1. Merged(s)[v] = [content |-> Untag(loc.index[s][v]), desired |-> ""]
      BY <2>2 DEF Merged
    <3>2. Untag(loc.index[s][v]) \in Content
      BY <2>2, ViewType, UntagType
    <3>3. "" \in States
      BY DEF States
    <3> QED
      BY <3>1, <3>2, <3>3, VersionType
  <2> QED
    BY <2>1, <2>2
<1> QED
  BY <1>1 DEF Merged, StackSpec

\* What is left of a well-formed Stack is well-formed, if anything is.
LEMMA KeptIsAdmissible ==
    ASSUME NEW s, Admissible(cache[s].spec), Kept(s) # NoVersions
    PROVE  Admissible(Kept(s))
<1>1. \A v \in Versions : Kept(s)[v] \in {cache[s].spec[v], NoVersion}
  BY DEF Kept
<1> QED
  BY <1>1 DEF Admissible

LEMMA WritesType ==
    ASSUME TypeOK, ViewInv, NEW s \in Stacks,
           TrimVersions(s) \/ DeleteStale(s) \/ ApplyStack(s)
    PROVE  Stored'
<1>1. Stored /\ loc \in Local /\ IsStored(cr[s])
  BY Types DEF Stored
<1>2. CASE TrimVersions(s)
  <2> DEFINE r == [cr[s] EXCEPT !.spec = Kept(s)]
  <2>1. /\ Store(s, r) /\ Kept(s) # NoVersions /\ Kept(s) # cache[s].spec
        /\ cache[s] = cr[s]
    BY <1>2 DEF TrimVersions, ViewInv
  <2>2. cr[s] # NoStack
    <3>1. SUFFICES ASSUME cr[s] = NoStack
                   PROVE  Kept(s) = NoVersions
      BY <2>1
    <3>2. \A v \in Versions : cache[s].spec[v] = NoVersion
      BY <2>1, <3>1 DEF NoStack, NoVersions
    <3> QED
      BY <3>2 DEF Kept, NoVersions
  <2>3. Admissible(Kept(s)) /\ Kept(s) \in StackSpec
    BY <1>1, <2>1, <2>2, KeptIsAdmissible, KeptType DEF IsStored
  <2>4. cr[s] \in Resource /\ cr[s].phase # "absent"
    BY <1>1, <2>2 DEF IsStored
  <2>5. r \in Resource /\ r.phase = cr[s].phase /\ r.spec = Kept(s)
    BY <2>3, <2>4 DEF Resource
  <2>6. IsStored(r)
    BY <2>3, <2>4, <2>5 DEF IsStored
  <2> HIDE DEF r
  <2> QED
    BY <1>1, <2>1, <2>6, StoreType
<1>3. CASE DeleteStale(s)
  BY <1>1, <1>3, DeletedType, StoreType DEF DeleteStale
<1>4. CASE ApplyStack(s)
  <2> DEFINE phase == IF cache[s].phase = "absent" THEN "new" ELSE cr[s].phase
  <2>1. Store(s, [phase |-> phase, spec |-> Merged(s)]) /\ cache[s] = cr[s]
        /\ Admissible(Merged(s))
    BY <1>4 DEF ApplyStack, MayApply, MayStore, ViewInv
  <2>2. phase \in {"new", "live", "deleting"}
    BY <1>1, <2>1 DEF IsStored, Resource
  <2> HIDE DEF phase
  <2>3. IsStored([phase |-> phase, spec |-> Merged(s)])
    BY <1>1, <2>1, <2>2, MergedType, SpecType
  <2> QED
    BY <1>1, <2>1, <2>3, StoreType
<1> QED
  BY <1>2, <1>3, <1>4

LEMMA EditType ==
    ASSUME TypeOK, NEW s \in Stacks, EditStack(s)
    PROVE  Stored'
<1> DEFINE Edits == [content : {Untag(c) : c \in UserContents}, desired : UserStates] \cup {NoVersion}
           phase == IF cr[s].phase = "absent" THEN "new" ELSE cr[s].phase
<1>1. Stored /\ cr[s] \in Resource /\ cr[s].phase # "deleting"
  BY Types DEF Stored, IsStored, EditStack
<1>2. PICK v \in Versions, n \in Edits :
         LET spec == [cr[s].spec EXCEPT ![v] = n]
         IN  Admissible(spec) /\ Store(s, [phase |-> phase, spec |-> spec])
  BY DEF EditStack
<1> DEFINE spec == [cr[s].spec EXCEPT ![v] = n]
<1>3. n \in [content : Content \cup {None}, desired : States]
  <2>1. UserContents \subseteq Content /\ UserStates \subseteq States
    BY FeaturedAssumption
  <2>2. CASE n = NoVersion
    BY <2>2 DEF NoVersion, States
  <2>3. CASE n # NoVersion
    <3>1. n \in [content : {Untag(c) : c \in UserContents}, desired : UserStates]
      BY <2>3
    <3>2. {Untag(c) : c \in UserContents} \subseteq Content
      BY <2>1, UntagType
    <3> QED
      BY <2>1, <3>1, <3>2
  <2> QED
    BY <2>2, <2>3
<1>4. spec \in StackSpec
  BY <1>1, <1>3 DEF Resource, StackSpec
<1>5. phase \in {"new", "live", "deleting"}
  BY <1>1 DEF Resource
<1>6. Admissible(spec) /\ Store(s, [phase |-> phase, spec |-> spec])
  BY <1>2
<1> HIDE DEF phase, spec
<1> QED
  BY <1>1, <1>4, <1>5, <1>6, SpecType, StoreType

LEMMA EnvironmentType ==
    ASSUME TypeOK, NEW s \in Stacks, Environment(s)
    PROVE  Stored'
<1>1. Stored /\ IsStored(cr[s])
  BY Types DEF Stored
<1>2. CASE DeliverEvent(s)
  <2>1. cr' = cr /\ cache' = [cache EXCEPT ![s] = cr[s]] /\ synced' = synced \cup {s}
    BY <1>2 DEF DeliverEvent
  <2>2. cache' \in [Stacks -> Resource]
    BY <1>1, <2>1 DEF Stored
  <2> QED
    BY <1>1, <2>1, <2>2 DEF Stored, IsStored
<1>3. CASE EditStack(s)
  BY <1>3, EditType
<1>4. CASE DeleteStack(s)
  <2>1. cr[s].phase # "absent" /\ Store(s, Deleted(cr[s]))
    BY <1>4 DEF DeleteStack
  <2> QED
    BY <1>1, <2>1, DeletedType, StoreType
<1>5. CASE AddFinalizer(s)
  <2>1. /\ cr[s].phase = "new" /\ Store(s, [cr[s] EXCEPT !.phase = "live"])
        /\ cr[s] \in Resource /\ Admissible(cr[s].spec)
    BY <1>1, <1>5 DEF AddFinalizer, IsStored, NoStack
  <2>2. /\ [cr[s] EXCEPT !.phase = "live"] = [phase |-> "live", spec |-> cr[s].spec]
        /\ cr[s].spec \in StackSpec
    BY <2>1 DEF Resource
  <2>3. IsStored([cr[s] EXCEPT !.phase = "live"])
    BY <2>1, <2>2, SpecType
  <2> QED
    BY <1>1, <2>1, <2>3, StoreType
<1>6. CASE WriteStatus(s)
  <2>1. cr' = cr /\ cache' = cache /\ synced' = synced \ {s}
    BY <1>6 DEF WriteStatus
  <2> QED
    BY <1>1, <2>1 DEF Stored, IsStored
<1>7. CASE FinishDeletion(s)
  BY <1>1, <1>7, NoStackType, StoreType DEF FinishDeletion
<1> QED
  BY <1>2, <1>3, <1>4, <1>5, <1>6, <1>7 DEF Environment

LEMMA NextType == TypeOK /\ ViewInv /\ [Next]_vars => TypeOK'
<1> SUFFICES ASSUME TypeOK, ViewInv, [Next]_vars PROVE TypeOK'
  OBVIOUS
<1>1. Stored /\ Counted /\ World /\ loc \in Local
  BY Types
<1>2. Stored'
  <2>1. CASE UNCHANGED <<cr, cache, synced>>
    BY <1>1, <2>1 DEF Stored, IsStored
  <2>2. CASE Restart
    <3>1. cr' = cr /\ cache' = cr /\ synced' = Stacks
      BY <2>2 DEF Restart
    <3> QED
      BY <1>1, <3>1 DEF Stored, IsStored
  <2>3. ASSUME NEW s \in Stacks, TrimVersions(s) \/ DeleteStale(s) \/ ApplyStack(s)
        PROVE  Stored'
    BY <2>3, WritesType
  <2>4. ASSUME NEW s \in Stacks, Environment(s)
        PROVE  Stored'
    BY <2>4, EnvironmentType
  <2>5. ASSUME Resolve \/ EndTrim \/ EndApply \/ ChangeHub \/ UNCHANGED vars
        PROVE  UNCHANGED <<cr, cache, synced>>
    BY <2>5 DEF Resolve, EndTrim, EndApply, ChangeHub, vars
  <2>6. ASSUME NEW s \in Stacks,
               TrimNothing(s) \/ TrimIgnored(s) \/ DeleteFails(s) \/ ApplyFails(s)
        PROVE  UNCHANGED <<cr, cache, synced>>
    BY <2>6 DEF TrimNothing, TrimIgnored, DeleteFails, ApplyFails
  <2> QED
    BY <2>1, <2>2, <2>3, <2>4, <2>5, <2>6 DEF Next, Reconcile, TrimStep
<1>3. Counted'
  <2>1. \/ UNCHANGED counters
        \/ edits < MaxEdits /\ edits' = edits + 1 /\ UNCHANGED <<changes, faults>>
        \/ changes < MaxChanges /\ changes' = changes + 1 /\ UNCHANGED <<edits, faults>>
        \/ faults < MaxFaults /\ faults' = faults + 1 /\ UNCHANGED <<edits, changes>>
    <3>1. ASSUME NEW s \in Stacks, Environment(s)
          PROVE  <2>1!1 \/ <2>1!2 \/ <2>1!4
      BY <3>1 DEF Environment, DeliverEvent, EditStack, DeleteStack, AddFinalizer, WriteStatus,
                  FinishDeletion, counters
    <3>2. ASSUME NEW s \in Stacks, TrimStep(s) \/ ApplyStack(s) \/ ApplyFails(s)
          PROVE  <2>1!1 \/ <2>1!4
      BY <3>2 DEF TrimStep, TrimNothing, TrimVersions, TrimIgnored, DeleteStale, DeleteFails,
                  ApplyStack, ApplyFails, counters
    <3>3. ASSUME Resolve \/ EndTrim \/ EndApply \/ ChangeHub \/ Restart \/ UNCHANGED vars
          PROVE  <2>1!1 \/ <2>1!3 \/ <2>1!4
      BY <3>3 DEF Resolve, EndTrim, EndApply, ChangeHub, Restart, counters, vars
    <3> QED
      BY <3>1, <3>2, <3>3 DEF Next, Reconcile
  <2> QED
    BY <1>1, <2>1, FeaturedAssumption DEF Counted, counters
<1>4. World'
  <2>1. CASE ChangeHub
    BY <1>1, <2>1 DEF ChangeHub, World
  <2>2. CASE UNCHANGED worldVars
    BY <1>1, <2>2 DEF World, worldVars
  <2>3. ASSUME NEW s \in Stacks, Environment(s)
        PROVE  UNCHANGED worldVars
    BY <2>3 DEF Environment, DeliverEvent, EditStack, DeleteStack, AddFinalizer, WriteStatus,
                FinishDeletion, worldVars
  <2>4. ASSUME NEW s \in Stacks, TrimStep(s) \/ ApplyStack(s) \/ ApplyFails(s)
        PROVE  UNCHANGED worldVars
    BY <2>4 DEF TrimStep, TrimNothing, TrimVersions, TrimIgnored, DeleteStale, DeleteFails,
                ApplyStack, ApplyFails, worldVars
  <2>5. ASSUME Resolve \/ EndTrim \/ EndApply \/ Restart \/ UNCHANGED vars
        PROVE  UNCHANGED worldVars
    BY <2>5 DEF Resolve, EndTrim, EndApply, Restart, worldVars, vars
  <2> QED
    BY <2>1, <2>2, <2>3, <2>4, <2>5 DEF Next, Reconcile
<1>5. loc' \in Local
  <2>1. /\ Featuring \subseteq Stacks
        /\ \A todo \in SUBSET Stacks : [loc EXCEPT !.todo = todo] \in Local
        /\ \A todo \in SUBSET Stacks : [loc EXCEPT !.pc = "apply", !.todo = todo] \in Local
        /\ \A s \in Stacks : loc.todo \ {s} \in SUBSET Stacks
    BY <1>1 DEF Featuring, Local
  <2>2. CASE Resolve
    <3>1. Resolved \in Index
      BY <1>1, FeaturedType DEF World, Resolved, Index
    <3> QED
      BY <2>2, <3>1 DEF Resolve, Refused, Local
  <2>3. CASE EndTrim
    BY <2>1, <2>3 DEF EndTrim
  <2>4. CASE EndApply \/ Restart
    BY <2>4, IdleType DEF EndApply, Restart, EndReconcile
  <2>5. CASE ChangeHub \/ UNCHANGED vars
    BY <1>1, <2>5 DEF ChangeHub, vars
  <2>6. ASSUME NEW s \in Stacks, TrimStep(s)
        PROVE  loc' \in Local
    BY <2>1, <2>6, IdleType DEF TrimStep, TrimNothing, TrimVersions, TrimIgnored, DeleteStale,
                                DeleteFails, Trimmed, EndReconcile
  <2>7. ASSUME NEW s \in Stacks, ApplyStack(s) \/ ApplyFails(s)
        PROVE  loc' \in Local
    BY <2>1, <2>7, IdleType DEF ApplyStack, ApplyFails, EndReconcile
  <2>8. ASSUME NEW s \in Stacks, Environment(s)
        PROVE  loc' = loc
    BY <2>8 DEF Environment, DeliverEvent, EditStack, DeleteStack, AddFinalizer, WriteStatus,
                FinishDeletion
  <2> QED
    BY <1>1, <2>2, <2>3, <2>4, <2>5, <2>6, <2>7, <2>8 DEF Next, Reconcile
<1> QED
  BY <1>2, <1>3, <1>4, <1>5, Types DEF TypeOK, Stored, Counted, World, IsStored

\* The types; and whatever is edited, taken out of the hubs, lost or restarted,
\* a Stack that is stored has versions, and none that the webhook refuses.
THEOREM TypeCorrect == Spec => []TypeOK
<1>1. Init => TypeOK /\ ViewInv
  BY InitType, InitView
<1>2. TypeOK /\ ViewInv /\ [Next]_vars => (TypeOK /\ ViewInv)'
  BY NextType, NextKeeps
<1> QED
  BY <1>1, <1>2, PTL DEF Spec

-----------------------------------------------------------------------------
(* In step with the hubs *)

\* What the operator goes by is what the hubs serve.
IsUpToDate == loc.index = Resolved

\* A Stack in step, of which the operator has the latest version, is not
\* written: what the operator makes of it is what it has.
LeavesInStep(s) ==
    s \in synced /\ InStep(s) /\ (loc.pc # "idle" => IsUpToDate) /\ Reconcile =>
        cr'[s] = cr[s] /\ s \in synced'

\* A write brings a Stack that is trimmed in step.
BringsInStep(s) ==
    ApplyStack(s) /\ IsUpToDate /\ Kept(s) = cache[s].spec /\ cr[s].phase # "deleting" =>
        InStep(s)'

\* A version that is in step, or that a user has decided about.
VersionInStep(n, c) ==
    n.desired # "" \/ n.content = IF c = None THEN None ELSE Untag(c)

\* The copy is the Stack, and the index is that of the hubs.
LEMMA SeenAsItIs ==
    ASSUME TypeOK, ViewInv, NEW s \in Stacks, s \in synced, IsUpToDate
    PROVE  /\ cache[s] = cr[s] /\ cr[s].spec \in StackSpec
           /\ \A v \in Versions : loc.index[s][v] = Featured(s, v)
<1>1. cache[s] = cr[s]
  BY DEF ViewInv
<1>2. cr[s].spec \in StackSpec
  BY DEF TypeOK, Resource
<1>3. \A v \in Versions : Resolved[s][v] = Featured(s, v)
  BY DEF Resolved
<1> QED
  BY <1>1, <1>2, <1>3 DEF IsUpToDate

\* Trimming and merging leave a Stack that is in step as it is.
LEMMA NothingToDo ==
    ASSUME TypeOK, ViewInv, NEW s \in Stacks, s \in synced, IsUpToDate, InStep(s)
    PROVE  Kept(s) = cr[s].spec /\ Merged(s) = cr[s].spec
<1>1. /\ cache[s] = cr[s] /\ cr[s].spec \in StackSpec
      /\ \A v \in Versions : loc.index[s][v] = Featured(s, v)
  BY SeenAsItIs
<1>2. ASSUME NEW v \in Versions
      PROVE  /\ Kept(s)[v] = cr[s].spec[v]
             /\ Merged(s)[v] = cr[s].spec[v]
  <2> DEFINE n == cr[s].spec[v]
             c == Featured(s, v)
  <2>1. n.desired # "" \/ n.content = IF c = None THEN None ELSE Untag(c)
    BY DEF InStep
  <2>2. n = [content |-> n.content, desired |-> n.desired]
    BY <1>1 DEF StackSpec
  <2>3. /\ Kept(s)[v] = IF c # None \/ n.desired # "" THEN n ELSE NoVersion
        /\ Merged(s)[v] = IF c = None \/ n.desired # "" THEN n
                          ELSE [content |-> Untag(c), desired |-> ""]
    BY <1>1 DEF Kept, Merged
  <2> HIDE DEF n, c
  <2>4. Kept(s)[v] = n /\ Merged(s)[v] = n
    BY <2>1, <2>2, <2>3 DEF NoVersion
  <2> QED
    BY <2>4 DEF n
<1>3. /\ Kept(s) = [v \in Versions |-> Kept(s)[v]]
      /\ Merged(s) = [v \in Versions |-> Merged(s)[v]]
  BY DEF Kept, Merged
<1>4. cr[s].spec = [v \in Versions |-> cr[s].spec[v]]
  BY <1>1 DEF StackSpec
<1> HIDE DEF Kept, Merged
<1> QED
  BY <1>2, <1>3, <1>4

\* A Stack that is there has versions.
LEMMA StoredHasVersions ==
    ASSUME TypeOK, NEW s \in Stacks
    PROVE  cr[s].spec = NoVersions <=> cr[s] = NoStack
  BY DEF TypeOK, NoStack, Admissible

\* A write of what is stored is none.
LEMMA EqualWrite ==
    ASSUME TypeOK, NEW s \in Stacks, s \in synced, Store(s, cr[s])
    PROVE  cr'[s] = cr[s] /\ s \in synced'
  BY DEF Store, TypeOK

\* A write of another Stack.
LEMMA OtherWrite ==
    ASSUME TypeOK, NEW s \in Stacks, s \in synced, NEW o \in Stacks, o # s, NEW r, Store(o, r)
    PROVE  cr'[s] = cr[s] /\ s \in synced'
  BY DEF Store, TypeOK

\* A step of the operator on one Stack, which may be the one in step.
LEMMA LeavesSteps ==
    ASSUME TypeOK, ViewInv, NEW s \in Stacks, s \in synced, IsUpToDate, InStep(s),
           NEW o \in Stacks, TrimStep(o) \/ ApplyStack(o) \/ ApplyFails(o)
    PROVE  cr'[s] = cr[s] /\ s \in synced'
<1>1. cache[s] = cr[s] /\ Kept(s) = cr[s].spec /\ Merged(s) = cr[s].spec
  BY NothingToDo, SeenAsItIs
<1>2. CASE TrimNothing(o) \/ TrimIgnored(o) \/ DeleteFails(o) \/ ApplyFails(o)
  BY <1>2 DEF TrimNothing, TrimIgnored, DeleteFails, ApplyFails
<1>3. CASE TrimVersions(o)
  <2>1. o # s
    BY <1>1, <1>3 DEF TrimVersions
  <2> QED
    BY <1>3, <2>1, OtherWrite DEF TrimVersions
<1>4. CASE DeleteStale(o)
  \* There is something to keep of the Stack in step.
  <2>1. o # s
    <3>1. o = s => cr[s].spec = NoVersions /\ cr[s].phase # "absent"
      BY <1>1, <1>4 DEF DeleteStale
    <3> QED
      BY <3>1, StoredHasVersions DEF NoStack
  <2> QED
    BY <1>4, <2>1, OtherWrite DEF DeleteStale
<1>5. CASE ApplyStack(o)
  <2>1. CASE o = s
    <3>1. Admissible(cr[s].spec)
      BY <1>1, <1>5, <2>1 DEF ApplyStack, MayApply
    <3>2. cr[s].phase # "absent"
      BY <3>1, StoredHasVersions DEF Admissible, TypeOK
    <3>3. cr[s] = [phase |-> cr[s].phase, spec |-> cr[s].spec]
      BY DEF TypeOK, Resource
    <3>4. Store(s, cr[s])
      BY <1>1, <1>5, <2>1, <3>2, <3>3 DEF ApplyStack
    <3> QED
      BY <3>4, EqualWrite
  <2>2. CASE o # s
    BY <1>5, <2>2, OtherWrite DEF ApplyStack
  <2> QED
    BY <2>1, <2>2
<1> QED
  BY <1>2, <1>3, <1>4, <1>5 DEF TrimStep

\* The operator does not touch a Stack in step.
LEMMA LeavesAll ==
    ASSUME TypeOK, ViewInv, NEW s \in Stacks
    PROVE  LeavesInStep(s)
<1> SUFFICES ASSUME s \in synced, InStep(s), loc.pc # "idle" => IsUpToDate, Reconcile
             PROVE  cr'[s] = cr[s] /\ s \in synced'
  BY DEF LeavesInStep
<1>1. CASE Resolve \/ EndTrim \/ EndApply
  BY <1>1 DEF Resolve, EndTrim, EndApply
<1>2. ASSUME NEW o \in Stacks, TrimStep(o) \/ ApplyStack(o) \/ ApplyFails(o)
      PROVE  cr'[s] = cr[s] /\ s \in synced'
  <2>1. loc.pc # "idle"
    BY <1>2 DEF TrimStep, TrimNothing, TrimVersions, TrimIgnored, DeleteStale, DeleteFails,
                ApplyStack, ApplyFails
  <2> QED
    BY <1>2, <2>1, LeavesSteps
<1> QED
  BY <1>1, <1>2 DEF Reconcile

\* What is merged into a Stack that is trimmed is in step.
LEMMA BringsAll ==
    ASSUME TypeOK, ViewInv, NEW s \in Stacks
    PROVE  BringsInStep(s)
<1> SUFFICES ASSUME ApplyStack(s), IsUpToDate, Kept(s) = cache[s].spec, cr[s].phase # "deleting"
             PROVE  InStep(s)'
  BY DEF BringsInStep
<1>1. s \in synced /\ UNCHANGED <<hub, down>>
  BY DEF ApplyStack, MayStore, worldVars
<1>2. /\ cache[s] = cr[s] /\ cr[s].spec \in StackSpec
      /\ \A v \in Versions : loc.index[s][v] = Featured(s, v)
  BY <1>1, SeenAsItIs
<1>3. /\ cr'[s].spec = Merged(s)
      /\ cr'[s].phase = IF cache[s].phase = "absent" THEN "new" ELSE cr[s].phase
  BY DEF ApplyStack, Store, TypeOK
<1>4. \A v \in Versions : Featured(s, v)' = Featured(s, v)
  BY <1>1 DEF Featured, EntriesFor
<1>5. ASSUME NEW v \in Versions
      PROVE  VersionInStep(Merged(s)[v], Featured(s, v))
  <2> DEFINE n == cr[s].spec[v]
             c == Featured(s, v)
  <2>1. Merged(s)[v] = IF c = None \/ n.desired # "" THEN n
                       ELSE [content |-> Untag(c), desired |-> ""]
    BY <1>2 DEF Merged
  <2>2. c = None /\ n.desired = "" => n = NoVersion
    <3>1. Kept(s)[v] = IF c # None \/ n.desired # "" THEN n ELSE NoVersion
      BY <1>2 DEF Kept
    <3> QED
      BY <1>2, <3>1
  <2> SUFFICES VersionInStep(Merged(s)[v], c)
    OBVIOUS
  <2> HIDE DEF n, c
  <2>3. CASE n.desired # ""
    BY <2>1, <2>3 DEF VersionInStep
  <2>4. CASE n.desired = "" /\ c = None
    <3>1. Merged(s)[v] = NoVersion
      BY <2>1, <2>2, <2>4
    <3>2. NoVersion.content = None
      BY DEF NoVersion
    <3> QED
      BY <2>4, <3>1, <3>2 DEF VersionInStep
  <2>5. CASE n.desired = "" /\ c # None
    <3>1. Merged(s)[v] = [content |-> Untag(c), desired |-> ""]
      BY <2>1, <2>5
    <3> DEFINE e == Untag(c)
    <3> HIDE DEF e
    <3>2. [content |-> e, desired |-> ""].content = e
      OBVIOUS
    <3>3. Merged(s)[v].content = e
      BY <3>1, <3>2, Zenon DEF e
    <3> QED
      BY <2>5, <3>3, Zenon DEF VersionInStep, e
  <2> QED
    BY <2>3, <2>4, <2>5
<1>6. cr'[s].phase # "deleting"
  BY <1>3
<1> QED
  BY <1>3, <1>4, <1>5, <1>6 DEF InStep, VersionInStep

\* The operator is idempotent, although the webhook changes what it writes and
\* users decide about versions: while the hubs serve what it goes by, it writes
\* no Stack that is in step with them and that it sees as it is.
THEOREM InStepIsLeft == Spec => [][\A s \in Stacks : LeavesInStep(s)]_vars
<1>1. TypeOK /\ ViewInv /\ [Next]_vars => [\A s \in Stacks : LeavesInStep(s)]_vars
  BY LeavesAll
<1> QED
  BY <1>1, InitView, NextKeeps, TypeCorrect, PTL DEF Spec

\* And a Stack that is written by what the hubs serve is in step with them from
\* then on, if nothing is left to be trimmed and it is not being deleted: with
\* every version that they feature, and with no other.
THEOREM ApplyBringsInStep == Spec => [][\A s \in Stacks : BringsInStep(s)]_vars
<1>1. TypeOK /\ ViewInv /\ [Next]_vars => [\A s \in Stacks : BringsInStep(s)]_vars
  BY BringsAll
<1> QED
  BY <1>1, InitView, NextKeeps, TypeCorrect, PTL DEF Spec
=============================================================================
