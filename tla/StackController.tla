---------------------------- MODULE StackController ----------------------------
(****************************************************************************)
(* The activation of pipelines: the stack controller (Reconcile, processDe- *)
(* letion, cleanup), the gitops part of the Kabanero operator, and the code *)
(* they share (ActivatePipelines, DeleteAsset), at the grain of one call to *)
(* the API server per step.                                                 *)
(*                                                                          *)
(* An owner is a Stack or a Kabanero resource; it is identified by its UID, *)
(* so an owner that is gone does not come back.  An asset is a Tekton       *)
(* object that a manifest of a pipeline zip creates.  Each controller is a  *)
(* process of its own with one worker: it reconciles one owner at a time,   *)
(* but the steps of the two controllers interleave.                         *)
(*                                                                          *)
(* Controllers read their own resource from the informer cache and assets   *)
(* from the API server.  Instead of a resource version, which would grow    *)
(* without bound, the model keeps who still holds the latest version of a   *)
(* resource (`fresh') and of an asset (`held'): an Update of an outdated    *)
(* version is refused with a conflict.                                      *)
(****************************************************************************)
EXTENDS PipelineUse

CONSTANTS
    Stacks,          \* Stack resources
    Gitops,          \* Kabanero resources with gitops pipelines
    Assets,          \* Tekton objects: a kind, a namespace and a name
    Triggers,        \* the assets of kind TriggerBinding or TriggerTemplate
    Foreign,         \* the assets whose group is not tekton.dev or triggers.tekton.dev
    Contents,        \* Contents[k]: the asset sets a download of zip k may render to
    Usual,           \* Usual[k]: the one that k renders to, but for changes of its content
    Specs,           \* Specs[o]: the specs that users give to o
    QuietEdits,      \* TRUE: users edit o only while no reconcile of o runs or is due
    Faults,          \* the kinds of call that may fail
    MaxEdits,        \* how often users create, edit or delete an owner
    MaxLosses,       \* how often somebody else deletes an asset
    MaxMishaps       \* how many assets get lost, calls fail or processes restart, together

Owners == Stacks \cup Gitops

\* The stack controller and the Kabanero operator.
Controllers == {"stack", "operator"}

ControllerOf(o) == IF o \in Stacks THEN "stack" ELSE "operator"

\* The absence of an asset from a list, and the values of its Status.
AssetStates == {"none", "unknown", "failed", "active"}

\* value.ActiveAssets per key.  All entries of a status with one key are deep
\* copies of one map value, so they carry the same asset list.
AssetLists == [Keys -> [Assets -> AssetStates]]

EmptyList == [a \in Assets |-> "none"]

NoLists == [k \in Keys |-> EmptyList]

Listed(list) == {a \in Assets : list[a] # "none"}

FaultKinds == {"get", "write", "manifest", "apply", "status", "crash"}

ASSUME StackAssumption ==
    /\ Stacks \cap Gitops = {} /\ Owners # {}
    /\ Keys # {} /\ Assets # {}
    /\ Triggers \subseteq Assets
    /\ Foreign \subseteq Assets
    /\ Contents \in [Keys -> SUBSET SUBSET Assets]
    /\ \A k \in Keys : Usual[k] \in Contents[k]
    /\ Specs \in [Owners -> SUBSET SUBSET Use]
    /\ QuietEdits \in BOOLEAN
    /\ Faults \subseteq FaultKinds
    /\ MaxEdits \in Nat /\ MaxLosses \in Nat /\ MaxMishaps \in Nat

VARIABLES
    cr,      \* the owners, as the API server stores them
    cache,   \* the owners, as the informer cache of their controller has them
    synced,  \* the owners whose cached version is the latest
    queue,   \* the owners in a workqueue
    timer,   \* the owners with a pending RequeueAfter of 60 seconds
    exists,  \* the assets that exist
    owners,  \* their owner references
    loc,     \* the local state of each controller
    fresh,   \* the controllers whose copy of the owner is the latest version
    held,    \* the controllers whose copy of the asset is the latest version
    edits, losses, faults,
    disturbed  \* no state of the code: the owners that a step has disturbed, see Disturb

vars == <<cr, cache, synced, queue, timer, exists, owners, loc, fresh, held,
          edits, losses, faults, disturbed>>

apiVars == <<exists, owners, held>>
crVars == <<cr, cache, synced, fresh>>
history == <<edits, losses, disturbed>>

Status == [uses : SUBSET Use, assets : AssetLists]

\* metadata.generation grows with every change of the spec and with the
\* deletion timestamp, but not with the status or the finalizer.
Resource == [phase : {"absent", "live", "deleting", "gone"}, finalizer : BOOLEAN,
             generation : Nat, spec : SUBSET Use, status : Status]

NewResource == [phase |-> "absent", finalizer |-> FALSE, generation |-> 0, spec |-> {},
                status |-> [uses |-> {}, assets |-> NoLists]]

Local == [pc : {"idle", "delete", "remove", "create", "assets", "apply", "adopt",
                "status", "finalizer"},
          me : Owners,              \* the owner being reconciled
          cleanup : BOOLEAN,        \* in cleanup rather than in ActivatePipelines
          spec : SUBSET Use,        \* the spec that was read
          lists : AssetLists,       \* value.ActiveAssets of the use map
          keys : SUBSET Keys,       \* the keys the creating loop has still to visit
          todo : SUBSET (Keys \X Assets), \* the assets the current loop has still to visit
          item : Keys \X Assets,    \* the asset of the call in progress
          loaded : SUBSET Assets,   \* value.manifests
          seen : SUBSET Owners,     \* the owner references that the Get returned
          broken : SUBSET Keys]     \* the keys with a value.ManifestError

Idle(p) == loc[p].pc = "idle"

NoItem == CHOOSE i \in Keys \X Assets : TRUE

IdleState == [pc |-> "idle", me |-> CHOOSE o \in Owners : TRUE, cleanup |-> FALSE,
              spec |-> {}, lists |-> NoLists, keys |-> {}, todo |-> {}, item |-> NoItem,
              loaded |-> {}, seen |-> {}, broken |-> {}]

Init ==
    /\ cr = [o \in Owners |-> NewResource]
    /\ cache = cr
    /\ synced = Owners
    /\ queue = {} /\ timer = {}
    /\ exists = {}
    /\ owners = [a \in Assets |-> {}]
    /\ loc = [p \in Controllers |-> IdleState]
    /\ fresh = {} /\ held = {}
    /\ edits = 0 /\ losses = 0 /\ faults = 0 /\ disturbed = {}

-----------------------------------------------------------------------------
(* What the steps are built from *)

\* A call of this kind fails; the bound caps how many do.
Fail(kind) ==
    /\ kind \in Faults
    /\ losses + faults < MaxMishaps
    /\ faults' = faults + 1

\* After this step the code no longer knows all about the assets of these
\* owners.  Nothing is excluded by that; the properties of what is at rest speak
\* of the owners that this has not happened to.
Disturb(os) == disturbed' = disturbed \cup os

\* The API server stores a new version of o: every copy of it is outdated but
\* that of the controllers in `writers', which get the new version back.
StoreResource(o, r, writers) ==
    /\ cr' = [cr EXCEPT ![o] = r]
    /\ synced' = synced \ {o}
    /\ fresh' = {p \in fresh : loc[p].me # o \/ p \in writers}
    /\ UNCHANGED cache

\* (A variant with a fault: the update carries no resource version.)
OutdateNothing(a) == UNCHANGED held

\* Copies of asset a that controllers hold are outdated.
OutdateCopies(a) == held' = {p \in held : loc[p].item[2] # a}

StoreOwners(a, refs) ==
    /\ owners' = [owners EXCEPT ![a] = refs]
    /\ OutdateCopies(a)

\* The watch on Pipelines, Tasks and Conditions enqueues the Stacks that own an
\* object that is deleted; there is none on triggers, and the operator has none.
Watchers(a) == IF a \in Triggers THEN {} ELSE owners[a] \cap Stacks

RemoveAsset(a) ==
    /\ exists' = exists \ {a}
    /\ StoreOwners(a, {})
    /\ queue' = IF a \in exists THEN queue \cup Watchers(a) ELSE queue

\* The controller p goes on with the local state r.
Become(p, r) == loc' = [loc EXCEPT ![p] = r]

\* value.ActiveAssets[index].Status = s, for the key and the asset of item i.
SetState(lists, i, s) == [lists EXCEPT ![i[1]] = [lists[i[1]] EXCEPT ![i[2]] = s]]

\* The call on item i is over: its Status becomes s and the loop goes on.
FinishAsset(p, i, s) ==
    Become(p, [loc[p] EXCEPT !.pc = "assets", !.todo = loc[p].todo \ {i},
                  !.lists = SetState(loc[p].lists, i, s), !.item = NoItem, !.seen = {}])

\* The same for an asset to delete: the result of DeleteAsset is not looked at.
FinishDelete(p, i) ==
    Become(p, [loc[p] EXCEPT !.pc = "delete", !.todo = loc[p].todo \ {i},
                  !.item = NoItem, !.seen = {}])

-----------------------------------------------------------------------------
(* The environment: users, the watch, the timers, the garbage collector *)

\* Nobody works on o, and nothing about o is still to be noticed.
Quiet(o) ==
    /\ o \in synced /\ o \notin queue /\ o \notin timer
    /\ \A p \in Controllers : ~Idle(p) => loc[p].me # o

\* A reconcile of o runs or is due: the status it writes will be refused if o
\* changes, and whoever reads the old version has no other record.
Busy(o) ==
    \/ o \in queue \cup timer
    \/ \E p \in Controllers : ~Idle(p) /\ loc[p].me = o

MayEdit(o) ==
    /\ edits < MaxEdits
    /\ QuietEdits => Quiet(o)

\* A zip that a version lists twice is miscounted by PipelineUse.
CreateOrEdit(o, s) ==
    /\ MayEdit(o)
    /\ cr[o].phase \in {"absent", "live"}
    /\ s # cr[o].spec
    /\ StoreResource(o, [cr[o] EXCEPT !.phase = "live", !.spec = s, !.generation = @ + 1], {})
    /\ edits' = edits + 1
    /\ Disturb({u \in {o} : Busy(o) \/ ~NoDuplicates(s)})
    /\ UNCHANGED <<queue, timer, apiVars, loc, losses, faults>>

\* Without a finalizer the resource goes at once.
DeleteOwner(o) ==
    /\ MayEdit(o)
    /\ cr[o].phase = "live"
    /\ StoreResource(o, [cr[o] EXCEPT !.phase = IF cr[o].finalizer THEN "deleting" ELSE "gone",
                                      !.generation = @ + 1], {})
    /\ edits' = edits + 1
    /\ Disturb({u \in {o} : Busy(o)})
    /\ UNCHANGED <<queue, timer, apiVars, loc, losses, faults>>

\* A user, or another controller, deletes an asset.
LoseAsset(a) ==
    /\ losses < MaxLosses /\ losses + faults < MaxMishaps
    /\ a \in exists
    /\ RemoveAsset(a)
    /\ losses' = losses + 1
    /\ Disturb(owners[a])
    /\ UNCHANGED <<crVars, timer, loc, edits, faults>>

\* The Kubernetes garbage collector strikes out references to owners that are
\* gone and deletes an object that loses its last one that way.
CollectGarbage(a) ==
    LET living == {o \in owners[a] : cr[o].phase # "gone"}
    IN  /\ a \in exists
        /\ living # owners[a]
        /\ IF living = {}
           THEN RemoveAsset(a)
           ELSE StoreOwners(a, living) /\ UNCHANGED <<exists, queue>>
        /\ UNCHANGED <<crVars, timer, loc, history, faults>>

\* The watch brings the latest version to the cache.  The operator wakes up for
\* every version; the stack controller's predicate lets the events of a new
\* generation through, and the default one every create and delete.
DeliverEvent(o) ==
    /\ o \notin synced
    /\ cache' = [cache EXCEPT ![o] = cr[o]]
    /\ synced' = synced \cup {o}
    /\ queue' = IF \/ o \in Gitops
                   \/ cache[o].generation # cr[o].generation
                   \/ cache[o].phase # cr[o].phase
                THEN queue \cup {o} ELSE queue
    /\ UNCHANGED <<cr, fresh, timer, apiVars, loc, history, faults>>

\* After 60 seconds the cache has long seen the version of the last reconcile.
FireTimer(o) ==
    /\ o \in timer /\ o \in synced
    /\ timer' = timer \ {o}
    /\ queue' = queue \cup {o}
    /\ UNCHANGED <<crVars, apiVars, loc, history, faults>>

-----------------------------------------------------------------------------
(* Reconcile: what happens before the first call about an asset *)

\* DeleteAsset ignores assets that are failed or unknown before it makes any
\* call: the active ones of these keys remain to be visited.
ActiveAssets(keys, status) ==
    {i \in keys \X Assets : status.assets[i[1]][i[2]] = "active"}

\* The start of ActivatePipelines on the resource r that was read.
Activate(p, o, r) ==
    Become(p, [IdleState EXCEPT
                  !.pc = "delete", !.me = o, !.spec = r.spec, !.lists = r.status.assets,
                  !.keys = RetainedKeys(r.spec, r.status.uses),
                  !.todo = ActiveAssets(DroppedKeys(r.spec, r.status.uses), r.status)])

\* Begin to reconcile o: read it from the cache.
Dequeue(p, o) ==
    /\ Idle(p)
    /\ o \in queue /\ ControllerOf(o) = p

\* Not found, or deleted and without our finalizer: nothing is left to do.
BeginGone(p, o) ==
    /\ Dequeue(p, o)
    /\ \/ cache[o].phase \in {"absent", "gone"}
       \/ cache[o].phase = "deleting" /\ ~cache[o].finalizer
    /\ queue' = queue \ {o}
    /\ UNCHANGED <<crVars, timer, apiVars, loc, history, faults>>

BeginLive(p, o) ==
    /\ Dequeue(p, o)
    /\ cache[o].phase = "live" /\ cache[o].finalizer
    /\ queue' = queue \ {o}
    /\ fresh' = IF o \in synced THEN fresh \cup {p} ELSE fresh \ {p}
    /\ Activate(p, o, cache[o])
    /\ UNCHANGED <<cr, cache, synced, timer, apiVars, history, faults>>

\* The first reconcile adds the finalizer; it goes on with the stored version.
BeginNew(p, o) ==
    /\ Dequeue(p, o)
    /\ cache[o].phase = "live" /\ ~cache[o].finalizer
    /\ o \in synced
    /\ cr' = [cr EXCEPT ![o].finalizer = TRUE]
    /\ synced' = synced \ {o}
    /\ fresh' = fresh \cup {p}
    /\ queue' = queue \ {o}
    /\ Activate(p, o, cache[o])
    /\ UNCHANGED <<cache, timer, apiVars, history, faults>>

\* That Update is refused or fails: the error requeues o.
BeginNewFails(p, o) ==
    /\ Dequeue(p, o)
    /\ cache[o].phase = "live" /\ ~cache[o].finalizer
    /\ \/ o \notin synced /\ UNCHANGED faults
       \/ Fail("write")
    /\ UNCHANGED <<crVars, queue, timer, apiVars, loc, history>>

\* Deletion: cleanup visits every asset of the status, then the finalizer goes.
BeginCleanup(p, o) ==
    /\ Dequeue(p, o)
    /\ cache[o].phase = "deleting" /\ cache[o].finalizer
    /\ queue' = queue \ {o}
    /\ fresh' = IF o \in synced THEN fresh \cup {p} ELSE fresh \ {p}
    /\ Become(p, [IdleState EXCEPT
                     !.pc = "delete", !.me = o, !.cleanup = TRUE,
                     !.todo = ActiveAssets(KeysOf(cache[o].status.uses), cache[o].status)])
    /\ UNCHANGED <<cr, cache, synced, timer, apiVars, history, faults>>

-----------------------------------------------------------------------------
(* DeleteAsset *)

\* Get fails, or there is no such object: nothing to delete.
SkipDelete(p, i) ==
    /\ loc[p].pc = "delete" /\ i \in loc[p].todo
    /\ \/ i[2] \notin exists /\ UNCHANGED <<faults, disturbed>>
       \/ Fail("get") /\ Disturb({loc[p].me})
    /\ FinishDelete(p, i)
    /\ UNCHANGED <<crVars, queue, timer, apiVars, edits, losses>>

GetForDelete(p, i) ==
    /\ loc[p].pc = "delete" /\ i \in loc[p].todo
    /\ i[2] \in exists
    /\ Become(p, [loc[p] EXCEPT !.pc = "remove", !.item = i, !.seen = owners[i[2]]])
    /\ held' = held \cup {p}
    /\ UNCHANGED <<crVars, queue, timer, exists, owners, history, faults>>

\* (A variant with a fault: the other owners are not looked at.)
OtherOwnersIgnored(p) == {}

\* newOwnerRefs: who is left when this owner is struck out.
OtherOwners(p) == loc[p].seen \ {loc[p].me}

\* We are the last one: Delete, without a precondition on the version, so that
\* the other controller may have made its owner one meanwhile.
DeleteObject(p) ==
    /\ loc[p].pc = "remove"
    /\ OtherOwners(p) = {}
    /\ RemoveAsset(loc[p].item[2])
    /\ FinishDelete(p, loc[p].item)
    /\ Disturb(owners[loc[p].item[2]] \ (loc[p].seen \cup {loc[p].me}))
    /\ UNCHANGED <<crVars, timer, edits, losses, faults>>

DropOwner(p) ==
    /\ loc[p].pc = "remove"
    /\ OtherOwners(p) # {}
    /\ p \in held
    /\ StoreOwners(loc[p].item[2], OtherOwners(p))
    /\ FinishDelete(p, loc[p].item)
    /\ UNCHANGED <<crVars, queue, timer, exists, history, faults>>

\* Delete or Update fails, or the Update meets a newer version: all ignored.
RemoveFails(p) ==
    /\ loc[p].pc = "remove"
    /\ \/ OtherOwners(p) # {} /\ p \notin held /\ UNCHANGED faults
       \/ Fail("write")
    /\ FinishDelete(p, loc[p].item)
    /\ held' = held \ {p}
    /\ Disturb({loc[p].me})
    /\ UNCHANGED <<crVars, queue, timer, exists, owners, edits, losses>>

\* (A variant with a fault: a deleted owner is activated after its cleanup.)
EndDeletesActivates(p) ==
    /\ loc[p].pc = "delete" /\ loc[p].todo = {}
    /\ Become(p, [loc[p] EXCEPT !.pc = "create"])
    /\ UNCHANGED <<crVars, queue, timer, apiVars, history, faults>>

\* The deleting loop is over.
EndDeletes(p) ==
    /\ loc[p].pc = "delete" /\ loc[p].todo = {}
    /\ Become(p, [loc[p] EXCEPT !.pc = IF loc[p].cleanup THEN "finalizer" ELSE "create"])
    /\ UNCHANGED <<crVars, queue, timer, apiVars, history, faults>>

-----------------------------------------------------------------------------
(* The creating loop of ActivatePipelines *)

\* The next key, with an asset list from the status.
VisitKey(p, k) ==
    /\ loc[p].pc = "create" /\ k \in loc[p].keys
    /\ Listed(loc[p].lists[k]) # {}
    /\ Become(p, [loc[p] EXCEPT !.pc = "assets", !.keys = loc[p].keys \ {k}, !.loaded = {},
                     !.todo = {k} \X Listed(loc[p].lists[k])])
    /\ UNCHANGED <<crVars, queue, timer, apiVars, history, faults>>

\* (A variant with a fault: the Status of a new list entry is not set.)
LoadKeyUnset(p, k) ==
    /\ loc[p].pc = "create" /\ k \in loc[p].keys
    /\ Listed(loc[p].lists[k]) = {}
    /\ \E m \in Contents[k] :
         Become(p, [loc[p] EXCEPT !.pc = "assets", !.keys = loc[p].keys \ {k}, !.loaded = m,
                       !.lists = [loc[p].lists EXCEPT ![k] =
                                    [a \in Assets |-> IF a \in m THEN "" ELSE "none"]],
                       !.todo = {k} \X m])
    /\ UNCHANGED <<crVars, queue, timer, apiVars, history, faults>>

\* The next key, without one: the manifests that GetManifests renders become
\* the asset list.
LoadKey(p, k) ==
    /\ loc[p].pc = "create" /\ k \in loc[p].keys
    /\ Listed(loc[p].lists[k]) = {}
    /\ \E m \in Contents[k] :
         /\ Become(p, [loc[p] EXCEPT !.pc = "assets", !.keys = loc[p].keys \ {k}, !.loaded = m,
                          !.lists = [loc[p].lists EXCEPT ![k] =
                                       [a \in Assets |-> IF a \in m THEN "unknown" ELSE "none"]],
                          !.todo = {k} \X m])
         /\ Disturb(IF m = Usual[k] THEN {} ELSE {loc[p].me})
    /\ UNCHANGED <<crVars, queue, timer, apiVars, edits, losses, faults>>

LoadKeyFails(p, k) ==
    /\ loc[p].pc = "create" /\ k \in loc[p].keys
    /\ Listed(loc[p].lists[k]) = {}
    /\ Fail("manifest")
    /\ Become(p, [loc[p] EXCEPT !.keys = loc[p].keys \ {k}, !.broken = loc[p].broken \cup {k}])
    /\ UNCHANGED <<crVars, queue, timer, apiVars, history>>

\* Get fails: the asset is unknown, for which the operator tries again and the
\* stack controller does not.
CheckFails(p, i) ==
    /\ loc[p].pc = "assets" /\ i \in loc[p].todo
    /\ Fail("get")
    /\ FinishAsset(p, i, "unknown")
    /\ Disturb(Stacks \cap {loc[p].me})
    /\ UNCHANGED <<crVars, queue, timer, apiVars, edits, losses>>

\* The object is there and has our owner reference.
CheckOwned(p, i) ==
    /\ loc[p].pc = "assets" /\ i \in loc[p].todo
    /\ i[2] \in exists /\ loc[p].me \in owners[i[2]]
    /\ FinishAsset(p, i, "active")
    /\ UNCHANGED <<crVars, queue, timer, apiVars, history, faults>>

\* (A variant with a fault: no owner reference is added to what is there.)
CheckUnownedSkips(p, i) ==
    /\ loc[p].pc = "assets" /\ i \in loc[p].todo
    /\ i[2] \in exists /\ loc[p].me \notin owners[i[2]]
    /\ FinishAsset(p, i, "active")
    /\ UNCHANGED <<crVars, queue, timer, apiVars, history, faults>>

\* The object is there and lacks our owner reference.
CheckUnowned(p, i) ==
    /\ loc[p].pc = "assets" /\ i \in loc[p].todo
    /\ i[2] \in exists /\ loc[p].me \notin owners[i[2]]
    /\ Become(p, [loc[p] EXCEPT !.pc = "adopt", !.item = i, !.seen = owners[i[2]]])
    /\ held' = held \cup {p}
    /\ UNCHANGED <<crVars, queue, timer, exists, owners, history, faults>>

Adopt(p) ==
    /\ loc[p].pc = "adopt"
    /\ p \in held
    /\ StoreOwners(loc[p].item[2], loc[p].seen \cup {loc[p].me})
    /\ FinishAsset(p, loc[p].item, "active")
    /\ UNCHANGED <<crVars, queue, timer, exists, history, faults>>

\* The error of that Update is logged; the asset is active all the same.
AdoptFails(p) ==
    /\ loc[p].pc = "adopt"
    /\ \/ p \notin held /\ UNCHANGED faults
       \/ Fail("write")
    /\ FinishAsset(p, loc[p].item, "active")
    /\ held' = held \ {p}
    /\ Disturb({loc[p].me})
    /\ UNCHANGED <<crVars, queue, timer, exists, owners, edits, losses>>

\* The object is missing: find its manifest, loading the manifests first when
\* the list came from the status.  A list that no longer names the asset leaves
\* its Status as it was; a manifest of a foreign group is rejected.
CheckMissing(p, i) ==
    /\ loc[p].pc = "assets" /\ i \in loc[p].todo
    /\ i[2] \notin exists
    /\ \E m \in IF loc[p].loaded = {} THEN Contents[i[1]] ELSE {loc[p].loaded} :
         /\ \/ /\ i[2] \in m \ Foreign
               /\ Become(p, [loc[p] EXCEPT !.pc = "apply", !.item = i, !.loaded = m])
            \/ /\ i[2] \in m \cap Foreign
               /\ Become(p, [loc[p] EXCEPT !.todo = loc[p].todo \ {i}, !.loaded = m,
                                !.lists = SetState(loc[p].lists, i, "failed")])
            \/ /\ i[2] \notin m
               /\ Become(p, [loc[p] EXCEPT !.todo = loc[p].todo \ {i}, !.loaded = m])
         /\ Disturb(IF m = Usual[i[1]] THEN {} ELSE {loc[p].me})
    /\ UNCHANGED <<crVars, queue, timer, apiVars, edits, losses, faults>>

CheckMissingFails(p, i) ==
    /\ loc[p].pc = "assets" /\ i \in loc[p].todo
    /\ i[2] \notin exists
    /\ loc[p].loaded = {}
    /\ Fail("manifest")
    /\ FinishAsset(p, i, "failed")
    /\ UNCHANGED <<crVars, queue, timer, apiVars, history>>

\* Manifestival's Apply creates the object, or patches the one that has come up
\* since; InjectOwnerReference set the list of owners to ours, but not on triggers.
Apply(p) ==
    LET a == loc[p].item[2]
    IN  /\ loc[p].pc = "apply"
        /\ exists' = exists \cup {a}
        /\ StoreOwners(a, IF a \in Triggers THEN owners[a] ELSE {loc[p].me})
        /\ FinishAsset(p, loc[p].item, "active")
        /\ Disturb((owners[a] \ {loc[p].me}) \cup (IF a \in Triggers THEN {loc[p].me} ELSE {}))
        /\ UNCHANGED <<crVars, queue, timer, edits, losses, faults>>

ApplyFails(p) ==
    /\ loc[p].pc = "apply"
    /\ Fail("apply")
    /\ FinishAsset(p, loc[p].item, "failed")
    /\ UNCHANGED <<crVars, queue, timer, apiVars, history>>

EndKey(p) ==
    /\ loc[p].pc = "assets" /\ loc[p].todo = {}
    /\ Become(p, [loc[p] EXCEPT !.pc = "create", !.loaded = {}])
    /\ UNCHANGED <<crVars, queue, timer, apiVars, history, faults>>

EndCreates(p) ==
    /\ loc[p].pc = "create" /\ loc[p].keys = {}
    /\ Become(p, [loc[p] EXCEPT !.pc = "status"])
    /\ UNCHANGED <<crVars, queue, timer, apiVars, history, faults>>

-----------------------------------------------------------------------------
(* Reconcile: what happens after the last call about an asset *)

\* The status lists the pipelines of the spec with their map entries.
NewStatus(p) ==
    [uses |-> loc[p].spec,
     assets |-> [k \in Keys |-> IF k \in KeysOf(loc[p].spec) THEN loc[p].lists[k]
                                                              ELSE EmptyList]]

FailedAssets(status) == \E k \in Keys, a \in Assets : status.assets[k][a] = "failed"

\* Gitops is ready when every asset is active and every zip could be read.
GitopsReady(status) ==
    \A k \in Keys, a \in Assets : status.assets[k][a] \in {"none", "active"}

\* (A variant with a fault: a zip that cannot be read is no reason to retry.)
NeedsRetryForAssets(p) == FailedAssets(NewStatus(p))

\* (A variant with a fault: a failed asset is no reason to retry.)
NeedsRetryForZips(p) == loc[p].broken \cap KeysOf(loc[p].spec) # {}

\* A Stack is requeued for failed assets or a manifest error (which makes the
\* version's status an error), a Kabanero when gitops is not ready.
NeedsRetry(p) ==
    \/ loc[p].broken \cap KeysOf(loc[p].spec) # {}
    \/ loc[p].me \in Stacks /\ FailedAssets(NewStatus(p))
    \/ loc[p].me \in Gitops /\ ~GitopsReady(NewStatus(p))

EndReconcile(p) ==
    /\ Become(p, IdleState)
    /\ fresh' = fresh \ {p}

\* Status().Update; storing an equal status makes no new version.
WriteStatus(p) ==
    LET o == loc[p].me
    IN  /\ loc[p].pc = "status"
        /\ p \in fresh
        /\ cr' = [cr EXCEPT ![o].status = NewStatus(p)]
        /\ synced' = IF cr[o].status = NewStatus(p) THEN synced ELSE synced \ {o}
        /\ timer' = IF NeedsRetry(p) THEN timer \cup {o} ELSE timer
        /\ EndReconcile(p)
        /\ UNCHANGED <<cache, queue, apiVars, history, faults>>

\* The update is refused with a conflict or fails.  The stack controller does
\* not look at its result; processStatus of the operator reads the resource
\* anew after a conflict and writes back what it read, and swallows other errors.
WriteStatusFails(p) ==
    /\ loc[p].pc = "status"
    /\ \/ p \notin fresh /\ UNCHANGED <<faults, disturbed>>
       \/ Fail("status") /\ Disturb({loc[p].me})
    /\ timer' = IF NeedsRetry(p) THEN timer \cup {loc[p].me} ELSE timer
    /\ EndReconcile(p)
    /\ UNCHANGED <<cr, cache, synced, queue, apiVars, edits, losses>>

\* Without its finalizer the deleted resource goes.
RemoveFinalizer(p) ==
    LET o == loc[p].me
    IN  /\ loc[p].pc = "finalizer"
        /\ p \in fresh
        /\ cr' = [cr EXCEPT ![o].phase = "gone", ![o].finalizer = FALSE]
        /\ synced' = synced \ {o}
        /\ EndReconcile(p)
        /\ UNCHANGED <<cache, queue, timer, apiVars, history, faults>>

\* (A variant with a fault: the error is not returned to the workqueue.)
RemoveFinalizerFailsUnheard(p) ==
    /\ loc[p].pc = "finalizer"
    /\ \/ p \notin fresh /\ UNCHANGED faults
       \/ Fail("write")
    /\ EndReconcile(p)
    /\ UNCHANGED <<cr, cache, synced, queue, timer, apiVars, history>>

RemoveFinalizerFails(p) ==
    /\ loc[p].pc = "finalizer"
    /\ \/ p \notin fresh /\ UNCHANGED faults
       \/ Fail("write")
    /\ queue' = queue \cup {loc[p].me}
    /\ EndReconcile(p)
    /\ UNCHANGED <<cr, cache, synced, timer, apiVars, history>>

\* The process restarts: it forgets its queue and timers, lists its resources
\* anew and gets a create event for each.
Restart(p) ==
    LET mine == {o \in Owners : ControllerOf(o) = p}
    IN  /\ Fail("crash")
        /\ EndReconcile(p)
        /\ held' = held \ {p}
        /\ cache' = [o \in Owners |-> IF o \in mine THEN cr[o] ELSE cache[o]]
        /\ synced' = synced \cup mine
        /\ queue' = (queue \ mine) \cup {o \in mine : cr[o].phase \in {"live", "deleting"}}
        /\ timer' = timer \ mine
        /\ UNCHANGED <<cr, exists, owners, history>>

-----------------------------------------------------------------------------
DeleteStep(p) ==
    \/ \E i \in loc[p].todo : SkipDelete(p, i) \/ GetForDelete(p, i)
    \/ DeleteObject(p) \/ DropOwner(p) \/ RemoveFails(p) \/ EndDeletes(p)

CreateStep(p) ==
    \/ \E k \in loc[p].keys : VisitKey(p, k) \/ LoadKey(p, k) \/ LoadKeyFails(p, k)
    \/ \E i \in loc[p].todo :
         \/ CheckFails(p, i) \/ CheckOwned(p, i) \/ CheckUnowned(p, i)
         \/ CheckMissing(p, i) \/ CheckMissingFails(p, i)
    \/ Adopt(p) \/ AdoptFails(p) \/ Apply(p) \/ ApplyFails(p)
    \/ EndKey(p) \/ EndCreates(p)

FinishStep(p) ==
    \/ WriteStatus(p) \/ WriteStatusFails(p)
    \/ RemoveFinalizer(p) \/ RemoveFinalizerFails(p)

BeginStep(p, o) ==
    \/ BeginGone(p, o) \/ BeginLive(p, o) \/ BeginNew(p, o) \/ BeginNewFails(p, o)
    \/ BeginCleanup(p, o)

ControllerStep(p) ==
    \/ \E o \in queue : BeginStep(p, o)
    \/ DeleteStep(p) \/ CreateStep(p) \/ FinishStep(p)

Environment ==
    \/ \E o \in Owners : \/ \E s \in Specs[o] : CreateOrEdit(o, s)
                         \/ DeleteOwner(o)
                         \/ DeliverEvent(o)
                         \/ FireTimer(o)
    \/ \E a \in Assets : LoseAsset(a) \/ CollectGarbage(a)

Next ==
    \/ \E p \in Controllers : ControllerStep(p) \/ Restart(p)
    \/ Environment

Spec == Init /\ [][Next]_vars

\* The controllers, the watches, the timers and the garbage collector keep
\* going; nothing is assumed of users, and faults are never forced.
Fairness ==
    /\ \A p \in Controllers : WF_vars(ControllerStep(p))
    /\ \A o \in Owners : WF_vars(DeliverEvent(o)) /\ WF_vars(FireTimer(o))
    /\ \A a \in Assets : WF_vars(CollectGarbage(a))

FairSpec == Spec /\ Fairness

-----------------------------------------------------------------------------
(* Properties *)

TypeOK ==
    /\ cr \in [Owners -> Resource] /\ cache \in [Owners -> Resource]
    /\ synced \subseteq Owners /\ queue \subseteq Owners /\ timer \subseteq Owners
    /\ exists \subseteq Assets /\ owners \in [Assets -> SUBSET Owners]
    /\ loc \in [Controllers -> Local]
    /\ fresh \subseteq Controllers /\ held \subseteq Controllers
    /\ edits \in Nat /\ losses \in Nat /\ faults \in Nat
    /\ disturbed \subseteq Owners

\* A stack or a Kabanero that waits for its finalizer is never at rest: however
\* old the copy is that its controller worked on, whatever fails and whatever
\* users change meanwhile, some event, timer or worker comes back to it.
DeletionGoesOn == \A o \in Owners : cr[o].phase = "deleting" => ~Quiet(o)

\* Nothing is under way that would make the controller look at o again.
Settled(o) == cr[o].phase = "live" /\ Quiet(o)

RecordedActive(o, a) ==
    \E k \in KeysOf(cr[o].status.uses) : cr[o].status.assets[k][a] = "active"

\* The status of a stack at rest tells the truth: an asset that it reports as
\* active exists, and has the owner reference that keeps others from deleting
\* it.  Failures that are retried, restarts, edits of other stacks and whatever
\* the other controller does with shared assets change nothing about that.
ActiveAssetsOwned ==
    \A o \in Owners \ disturbed, a \in Assets :
        Settled(o) /\ RecordedActive(o, a) => a \in exists /\ o \in owners[a]

\* An asset that carries the owner reference of an owner at rest is in the
\* status of that owner, as nothing else remembers what to delete when the
\* pipeline is deactivated, and a zip of its spec renders to it: what was
\* deactivated is gone, and so is all that a deleted owner had.
OwnedAssetsAreRecorded ==
    \A o \in Owners \ disturbed, a \in Assets :
        Quiet(o) /\ o \in owners[a] =>
            /\ cr[o].phase = "live" /\ RecordedActive(o, a)
            /\ \E k \in KeysOf(cr[o].spec) : a \in Usual[k]

\* No work is forgotten: the pipelines of a stack at rest are in place, each
\* asset of every zip that its spec uses.  So a stack with an asset that cannot
\* be applied, as that of a foreign group, never comes to rest.
RestsActivated ==
    \A o \in Owners \ disturbed : Settled(o) =>
        \A k \in KeysOf(cr[o].spec) : \A a \in Usual[k] :
            a \in exists /\ o \in owners[a] /\ cr[o].status.assets[k][a] = "active"

\* Optimistic concurrency does its work: whoever changes the owner references of
\* an object with an Update takes away or adds its own reference and no other.
OwnReferencesOnly ==
    [][\A p \in Controllers :
         DropOwner(p) \/ Adopt(p) =>
            LET a == loc[p].item[2]  me == {loc[p].me}
            IN  owners'[a] \ me = owners[a] \ me]_vars

\* The assets of zip k are in place for o.
Activated(o, k) ==
    \E m \in Contents[k] : \A a \in m \ Foreign :
        /\ a \in exists /\ o \in owners[a]
        /\ cr[o].status.assets[k][a] = "active"

\* Once users leave a stack alone and calls stop failing, every pipeline of its
\* spec gets activated: whatever failed before is tried again.
PipelinesGetActivated ==
    <>[](\A o \in Owners : cr[o].phase = "live" =>
            \A k \in KeysOf(cr[o].spec) : Activated(o, k))

\* ... and only assets stay that a zip in use renders to; the assets of
\* deactivated versions and deleted stacks go.
DeactivatedAssetsGo ==
    <>[](\A a \in exists : \E o \in owners[a] :
            /\ cr[o].phase = "live"
            /\ \E k \in KeysOf(cr[o].spec) : a \in UNION Contents[k])

\* A deleted owner gets through its finalizer.
DeletionCompletes ==
    \A o \in Owners : (cr[o].phase = "deleting") ~> (cr[o].phase = "gone")

-----------------------------------------------------------------------------
(* The promise of AssetOwnership: kept by one controller on its own.         *)

Ownership == INSTANCE AssetOwnership
                 WITH gone <- {o \in Owners : cr[o].phase = "gone"}

\* Whatever fails, restarts or is edited meanwhile, the stack controller makes
\* and shares objects as AssetOwnership says: it never takes an object away
\* from another stack that is registered as its owner.
KeepsOwnership == Ownership!Spec
=============================================================================
