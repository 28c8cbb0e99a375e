# A TLA+ model of the Kabanero operator

The repository holds four programs that run as separate processes in a
Kubernetes cluster and talk to each other only through API objects:

| process | source | works on |
|---|---|---|
| Kabanero operator | `cmd/manager`, `pkg/controller/kabaneroplatform` | `Kabanero` resources |
| stack controller | `cmd/manager/stack`, `pkg/controller/stack` | `Stack` resources |
| devfile registry controller | `cmd/devfile-registry-controller`, `pkg/controller/devfileregistry` | files made from `Stack` resources |
| admission webhook | `cmd/admission-webhook`, `pkg/webhook` | writes of `Kabanero` and `Stack` |

The operator and the stack controller share `pkg/controller/utils`: the
activation of pipelines (`pipelines.go`), archives, and the two download caches.

## Inventory

For each component: its state, its operations, its partners, what is hard, and
what makes it right.

**Pipeline activation** (`utils/pipelines.go`, `transforms/owner.go`). State:
the owner references of Tekton objects, and `status...pipelines[].activeAssets`
of the resource. `ActivatePipelines` counts the uses of each pipeline zip, deletes
the assets of the zips that are no longer used and creates the missing ones;
`DeleteAsset` drops an owner or deletes the object. Used by the stack controller
and by the gitops part of the operator at the same time, on shared objects. Hard:
read-then-write on objects of others, failing calls in the middle, a status that
is the only memory of what was created. Right when: nothing in use is deleted,
what is not used is deleted, what is reported active is there.

**Stack controller** (`stack_controller.go`). State: finalizer and status of the
Stack, its workqueue and timers. `Reconcile`, `processDeletion`, `cleanup`.
Hard: it works on a cached resource, ignores the result of the status update, and
must retry what no event announces. Right when: every stack gets activated in
the end and every deleted one goes.

**Download caches** (`utils/cache`). State: two maps shared by all goroutines of
the process, two locks, one purge ticker. Hard: the lock is dropped during the
request; purge and write-back interleave. Right when: data is never older than the
call, and what is returned without an error is data.

**Featured stacks** (`featured_stacks.go`, `stack/resolver.go`, `pkg/webhook/stack`).
State: the Stack resources, as stored and as the operator's cache has them, and what the
hubs serve. Resolves the indexes of all repositories, deletes and trims what is no longer
featured, creates and updates the rest; the webhook strips image tags and refuses
what is not well-formed. Hard: reads from a cache what it has just changed; users and
the stack controller write the same resources; a loop that ends early, ignored errors.
Right when: versions with a desired state are left alone, and the others follow the hub.

**Kabanero reconcile loop** (`kabaneroplatform_controller.go`). Runs the
components in order, `processStatus`, `determineHowToRequeue` with growing delays.
Hard: the map of delays against the timers of the workqueue; a status update with
retries. Right when: an unfinished reconcile is always tried again.

**Component installs** (`admission_controller_webhook.go`, `stack-controller.go`, `landing.go`,
`cli.go`, `codereadyworkspaces.go`, `events.go`, `sso.go`, `targetnamespaces.go`,
`devfile-registry.go`). State: the objects of each component in the cluster, three secrets,
role bindings in the target namespaces. Each function renders a manifest and applies it, or
removes it if the component is switched off; secrets are generated if they are not there.
Hard: errors that end the reconcile halfway and errors that are dropped, secrets looked up
in a cache, bindings that are only created where the status does not list them. Right
when: what is installed comes to be what the spec asks for, and no secret is made twice.

**Kabanero deletion** (`cleanup` there, `cleanupStackController`). The finalizer
waits until the owned stacks are gone, then removes what garbage collection does
not. Hard: the stacks need a stack controller that is still deployed. Right when: the
Kabanero goes in the end, with everything outside its namespace, and not before its stacks.

**Readiness** (`get...Status` in the files of the components, and in `appsody.go`, `tekton.go`,
`serverless.go`, `kappnav.go`, which belong to components that others install). Thirteen
functions, each with a row of reads. Hard: what they read changes meanwhile, and so does
the Kabanero; errors that leave an old status in place; a panic. Right when: ready means that
all are, and a Kabanero that is not ready tells why.

**Image digests** (`getStatusImageDigest`, `retrieveImageDigest`). State: the digests in the
status of a Stack. Hard: the status may be refused or read from an old cache; the registry,
its secret and the image change meanwhile. Right when: a digest is captured once per
activation, and in the end it is.

**Devfile registry** (`pkg/controller/devfileregistry`). State: `/devfiles` in the container.
Rewrites the files of a stack and the index in place. Hard: a restart or an error between two
files, stacks that are gone before their deletion is seen. Right when: the index leads to what is there,
and both follow the stacks.

**Admission webhook** (`cmd/admission-webhook`, `pkg/webhook`). No state of its own: one Kabanero per
namespace (list, then admit), what is required of a Stack.

**Software revisions** (`pkg/versioning`), **API types**, **secrets, transforms,
HTTP and TLS clients**: pure look-ups and data.

## Modules

| module | what it is |
|---|---|
| `PipelineUse` | the use counts of `ActivatePipelines` as operators over sets of pipeline entries |
| `PipelineUseHistory` | the spec and the status of one component over edits and reconciles; `EXTENDS PipelineUse` |
| `AssetOwnership` | abstract: how owners make, join, leave and lose objects |
| `StackController` | both controllers, one step per API call; `EXTENDS PipelineUse`, claims `AssetOwnership!Spec` |
| `RemoteRead` | abstract: a call returns what its source held during the call, or no data |
| `DownloadCache` | both caches, one step per critical section or request; claims `RemoteRead!Spec` |
| `KabaneroReconcile` | the reconcile loop of the operator: watches, order of the steps, requeues, delays, status, finalizer |
| `ComponentInstalls` | what the steps of that loop install, replace and remove, and what the deletion takes back, call by call |
| `ComponentStatus` | what `processStatus` reads, read by read, and what it says of each component |
| `FeaturedStacks` | how Stack resources follow the stack hubs, with admission and a stale cache |
| `ImageDigest` | how the stack controller captures activation digests |
| `DevfileRegistry` | the files and the index of the devfile registry |
| `StackControllerProofs` (with those of `PipelineUse` and `PipelineUseHistory`), `DownloadCacheProofs`, `KabaneroReconcileProofs`, `FeaturedStacksProofs`, `ComponentInstallsProofs`, `ComponentStatusProofs`, `ImageDigestProofs`, `DevfileRegistryProofs` | the theorems |
| `MCStackController`, `MCTwoControllers`, `MCDownloadCache`, `MCKabaneroReconcile`, `MCComponentInstalls`, `MCComponentStatus`, `MCFeaturedStacks`, `MCImageDigest`, `MCDevfileRegistry` | instances for TLC (`PipelineUseHistory` needs none) |

The operator's reconcile is in three modules, since one with the timers, the objects and the
reads together could not be checked. `KabaneroReconcile` has what brings the operator back and when;
there a step succeeds or fails as a whole. `ComponentInstalls` has what the steps do; there the
operator may start at any time from the latest version of the Kabanero. `ComponentStatus` has
what is found out at the end; there the installation succeeds or fails. `FeaturedStacks` is the
last step of the installation in the same way.

### From the code to the state

*PipelineUse.* A pipeline list is a `listType=map` keyed by id and sha256
(`stack_types.go:59-62`), so the spec and the status of a component are SETS of
`[version, id, key]`. `Keys` are the values of `PipelineUseMapKey`; an inactive version
contributes nothing (`GetPipelines`). `UseCount` counts once per entry
(`pipelines.go:73`) but is adjusted once per pair of version and zip
(`pipelines.go:117-135`). `PipelineUseHistory` adds who writes these two sets: users any spec, a reconcile
the pipelines of the spec that it read, each with its entry of the map. Whatever spec the status was written for, the next
reconcile may find another.

*StackController.* `cr` is what the API server stores, `cache` what the informer of
the responsible controller has; `Reconcile` reads the latter, while Tekton objects are
unstructured and so read from the API server. Resource versions are not counted:
`synced`, `fresh` and `held` say which copies are still the latest, and an `Update` needs
that. `loc[p]` holds the local variables of a reconcile, with `pc` naming the call that
comes next. The loops over Go maps and lists are sets from which any element is taken:
Go's map order is random, and the order within a list makes no difference to the
properties. Asset lists are kept per key, since all entries of a status with one key are
deep copies of one map value. Owners are UIDs: a resource that is gone does not come back
(a new one with the same name is another owner). `CollectGarbage` is Kubernetes' garbage
collector. `Restart` loses queue, timers and local state and lists everything anew.

One variable is no state of the code: `disturbed` has the owners that a step has happened to after which the code no longer
knows all about their assets. The actions record it (`Disturb`) and no guard reads it, so nothing is excluded by it; what is said of the
owners that are not disturbed holds in whatever happens to the others. The steps are listed under owners at rest. `Usual` names
one rendering of each zip, so that another one can be told from it.

The operator is modelled as far as gitops goes: it adds its finalizer, activates, writes
the status with `processStatus`, cleans up. What else a Kabanero reconcile does before
and after is not in this module.

*DownloadCache.* Contents of a source are numbered as they are published; the number also
stands for the ETag, or for the id, creation time and size of an asset. What is not in
`Cacheable` comes without them. `idle` abstracts `lastUsed`: it becomes true when 12 hours pass
(`BecomeIdle`), and a purge takes idle entries only. Both caches are in one module since
they share the ticker's `sync.Once` and, by mistake, a lock.

*KabaneroReconcile.* One worker, whose `loc.pc` names the part of `Reconcile` that comes next.
The components and the featured stacks succeed or fail: `world` says which parts of the
surroundings are in order, and changes without an event. `cr`, `cache`, `synced` and `fresh`
are as in `StackController`. `timer` is the workqueue's delayed entry, of which it keeps the
earlier one (`AddAfter`); `delay` and `future` are `requeueDelayMap`, whose key is the namespace
and thus the same for all its Kabaneros. Time is counted in ticks, down to zero; a timer that has run
down fires before the next tick. The rate limiter's first delay of 5 milliseconds is no time. Of
the Stacks the module has only which spec they were made from, what the watch still has to
deliver (`unseen`) and what the informer lists (`listed`). A fault is a kind of call, and each
kind fails at most once. After a conflict of the status update the second attempt
stores what was just read (`kabaneroplatform_controller.go:577`), so the computed readiness is
lost, and the event of whoever caused the conflict is what brings the operator back.

*ComponentInstalls.* `objs` is a set of names, each for the objects of one manifest or one call.
`Owned` ones are in the Kabanero's namespace and have it as owner, so that the garbage collector
takes them; `Unowned` ones are in the cluster or in another namespace. `loc.pc` goes through
`InstallSteps` or `CleanupSteps`, which are the functions in `reconcileFuncs` and `cleanup`, each cut into
the calls that may fail on their own. `CallFails` ends the reconcile at any of them where the code
returns the error; where it drops the error, the action itself has that case. `kept` are the secrets,
`seen` those that the cache has, `generated` counts how often one was made. `loc.recorded` and
`kab.recorded` are `status.targetNamespaces.namespaces`. "che" is a CheCluster that stands, "leaving che" one that is
being deleted, "edited che" one that differs from the spec. `old` is a Kabanero of release 0.8 or
earlier, for which there is no devfile registry and events need a default secret.

*ComponentStatus.* Each part that a readiness function reads has a name, and `amiss` are the parts that are
not as they should be; the sequences give the order of the reads. `loc.at` and `loc.read` are the
function and its next read. A bad version also makes the installation fail, and so does a part that no
function reads ("installs").

*FeaturedStacks.* An image is one of four kinds and a pipeline one of five: what the webhook and the resolver
tell apart. `loc.index` is the resolved index, `todo` the stacks a loop still has to visit, in any order,
since the code loops over a map. The list of the deployed stacks is read from the cache at each step of
the loop instead of once: an event that comes in between is one that comes after the step. The stack controller
appears with what matters here: its finalizer, its status updates, the end of deletions.

*ImageDigest.* A digest is the tagged image with the number of pushes so far. The controller's predicate goes by the
generation, so `news` is an edit that the watch has still to tell of, also when the edit was taken back before. Pipelines are left out: a version
is active when its spec says so. `MayBeChosen` is the choice of a secret, `Accepts` what the registry makes of it.

*DevfileRegistry.* A file is the pair of `devfile.yaml` and `meta.yaml` of a version. `overtaken` is no state of the code:
it marks the stacks that were gone when their deletion was handled.

## Runs

| run | instance | what it shows |
|---|---|---|
| `pipeline_use` | 2 versions, 2 ids, 2 zips, any history of edits and reconciles | zips in use are retained, others dropped (given no duplicates) |
| `stack_controller` | 2 stacks, 2 zips, 2 shared assets, 4 edits, 1 fault (download, apply, restart) | `AssetOwnership` is implemented; activation, clean-up and deletion finish |
| `two_controllers` | 1 stack, 1 Kabanero, 2 zips, 2 assets (one of a foreign group), 3 edits at any time, 1 mishap (a failing read, write or status update, a restart, or an object deleted by somebody else) | the status, the objects and the owner references of whoever is at rest and not disturbed agree, and its work is done; a deletion never comes to rest; an `Update` changes one's own reference only |
| `download_cache` | 2 goroutines, 1 URL with 3 contents (one uncacheable), 1 asset with 2 | cached data matches its validators; downloads are never stale |
| `kabanero_reconcile` | 1 Kabanero, all parts in order or all but one, 1 change of them, 2 actions of users, 1 fault out of six kinds | the operator rests between its timers, the status becomes and stays right, deletion finishes, no Stacks without a finalizer |
| `featured_stacks` | 2 stacks, 2 versions, 2 hubs in 4 states, 1 edit, 1 change or outage of a hub, 1 disturbance (status write, failing write, restart) | versions with a desired state are left alone; the others follow the hubs |
| `devfile_registry` | 2 stacks, 2 versions, 1 good and 1 bad `meta.yaml`, 3 edits, 1 restart or failing write | the index leads to what is on disk; both come to follow the stacks |
| `image_digest` | 2 versions of 1 image, 1 private registry, good and bad secrets, 2 edits, 1 push, 2 changes of the cluster | a digest is captured once per activation, and in the end it is |
| `component_installs` | 1 Kabanero, 2 specs that differ in every component and in the target namespaces, 2 edits, 1 fault or change of the cluster | secrets once, nothing left behind, the stack controller outlives the stacks, each with the exceptions that the property names; the cluster settles to the spec, bindings are made |
| `component_status` | all 13 components, nothing or any one of their parts amiss at first, 1 edit, change or restart | ready means all; ready in the end; the status tells what is amiss |
| `retry_lost` | as `kabanero_reconcile`, no faults, 2 changes | violation: failing featured stacks without a retry |
| `default_binding` | as `component_installs`, 1 spec without target namespaces, no edits, no faults | violation: the own namespace never gets its bindings |

**Bounds.** `MaxEdits` counts users' actions, `MaxLosses` objects deleted by others,
`MaxFaults` failed calls and restarts, `MaxMishaps` these together with the losses or with the changes of the surroundings; `MaxContents` how often a source changes. Four
edits are enough for two stacks to be created, one to switch its zip, and one to be
deleted, in any order; one fault is enough because each error path leads back to a
state that a reconcile can start from, so a second one meets no new situation but a
longer way to it. Two owners and two assets are the least that can share and differ;
`k1` renders to both assets and `k2` to one, so that zips overlap. Two goroutines can overtake each other;
three contents let an entry be replaced twice, so that old, current and newer all differ.
Delays of 1, 2 and 3 ticks for 10 seconds, 60 seconds and 15 minutes keep their order, and the
second growth of the delay meets the cap; the admission webhook admits one Kabanero to
the one namespace that is watched, so one Kabanero is enough. `MaxChanges` counts how often a
part of the surroundings breaks or comes back.

In `component_installs` two edits can switch every component off and on again, and switch it and delete the
Kabanero, each at any point of the installation; one mishap is any single failing call, restart, missing part or
lost namespace at any point. In `component_status` a part that is amiss from the start and one that changes make two,
which is the least that can hide behind each other. In `featured_stacks` the four states of the hubs have every
entry come, go, move to the other hub and be refused, also where the other hub overrides it; the one edit by users and the one write by the stack
controller are enough to make any view of the operator an old one. In `image_digest` two edits activate a version and
deactivate it or change its images. In `devfile_registry` three edits create two stacks and delete or change one.

**What the passing runs leave out, and why.** `stack_controller` lets users edit
a stack only while no reconcile of it runs or is due (`QuietEdits`), and has no failing
reads and writes of objects: with either, the code loses a status or an owner
reference and the liveness properties fail, which is what is described under known departures. `KeepsOwnership` is checked
with one controller (`Gitops = {}`) and no triggers, for the same reason. `two_controllers` has none of these restrictions but the last; the
invariants that a lost status or reference would break speak of the owners that this has not happened to (`disturbed`). It has one
mishap, a lost asset, a failing call or a restart: one is enough for each way to disturb an owner, and the theorems cover the rest.
In `component_installs` nothing that the code does is left out for the sake of a property. Stacks are listed from the cache,
Creates and look-ups fail, statuses are lost; the properties name what is excepted, and three variables of the module that
are no state of the code keep the record: `overlooked` (a clean-up has listed the Stacks before the cache knew of them),
`supposed` (namespaces that the status lists although their bindings may be missing) and `forgotten` (namespaces with bindings
that no status lists).

**Symmetry** is used only in the `DownloadCache` runs, over the goroutines, which no
constant tells apart; those runs check no liveness.

**Deadlock** is not checked where the bounds make the system stop: all the edits made,
all the work done.

**Fairness.** Weak fairness of each controller as a whole (one worker takes the next item
of its queue and goes through the reconcile), of `DeliverEvent` (a watch delivers),
`FireTimer` (`RequeueAfter` adds the item back) and `CollectGarbage`. Nothing is assumed
of users or of which asset a loop takes next, and faults are never forced. That
the timer fires only when the cache is up to date is the one assumption about speed: 60
seconds against the delay of a watch.
`KabaneroReconcile` has weak fairness of its worker, of each watch, of the stack controller
(`StacksGone`), of the timer, and of time while the worker rests (`AtRest /\ Tick`): nothing is
assumed of how long a reconcile takes. `ComesToRest` has the premise that from some moment on
reconciles and watches are faster than the ticks. `BecomesReady` has the premises that the hub is there,
since else `retry_lost` applies, and that no status update fails with an error other than a conflict,
since the code takes those for a success and asks for no further reconcile.
`FeaturedStacks`, `ComponentInstalls` and `ComponentStatus` have weak fairness of the operator's
work, of the watches and of the others who end what is asked of them (the stack controller a deletion, the
operator of CodeReady Workspaces that of a CheCluster). In the first two the operator may start at any time, since
the informers resync and each failure is tried again (after an error of the clean-up that is dropped it is only the
resync that brings the operator back, so `SettlesToSpec` says nothing of how long that takes); in the third it starts only when it is queued, because
that is what `BecomesReady` is about. Its `IsCalledAgain` speaks of the installs of components; failing featured stacks, whose retry
may be lost (`retry_lost`), are none of them. `ImageDigest` has weak fairness of its worker, watch and timer.
`FeaturedStacks` also has strong fairness of `ApplyStack(s)`: Go visits a map in a random order, so a stack that is in the
loop again and again is sooner or later visited before one whose error ends the loop. `DevfileRegistry` has strong fairness of taking each stack from the queue: the workqueue serves in order, so a
stack that waits again and again, behind failing ones, has its turn. The liveness properties all have the premise that
the surroundings are in order from some moment on; what they are is stated in each.

## Proofs

TLAPS checks the following for all values of the constants, under the `ASSUME`s
that the modules name (`UseAssumption`: specs are finite; the others, such as `StackAssumption` or
`FeaturedAssumption`: the constants have their types; `RegistryAssumption` also has that there is a Stack). TLC evaluates the assumptions in every run.

- `StackControllerProofs`, on the use counts. `UsedKeysRetained`: for a zip in use, take an entry of the spec that
  uses it. If its pair is in the status, then an entry of the status counts it and is not
  decremented; if not, it is incremented. The decremented pairs map into
  the counted entries injectively, which bounds the difference. `UnusedKeysDropped`: without
  duplicates that map is onto, so the count is zero. `UsedKeysAlwaysRetained` and `UnusedKeysAlwaysDropped` carry
  both over to any history of edits and reconciles, since `RecordUses` and `EditUses` only make finite sets of entries.
- `StackControllerProofs`, on both controllers. `TypeCorrect` by one lemma per group of actions;
  `LocalUpdate` states once that changing a field of a local record keeps its
  type.
  What a step does to the assets and to the local state is stated once per step (`ActivateEffect`, `CheckMissingEffect`, ..., after the
  actions); the rest is proved from them. `OwnReferences` from `HeldMatches`: as long as the copy of an object is the
  latest version, the owners that were read are those that are stored, so an `Update` that is not refused
  changes one reference. `NoRestWithDeletion` states `DeletionGoesOn`, the invariant that a resource which is being deleted always has its
  clean-up under way or to come, with both controllers and all faults; from `DeletionInv`, see below.
- `StackControllerProofs`, on one controller. `OwnershipIsKept`, for `Gitops = {}` and `Triggers = {}`: every step of the
  system is a step of `AssetOwnership` or a stutter. It needs `OneController`: nobody joins an object between the
  `Get` and the `Delete` or the `Apply`, so what was read then is still true, at most a loss or the garbage collector later.
  Outsiders' deletions, edits, restarts and failures of every kind are included.
- `StackControllerProofs`, on owners at rest. `ActiveAreOwned`, `OwnedAreRecorded` and `WorkIsDone` say that a stack or Kabanero at rest
  owns exactly what its status reports as active, that this exists, and that it is all that its spec asks for. They hold with both controllers,
  any number of owners, edits at any time, losses, restarts and every kind of failing call, for each owner that is not `disturbed`. See below.
- `DownloadCacheProofs`. `TypeCorrect` and `EntriesAlwaysMatch` from the invariant `Matching`, which adds
  that the copies and responses the goroutines hold match as well: without it a
  late write-back could not be shown to keep the property. `DownloadsReadRemote` shows each action
  to be a step of `RemoteRead` or a stutter; it needs `Matching` at the 304 (the ETag
  that the server confirmed belongs to the body in hand) and at the hit of the
  GitHub cache. `UrlsAlwaysReturnData`, an action property, from `CallsHaveData`: a call that was answered has
  data, since a 304 names the contents the server has, and the copy that has its ETag has its body, wherever the entry
  is by then. That an asset's call stays one on an asset keeps the downloads without data apart.
- `KabaneroReconcileProofs`. `TypeCorrect` by one lemma per group of actions.
  `FinalizerBeforeStacks` from the invariant `FinalizerFirst`: a phase only goes forward, so a Kabanero
  that the cache shows with the finalizer, or that the worker is past `processDeletion` with, still has or had
  it at the API server. `OwnersHaveFinalizer` alone is not inductive, as it says nothing of what the
  worker is about to create. `NoRestWithDeletion` and `RestsReady`: see below.
- `FeaturedStacksProofs`. `DesiredVersionsAreKept` from the invariant `ViewInv`: a cached Stack whose version is the
  latest is the stored one. `TrimVersions` and `ApplyStack` write only then, so the version they copy from the
  cache is the user's; `DeleteStale` writes on any view, but then the Stack is on its way out. `TypeCorrect`, by which a
  stored Stack always has versions and only well-formed ones, needs `ViewInv` too: what is kept of a Stack is well-formed
  because the copy it was made from is the stored Stack. `LastRepository` shows that one of the entries for a version is the last.
  `InStepIsLeft` and `ApplyBringsInStep` are action properties that say together that the operator is idempotent: what it writes is in step with
  the hubs, and what is in step is not written. The first is not obvious as the webhook completes what is written
  and a version keeps the desired state that a user gave it; so the Stack to be written is compared with one that others had
  a hand in. Both need `ViewInv`: "as it sees it" and "as it is" are the same for an up-to-date cache.
- `ComponentInstallsProofs`. `SecretsAlwaysMadeOnce` from the invariant `SecretsInv`: a secret that was ever made is
  stored or its Kabanero is gone, and then no reconcile is under way that could make it again. The property
  alone is not inductive, as the count says nothing of what is stored.
  `ControllerAlwaysOutlivesStacks` from `OutliveInv`, with the list read from a cache that may be behind: unless a clean-up has overlooked
  Stacks, `StacksHeld` says that their controller is there. Stacks are only made by a reconcile that is
  past the steps of the controller, and a clean-up only reaches the steps that take the controller away when it saw no Stacks.
  `NothingIsLeftBehind` from `LeftInv` and `BoundInv`, on top of `SecretsInv`: what a clean-up has removed so far stays removed while it goes
  on, as long as its copy of the Kabanero is fresh it works for the right spec, and every namespace with bindings is on record, in the
  stored status or in the one that the reconcile carries, or is `forgotten`. In both the order of the steps is proved
  position by position, as the steps are a sequence. `TypeCorrect` from `SecretsInv` and `EventsInv`: the events' secret
  is made anew when events are switched on again, and `TypeOK` bounds how often: once, and once more for each edit, also
  where the reconcile that makes it works from an older spec.
- `ComponentStatusProofs`. `ReadyAlwaysMeansAll` from the invariant `ReadyInv`: as long as the local `ready` holds, each
  function before `loc.at` has said that its component is ready or off, and nothing else writes a status that
  says "True". The status the reconcile began with may say anything, since it is overwritten component by component.
  `TypeCorrect` from `TypeInv`, which adds that the next read is in the row of its function. A component is said to be
  off where the spec switches it off or where what is amiss means that it is absent; that only KAppNav's function makes such a
  read is the lemma on the rows (`ReadTypes`) and on names (`NotKappnav`).
  `RestsReady`: see below.
- `ImageDigestProofs`. `TypeCorrect`, and `AlwaysCapturedOnce` from the invariant `DigestInv`: what is stored, cached, read and
  about to be written gives no image a digest but its own, the cache is what is stored unless an event is on its way,
  and a digest that was read is kept or dropped. So the status that a reconcile stores, which must have read the latest
  version, never exchanges one. `TypeOK` needs `DigestInv` as well: the tags of the digests are part of it.
  `RestsCaptured`: see below.
- `DevfileRegistryProofs`. `TypeCorrect`, and `LinksAlwaysResolve` from the invariant `IndexInv`, which adds that the
  index is empty when a new one is about to be published. A reconcile that has touched the files ends with that
  new index or with an empty one, or with an error of `genIndex`, and then what could not be read is still on disk. `RestsFollowed`: see below.

### Owners at rest

An owner is at rest when nothing is queued, due or under way for it (`Quiet`). What holds then was decided by
a reconcile that began from a cached copy, visited the assets one by one while others shared, took away or failed them,
and stored a status that may be refused. The properties speak of that moment only, and so say nothing of the steps that lead
there; the inductive invariant is `SettleInv`, which has `Tracked(o)` of each owner that is not disturbed:

- `CacheInv`: what an outdated copy of the owner still tells. An edit that has not been noticed shows in the generation, and
  an owner whose turn is due has none; the copy of one that is being deleted has its last status.
- `OwnedInv`: whatever the owner owns can be found again, from its spec or its status; if it is being deleted, from its
  status alone, since that is what `cleanup` looks at.
- `RestInv`: an owner with no turn due owns what its spec asks for and its status is complete. If a turn is about to
  begin, or began, from an outdated copy, its status will be refused, so the stored one must be complete or a retry be due.
- `RunOK`: the reconcile under way. In the deleting loop, what is owned without need is still on its list;
  in the creating loop, each asset of a zip that was visited is active and owned, or `failed`, or its manifest could not be
  read, and the last two make the reconcile come back.

`WorkInv` adds that each controller works on its own owners and that what is gone has no owners. The invariant
speaks of one owner at a time, so the proof does too: `LoopStep` says what a step of the loops does to the owner it is about,
`LoopSparesOthers` that it leaves all others their references (but for the two ways of `ReferenceTaken`), and one lemma `...Tracks` for each
group of actions shows that `Tracked(o)` stays unless the step disturbs o.

Nothing is excluded by `disturbed`, which no guard and no other variable depends on. The steps that add to it
are the disjuncts of `Disturbs` in the proofs (`DisturbersAreMarked` shows that each is recorded). Each
of them is a place where the code drops the one record it has: the spec changes while a reconcile of it runs or is due
(`EditedMeanwhile`; the status is refused and `Status().Update` is not looked at), a zip is listed twice (`ListedTwice`), an outsider or
the other controller takes the object or the reference (`ReferenceTaken`), an error is logged and forgotten (`ErrorSwallowed`), a trigger is made without
an owner (`MadeUnowned`), a zip changes its contents (`RenderedOtherwise`). On the `two_controllers`
instance TLC finds one of the three invariants violated as soon as the steps of `EditedMeanwhile`, `ReferenceTaken` or `ErrorSwallowed` are not recorded; it has no
duplicates and no triggers, and the zip whose contents change there also has an object that always fails. Failing downloads, applies and reads of gitops, refused
statuses, restarts and failing finalizers are not among them: these the code gets over.

### No work is forgotten

A controller is driven by what wakes it: events, its queue, timers, errors that bring the item back. The hazard in
all of them is a wake-up that gets lost while something is left to do. That the work is done in the end is a liveness
property and beyond the prover; but its safety half is not: *whenever nothing is pending, the goal is reached*. The theorems that
begin with `Rests` and the two `NoRestWithDeletion` say that, for all instances. What is left to TLC is that
the system does come to rest. Each invariant says which of the pending things stands for the missing work.

| theorem | invariant | the liveness property it is a half of |
|---|---|---|
| `ImageDigestProofs!RestsCaptured` | `RetryInv`: a digest that is missing has an edit to be told of, a request, a timer, or a reconcile whose status will be accepted; a request that is served with an outdated copy is not the last one | `DigestsGetCaptured` |
| `ComponentStatusProofs!RestsReady` | `RestInv`: the functions so far have said what the copy of the reconcile asks for, and each stops at the switch of a component that is off; that copy has the latest switches, or the Kabanero is queued again | `BecomesReady` |
| `DevfileRegistryProofs!RestsFollowed` | `FollowInv`: a Stack that is neither queued nor news has its files; an index that is behind has left a Stack in the queue | `FollowsStacks` |
| `KabaneroReconcileProofs!NoRestWithDeletion` | `LeavingInv`: a Kabanero that is being deleted is news, queued, or in the hands of the clean-up | `DeletionCompletes` |
| `KabaneroReconcileProofs!RestsReady` | `RestInv`: a live Kabanero is settled, or news, queued, due, or the reconcile under way works from its latest version and ends well or comes back | `BecomesReady` |
| `StackControllerProofs!NoRestWithDeletion` | `DeletionInv`: no copy that is older than the deletion has its generation; the clean-up is to be noticed, queued, or under way | `DeletionCompletes` |
| `StackControllerProofs!WorkIsDone` (and `OwnedAreRecorded`) | `SettleInv`, above | `PipelinesGetActivated`, `DeactivatedAssetsGo` |

`KabaneroReconcileProofs!RestsReady` has premises: it is for as long as the hub is there and no status update fails
with an error other than a conflict (`Undisturbed`): without the first the run `retry_lost` shows how the retry gets lost, and the
code takes the second for a success. `WorkIsDone` makes an exception of `disturbed`, `RestsFollowed` of `overtaken`.
The others hold with all the faults of their modules.

### What is only model-checked

Liveness (`PipelinesGetActivated`, `DeactivatedAssetsGo`,
`DeletionCompletes`, `BecomesReady`, `ComesToRest`, `FollowsHub`, `FollowsStacks`, `DigestsGetCaptured`,
`SettlesToSpec`, `TargetsGetBound`, `TellsWhatIsAmiss`), which the prover does not reach.
Every other invariant and action property of the passing runs is a theorem.

## Findings

Two runs end in a violation; see `PROJECT.json` for the quotes.

- `retry_lost`: the retry of failing featured stacks gets lost when an earlier timer is pending.
- `default_binding`: a Kabanero without target namespaces never gets the bindings in its own namespace, which
  the code promises as the default: the same default is applied to the empty status, so the namespace counts
  as unchanged and its bindings are updated, never created.

### Known departures

These follow from the code, and the models have them; the properties of the passing runs say where they stop.

- A status update of a Stack whose conflict is ignored leaks assets, if the conflict comes from an edit: the next reconcile works
  for another spec, and what the lost status listed is on record nowhere. If `EditedMeanwhile` is not recorded,
  the `two_controllers` instance breaks `OwnedAssetsAreRecorded`.
- Triggers have no owner when they are created and one when they are found: of two stacks that share a trigger the second takes it away.
- `DeleteAsset` deletes without a precondition: an owner that joins between its `Get` and its `Delete` loses the object.
- The first download from a GitHub release returns no data and no error (`gitCache.go:128` assigns to an inner
  variable); its cache is purged under the wrong lock (`gitCache.go:179`), and is not purged at all if the other cache has
  started the one ticker both share (`sync.Once`).
- A Kabanero whose featured stacks fail is reported ready: `processStatus` does not look at them, and the write of
  `determineHowToRequeue` that says otherwise brings the operator back at once.
- A version that lists one zip under two ids counts it twice and is decremented once, so its assets are never
  deleted; a stack whose asset is `unknown` is not retried; a failed adoption is reported as active.
- Stacks that were just created may be missing from the list that the deletion of a Kabanero waits for; they then
  outlive their controller (`overlooked`).
- The console links are only removed at the deletion if the landing page is wanted at that moment (`landing.go`): switched
  off and deleted before the next reconcile, the Kabanero leaves them; and a deletion of theirs that fails is only logged.
- A binding that could not be created is recorded as made and never made again; the same for a namespace that is deleted and
  made anew between two reconciles. When the look-up of a namespace fails, its bindings are deleted and it is struck from the
  status; if that status is lost, the old record stays and later reconciles only update what is not there (all three: `supposed`).
- A status lost after bindings were made leaves bindings that the deletion does not know of, and so does a `Delete` that fails, as
  its error is not looked at (`forgotten`).
- The cluster-wide roles of the landing page and of the CLI have no owner and nothing removes them (`Roles`).
- `validateCRWInstance` is called without looking at its error (`codereadyworkspaces.go:137`); edits of a CheCluster are put right
  by a later reconcile.
- A Tekton configuration without conditions makes `getTektonStatus` panic (`tekton.go:33`), so that no status is written
  while that lasts. The status of Appsody and events may stay "True" in an error. KAppNav may come without anybody noticing.
- Readiness is found out once: what breaks later, without an event, leaves `ready` as it was.
- A stack that is gone before the devfile registry has handled its deletion keeps its files; a `meta.yaml` that is not yaml keeps
  the index of all stacks from being renewed; between the truncation and the write an empty index is served.
- One entry of a hub that the webhook refuses, or one image in any entry of a stack that cannot be parsed, also where a later
  repository overrides that entry, ends the loop over all stacks; the others get their turn only because
  Go visits a map in a random order.

## Not modelled

In the reconcile loop: the events of owned deployments, CheClusters and namespaces (each brings
the operator back earlier than the models have it), and the message texts.

In the stack controller: the check of image tags (whose error ends the reconcile with the old status, and
which the webhook makes impossible), stack ids that are refused, generation changes of Tekton
objects (only their deletion wakes a stack; users' edits of them change nothing that
the model has), assets of old releases without a namespace, the text of messages.
An error of a failing manifest transform is written to `Status` itself
(`pipelines.go:273`); the transforms used here do not fail.

In the components: the contents of manifests, and with them that an apply may fail when half of one manifest is there (the objects of
one manifest come and go together); the branches for admission webhook 0.4.0 and events 0.1.0; the tables of
`pkg/versioning`, of which only matters that a version may not be found; the images that overrides yield (`common.go`); the
governance policy.

The race of two Kabaneros at admission: the webhook lists and then admits, and nothing in the code guards the
time between; a model of it would say no more than that.

HTTP and TLS clients, archives, directives, transforms, the conversion of `v1alpha1`, the image server of the stack
controller and the start-up of the processes: pure functions, data and I/O.
