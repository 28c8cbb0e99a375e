---------------------------- MODULE KabaneroReconcile ----------------------------
(****************************************************************************)
(* The reconcile loop of the Kabanero operator: what starts it, what it     *)
(* does in which order, what it writes to the status, and whether and when  *)
(* it asks to be called again.  One worker reconciles one Kabanero at a     *)
(* time.  The components and the featured stacks are seen from outside:     *)
(* they succeed or fail.                                                    *)
(*                                                                          *)
(* Time passes in ticks.  A timer holds the ticks that remain; the          *)
(* workqueue keeps one per Kabanero, and a later request cannot postpone    *)
(* an earlier one.                                                          *)
(****************************************************************************)
EXTENDS Integers, FiniteSets

CONSTANTS
    Kabaneros,     \* Kabanero resources of the watched namespace
    Short,         \* the ticks in the 10 seconds between looks at the webhook
    Step,          \* the ticks in 60 seconds
    MaxDelay,      \* the ticks in 15 minutes
    Worlds,        \* the parts that may be in order at the start
    Faults,        \* the kinds of call that may fail
    MaxEdits,      \* how often users create, edit or delete a Kabanero
    MaxChanges,    \* how often the world around the operator changes
    MaxFaults      \* how many kinds of call fail

\* What a reconcile finds around it.
\*   webhook  the admission webhook is deployed and registered
\*   deps     the other dependencies are ready
\*   hub      the featured stacks can be resolved and stored
Parts == {"webhook", "deps", "hub"}

FaultKinds == {"finalizer", "webhook", "component", "status", "cleanup", "crash"}

ASSUME ReconcileAssumption ==
    /\ Kabaneros # {}
    /\ Short \in Nat \ {0} /\ Step \in Nat \ {0}
    /\ MaxDelay \in Nat /\ Short <= MaxDelay /\ Step <= MaxDelay
    /\ Worlds \subseteq SUBSET Parts
    /\ Faults \subseteq FaultKinds
    /\ MaxEdits \in Nat /\ MaxChanges \in Nat /\ MaxFaults \in Nat

VARIABLES
    cr,       \* the Kabaneros, as the API server stores them
    cache,    \* the same in the operator's informer cache
    synced,   \* the Kabaneros whose cached version is the latest
    queue,    \* the Kabaneros in the workqueue
    timer,    \* the ticks until the workqueue adds a Kabanero by itself
    delay,    \* requeueDelayMap: the last delay asked for
    future,   \* requeueDelayMap: the ticks until that moment has come
    loc,      \* the local state of the worker
    fresh,    \* the worker's copy of the Kabanero is the latest version
    stacks,   \* the spec that a Kabanero's Stacks were made from; 0: no Stacks
    leaving,  \* the Kabaneros whose Stacks are being deleted
    unseen,   \* the Kabaneros with Stacks of which the watch has news
    listed,   \* the Kabaneros that own Stacks in the informer cache
    world,    \* the parts that are in order
    edits, changes,
    failed    \* the kinds of call that have failed: each does so once

vars == <<cr, cache, synced, queue, timer, delay, future, loc, fresh, stacks,
          leaving, unseen, listed, world, edits, changes, failed>>

crVars == <<cr, cache, synced, fresh>>
timeVars == <<timer, delay, future>>
stackVars == <<stacks, leaving, unseen, listed>>
bounds == <<world, edits, changes>>

\* "live" has the operator's finalizer, "new" has not.  A user's edit replaces
\* the spec by one with a new number.
Resource == [phase : {"absent", "new", "live", "deleting", "gone"},
             spec : 0..MaxEdits,
             ready : {"", "True", "False"},
             message : {"", "dependencies", "stacks"}]

NewResource == [phase |-> "absent", spec |-> 0, ready |-> "", message |-> ""]

\* No timer is running: a value later than every other.
NoTimer == MaxDelay + 1

Earlier(d, e) == IF d <= e THEN d ELSE e

Local == [pc : {"idle", "webhook", "components", "status", "decide", "cleanup", "finalizer"},
          me : Kabaneros,
          spec : 0..MaxEdits,     \* the spec that was read
          outcome : {"", "webhook", "error", "stacks", "done", "ready", "not ready"}]

Idle == loc.pc = "idle"

IdleState == [pc |-> "idle", me |-> CHOOSE k \in Kabaneros : TRUE, spec |-> 0, outcome |-> ""]

Init ==
    /\ cr = [k \in Kabaneros |-> NewResource]
    /\ cache = cr
    /\ synced = Kabaneros
    /\ queue = {}
    /\ timer = [k \in Kabaneros |-> NoTimer]
    /\ delay = 0 /\ future = 0
    /\ loc = IdleState
    /\ fresh = FALSE
    /\ stacks = [k \in Kabaneros |-> 0]
    /\ leaving = {} /\ unseen = {} /\ listed = {}
    /\ world \in Worlds
    /\ edits = 0 /\ changes = 0 /\ failed = {}

-----------------------------------------------------------------------------
(* What the steps are built from *)

\* A call of this kind fails.
Fail(kind) ==
    /\ kind \in Faults \ failed
    /\ Cardinality(failed) < MaxFaults
    /\ failed' = failed \cup {kind}

\* The API server stores k: only an equal resource makes no new version.  Who
\* writes from a copy that is the latest gets the new version back.
Store(k, r) ==
    /\ cr' = [cr EXCEPT ![k] = r]
    /\ synced' = IF r = cr[k] THEN synced ELSE synced \ {k}
    /\ UNCHANGED cache

\* Somebody else stores k.
StoreElsewhere(k, r) ==
    /\ Store(k, r)
    /\ fresh' = (fresh /\ loc.me # k)

\* Workqueue.AddAfter: an earlier timer stays.
AddAfter(k, d) == timer' = [timer EXCEPT ![k] = Earlier(timer[k], d)]

\* The worker goes on at step pc; a reconcile that ends forgets its locals.
GoTo(pc, outcome) == loc' = [loc EXCEPT !.pc = pc, !.outcome = outcome]

EndReconcile ==
    /\ loc' = IdleState
    /\ fresh' = FALSE

\* Reconcile returns an error: the workqueue takes k back.  The rate limiter
\* starts with 5 milliseconds, which is no time here.
ReturnError ==
    /\ queue' = queue \cup {loc.me}
    /\ EndReconcile

-----------------------------------------------------------------------------
(* Users, the world, the watches, time *)

\* The admission webhook admits one Kabanero to the namespace.
MayCreate(k) ==
    /\ cr[k].phase = "absent"
    /\ \A o \in Kabaneros : cr[o].phase \in {"absent", "gone"}

CreateOrEdit(k) ==
    /\ edits < MaxEdits
    /\ \/ MayCreate(k)
       \/ cr[k].phase \in {"new", "live"}
    /\ StoreElsewhere(k, [cr[k] EXCEPT !.spec = edits + 1,
                             !.phase = IF cr[k].phase = "absent" THEN "new" ELSE cr[k].phase])
    /\ edits' = edits + 1
    /\ UNCHANGED <<queue, timeVars, loc, stackVars, world, changes, failed>>

DeleteOwner(k) ==
    /\ edits < MaxEdits
    /\ cr[k].phase \in {"new", "live"}
    /\ StoreElsewhere(k, [cr[k] EXCEPT !.phase = IF cr[k].phase = "new" THEN "gone" ELSE "deleting"])
    /\ edits' = edits + 1
    /\ UNCHANGED <<queue, timeVars, loc, stackVars, world, changes, failed>>

\* A part of the world breaks or comes back.  None of this makes an event that
\* the operator watches: the status of a deployment is not its generation.
ChangeWorld(part) ==
    /\ changes < MaxChanges
    /\ world' = IF part \in world THEN world \ {part} ELSE world \cup {part}
    /\ changes' = changes + 1
    /\ UNCHANGED <<crVars, queue, timeVars, loc, stackVars, edits, failed>>

\* The watch on Kabaneros has no predicate: every new version is an event.
DeliverEvent(k) ==
    /\ k \notin synced
    /\ cache' = [cache EXCEPT ![k] = cr[k]]
    /\ synced' = synced \cup {k}
    /\ queue' = queue \cup {k}
    /\ UNCHANGED <<cr, fresh, timeVars, loc, stackVars, bounds, failed>>

\* The watch on Stacks: created, deleted or of a new generation.
DeliverStacks(k) ==
    /\ k \in unseen
    /\ listed' = IF stacks[k] = 0 THEN listed \ {k} ELSE listed \cup {k}
    /\ unseen' = unseen \ {k}
    /\ queue' = queue \cup {k}
    /\ UNCHANGED <<crVars, timeVars, loc, stacks, leaving, bounds, failed>>

\* The stack controller is done with the deletion of k's Stacks.
StacksGone(k) ==
    /\ k \in leaving
    /\ stacks' = [stacks EXCEPT ![k] = 0]
    /\ leaving' = leaving \ {k}
    /\ unseen' = unseen \cup {k}
    /\ UNCHANGED <<crVars, queue, timeVars, loc, listed, bounds, failed>>

\* Time passes only where somebody waits for it, and a timer goes off in its tick.
Tick ==
    /\ \A k \in Kabaneros : timer[k] # 0
    /\ future > 0 \/ \E k \in Kabaneros : timer[k] \in 1..MaxDelay
    /\ timer' = [k \in Kabaneros |-> IF timer[k] \in 1..MaxDelay THEN timer[k] - 1 ELSE timer[k]]
    /\ future' = IF future > 0 THEN future - 1 ELSE 0
    /\ UNCHANGED <<crVars, queue, delay, loc, stackVars, bounds, failed>>

FireTimer(k) ==
    /\ timer[k] = 0
    /\ timer' = [timer EXCEPT ![k] = NoTimer]
    /\ queue' = queue \cup {k}
    /\ UNCHANGED <<crVars, delay, future, loc, stackVars, bounds, failed>>

-----------------------------------------------------------------------------
(* Reconcile *)

\* The worker takes k from the queue and reads it from the cache.
Begin(k, pc) ==
    /\ Idle
    /\ k \in queue
    /\ queue' = queue \ {k}
    /\ loc' = [pc |-> pc, me |-> k, spec |-> cache[k].spec, outcome |-> ""]
    /\ UNCHANGED <<timeVars, stackVars, bounds>>

BeginGone(k) ==
    /\ Idle
    /\ k \in queue
    /\ cache[k].phase \in {"absent", "gone"}
    /\ queue' = queue \ {k}
    /\ UNCHANGED <<crVars, timeVars, loc, stackVars, bounds, failed>>

BeginLive(k) ==
    /\ cache[k].phase = "live"
    /\ Begin(k, "webhook")
    /\ fresh' = (k \in synced)
    /\ UNCHANGED <<cr, cache, synced, failed>>

\* (A variant with a fault: the finalizer is never stored.)
BeginNewUnstored(k) ==
    /\ cache[k].phase = "new" /\ k \in synced
    /\ Begin(k, "webhook")
    /\ fresh' = TRUE
    /\ UNCHANGED <<cr, cache, synced, failed>>

\* The first reconcile adds the finalizer.
BeginNew(k) ==
    /\ cache[k].phase = "new" /\ k \in synced
    /\ Begin(k, "webhook")
    /\ Store(k, [cr[k] EXCEPT !.phase = "live"])
    /\ fresh' = TRUE
    /\ UNCHANGED failed

\* ... unless its Update is refused or fails: the error puts k back.
BeginNewFails(k) ==
    /\ Idle
    /\ k \in queue
    /\ cache[k].phase = "new"
    /\ \/ k \notin synced /\ UNCHANGED failed
       \/ Fail("finalizer")
    /\ UNCHANGED <<crVars, queue, timeVars, loc, stackVars, bounds>>

BeginCleanup(k) ==
    /\ cache[k].phase = "deleting"
    /\ Begin(k, "cleanup")
    /\ fresh' = (k \in synced)
    /\ UNCHANGED <<cr, cache, synced, failed>>

\* The webhook cannot be deployed: an error, and no word in the status.
WebhookFails ==
    /\ loc.pc = "webhook"
    /\ Fail("webhook")
    /\ ReturnError
    /\ UNCHANGED <<cr, cache, synced, timeVars, stackVars, bounds>>

\* The components wait until the webhook is ready.
AwaitWebhook ==
    /\ loc.pc = "webhook"
    /\ IF "webhook" \in world THEN GoTo("components", "") ELSE GoTo("status", "webhook")
    /\ UNCHANGED <<crVars, queue, timeVars, stackVars, bounds, failed>>

ComponentFails ==
    /\ loc.pc = "components"
    /\ Fail("component")
    /\ GoTo("status", "error")
    /\ UNCHANGED <<crVars, queue, timeVars, stackVars, bounds>>

\* All components are deployed, but the featured stacks are not.
StacksFail ==
    /\ loc.pc = "components"
    /\ "hub" \notin world
    /\ GoTo("status", "stacks")
    /\ UNCHANGED <<crVars, queue, timeVars, stackVars, bounds, failed>>

\* Components and stacks are deployed: the delays start anew.
StacksDeployed ==
    /\ loc.pc = "components"
    /\ "hub" \in world
    /\ GoTo("status", "done")
    /\ stacks' = [stacks EXCEPT ![loc.me] = loc.spec]
    /\ unseen' = IF stacks[loc.me] = loc.spec THEN unseen ELSE unseen \cup {loc.me}
    /\ delay' = 0 /\ future' = 0
    /\ UNCHANGED <<crVars, queue, timer, leaving, listed, bounds, failed>>

-----------------------------------------------------------------------------
(* processStatus *)

IsReady == {"webhook", "deps"} \subseteq world

\* What the reconcile goes on with; only the last call of processStatus has
\* its results looked at.
AfterStatus(err) ==
    GoTo("decide", CASE loc.outcome # "done" -> loc.outcome
                     [] loc.outcome = "done" /\ err -> "error"
                     [] loc.outcome = "done" /\ ~err /\ IsReady -> "ready"
                     [] OTHER -> "not ready")

UpdateStatus ==
    /\ loc.pc = "status"
    /\ fresh
    /\ Store(loc.me, [cr[loc.me] EXCEPT !.ready = IF IsReady THEN "True" ELSE "False",
                                        !.message = IF IsReady THEN "" ELSE "dependencies"])
    /\ AfterStatus(FALSE)
    /\ UNCHANGED <<fresh, queue, timeVars, stackVars, bounds, failed>>

\* A conflict: processStatus reads the Kabanero from the cache and stores what
\* it has read, without the readiness it has determined.  It gives up if the
\* cache stays behind or the Kabanero is gone.
UpdateConflict ==
    /\ loc.pc = "status"
    /\ ~fresh
    /\ AfterStatus(loc.me \notin synced \/ cr[loc.me].phase = "gone")
    /\ UNCHANGED <<crVars, queue, timeVars, stackVars, bounds, failed>>

\* Every other error is taken for a success.
UpdateFails ==
    /\ loc.pc = "status"
    /\ Fail("status")
    /\ AfterStatus(FALSE)
    /\ UNCHANGED <<crVars, queue, timeVars, stackVars, bounds>>

-----------------------------------------------------------------------------
(* Whether to be called again *)

RequeueForWebhook ==
    /\ loc.pc = "decide" /\ loc.outcome = "webhook"
    /\ AddAfter(loc.me, Short)
    /\ EndReconcile
    /\ UNCHANGED <<cr, cache, synced, queue, delay, future, stackVars, bounds, failed>>

RequeueForError ==
    /\ loc.pc = "decide" /\ loc.outcome = "error"
    /\ ReturnError
    /\ UNCHANGED <<cr, cache, synced, timeVars, stackVars, bounds, failed>>

\* (A variant with a fault: the reconcile ends without a request.)
RequeueNotReadyNever ==
    /\ loc.pc = "decide" /\ loc.outcome = "not ready"
    /\ EndReconcile
    /\ UNCHANGED <<cr, cache, synced, queue, timeVars, stackVars, bounds, failed>>

RequeueNotReady ==
    /\ loc.pc = "decide" /\ loc.outcome = "not ready"
    /\ AddAfter(loc.me, Step)
    /\ EndReconcile
    /\ UNCHANGED <<cr, cache, synced, queue, delay, future, stackVars, bounds, failed>>

FinishReady ==
    /\ loc.pc = "decide" /\ loc.outcome = "ready"
    /\ EndReconcile
    /\ UNCHANGED <<cr, cache, synced, queue, timeVars, stackVars, bounds, failed>>

\* (A variant with a fault: every failure asks for a retry.)
MayRetryAlways == TRUE

\* determineHowToRequeue: the first time, or past the moment asked for before.
MayRetry == delay = 0 \/ future = 0

\* (A variant with a fault: the delay grows for ever.)
NextDelayUncapped == delay + Step

NextDelay == Earlier(delay + Step, MaxDelay)

AskForRetry ==
    /\ delay' = NextDelay
    /\ future' = NextDelay
    /\ AddAfter(loc.me, NextDelay)
    /\ EndReconcile
    /\ UNCHANGED <<queue, stackVars, bounds>>

\* The status gets the message about the stacks.
RetryStacks ==
    /\ loc.pc = "decide" /\ loc.outcome = "stacks"
    /\ MayRetry
    /\ fresh
    /\ Store(loc.me, [cr[loc.me] EXCEPT !.ready = "False", !.message = "stacks"])
    /\ AskForRetry
    /\ UNCHANGED failed

\* ... or the error of that update is logged.
RetryStacksUnrecorded ==
    /\ loc.pc = "decide" /\ loc.outcome = "stacks"
    /\ MayRetry
    /\ \/ ~fresh /\ UNCHANGED failed
       \/ Fail("status")
    /\ AskForRetry
    /\ UNCHANGED <<cr, cache, synced>>

\* Too early: the request made before is trusted to bring the worker back.
TrustEarlierRetry ==
    /\ loc.pc = "decide" /\ loc.outcome = "stacks"
    /\ ~MayRetry
    /\ EndReconcile
    /\ UNCHANGED <<cr, cache, synced, queue, timeVars, stackVars, bounds, failed>>

-----------------------------------------------------------------------------
(* Deletion *)

\* The first thing that cleanup waits for: the Stacks that the cache lists.
CleanupBlocked ==
    /\ loc.pc = "cleanup"
    /\ loc.me \in listed
    /\ IF stacks[loc.me] # 0 /\ loc.me \notin leaving
       THEN /\ leaving' = leaving \cup {loc.me}
            /\ unseen' = unseen \cup {loc.me}
       ELSE UNCHANGED <<leaving, unseen>>
    /\ ReturnError
    /\ UNCHANGED <<cr, cache, synced, timeVars, stacks, listed, bounds, failed>>

\* Any other call of cleanup fails.
CleanupFails ==
    /\ loc.pc = "cleanup"
    /\ Fail("cleanup")
    /\ ReturnError
    /\ UNCHANGED <<cr, cache, synced, timeVars, stackVars, bounds>>

CleanupDone ==
    /\ loc.pc = "cleanup"
    /\ loc.me \notin listed
    /\ GoTo("finalizer", "")
    /\ UNCHANGED <<crVars, queue, timeVars, stackVars, bounds, failed>>

RemoveFinalizer ==
    /\ loc.pc = "finalizer"
    /\ fresh
    /\ Store(loc.me, [cr[loc.me] EXCEPT !.phase = "gone"])
    /\ EndReconcile
    /\ UNCHANGED <<queue, timeVars, stackVars, bounds, failed>>

\* (A variant with a fault: the error is not returned.)
RemoveFinalizerForgotten ==
    /\ loc.pc = "finalizer"
    /\ \/ ~fresh /\ UNCHANGED failed
       \/ Fail("finalizer")
    /\ EndReconcile
    /\ UNCHANGED <<cr, cache, synced, queue, timeVars, stackVars, bounds>>

RemoveFinalizerFails ==
    /\ loc.pc = "finalizer"
    /\ \/ ~fresh /\ UNCHANGED failed
       \/ Fail("finalizer")
    /\ ReturnError
    /\ UNCHANGED <<cr, cache, synced, timeVars, stackVars, bounds>>

\* The operator restarts: queue, timers and delays are lost, everything is
\* listed anew.
Restart ==
    /\ Fail("crash")
    /\ EndReconcile
    /\ cache' = cr /\ synced' = Kabaneros
    /\ queue' = {k \in Kabaneros : cr[k].phase \in {"new", "live", "deleting"}}
    /\ timer' = [k \in Kabaneros |-> NoTimer]
    /\ delay' = 0 /\ future' = 0
    /\ listed' = {k \in Kabaneros : stacks[k] # 0}
    /\ unseen' = {}
    /\ UNCHANGED <<cr, stacks, leaving, bounds>>

-----------------------------------------------------------------------------
BeginStep(k) ==
    BeginGone(k) \/ BeginLive(k) \/ BeginNew(k) \/ BeginNewFails(k) \/ BeginCleanup(k)

DeployStep ==
    WebhookFails \/ AwaitWebhook \/ ComponentFails \/ StacksFail \/ StacksDeployed

StatusStep == UpdateStatus \/ UpdateConflict \/ UpdateFails

DecideStep ==
    \/ RequeueForWebhook \/ RequeueForError \/ RequeueNotReady \/ FinishReady
    \/ RetryStacks \/ RetryStacksUnrecorded \/ TrustEarlierRetry

CleanupStep ==
    CleanupBlocked \/ CleanupFails \/ CleanupDone \/ RemoveFinalizer \/ RemoveFinalizerFails

Worker ==
    \/ \E k \in Kabaneros : BeginStep(k)
    \/ DeployStep \/ StatusStep \/ DecideStep \/ CleanupStep

Environment ==
    \/ \E k \in Kabaneros :
         CreateOrEdit(k) \/ DeleteOwner(k) \/ DeliverEvent(k) \/ DeliverStacks(k)
            \/ StacksGone(k) \/ FireTimer(k)
    \/ \E part \in Parts : ChangeWorld(part)
    \/ Tick

Next == Worker \/ Environment \/ Restart

Spec == Init /\ [][Next]_vars

\* Nothing is under way that does not wait for time to pass.
AtRest == Idle /\ queue = {} /\ synced = Kabaneros /\ unseen = {}

\* The worker, the watches and the stack controller keep going, and time passes
\* while the worker waits for it; users, the world and faults are free.
Fairness ==
    /\ WF_vars(Worker) /\ WF_vars(AtRest /\ Tick)
    /\ \A k \in Kabaneros :
         WF_vars(DeliverEvent(k)) /\ WF_vars(DeliverStacks(k))
            /\ WF_vars(StacksGone(k)) /\ WF_vars(FireTimer(k))

FairSpec == Spec /\ Fairness

-----------------------------------------------------------------------------
(* Properties *)

TypeOK ==
    /\ cr \in [Kabaneros -> Resource] /\ cache \in [Kabaneros -> Resource]
    /\ synced \subseteq Kabaneros /\ queue \subseteq Kabaneros
    /\ timer \in [Kabaneros -> 0..NoTimer]
    /\ delay \in 0..MaxDelay /\ future \in 0..MaxDelay
    /\ loc \in Local /\ fresh \in BOOLEAN
    /\ stacks \in [Kabaneros -> 0..MaxEdits]
    /\ leaving \subseteq Kabaneros /\ unseen \subseteq Kabaneros /\ listed \subseteq Kabaneros
    /\ world \subseteq Parts /\ failed \subseteq Faults
    /\ edits \in 0..MaxEdits /\ changes \in 0..MaxChanges

\* A Kabanero has Stacks only when it has the finalizer, or had it: nothing else
\* waits for the Stacks' own clean-up when it is deleted.
OwnersHaveFinalizer ==
    \A k \in Kabaneros : stacks[k] # 0 => cr[k].phase \notin {"absent", "new"}

\* As long as the hub is there and no status update fails, a Kabanero gets ready
\* when its dependencies do, although no event tells the operator of it.
BecomesReady ==
    []("hub" \in world /\ "status" \notin failed) =>
        (<>[](IsReady) => <>[](\A k \in Kabaneros :
            cr[k].phase = "live" => cr[k].ready = "True" /\ stacks[k] = cr[k].spec))

\* The operator comes to rest although its own status updates are events to it,
\* and two of them contradict each other while the featured stacks fail: unless
\* its reconciles go on for longer than the delays, it waits for the next timer.
ComesToRest == <>[][Tick => AtRest]_vars => []<>AtRest

\* A deleted Kabanero goes, whatever fails or restarts meanwhile.
DeletionCompletes ==
    \A k \in Kabaneros : (cr[k].phase = "deleting") ~> (cr[k].phase = "gone")

\* "If something goes wrong, update the status and try again later": when the
\* operator rests, a live Kabanero without its featured stacks has a timer.
FailuresAreRetried ==
    \A k \in Kabaneros :
        AtRest /\ cr[k].phase = "live" /\ stacks[k] # cr[k].spec => timer[k] # NoTimer
=============================================================================
