------------------------- MODULE KabaneroReconcileProofs -------------------------
(****************************************************************************)
(* The reconcile loop of the Kabanero operator, for any Kabaneros, delays   *)
(* and number of edits, changes, failures and restarts.                     *)
(****************************************************************************)
EXTENDS KabaneroReconcile, TLAPS

-----------------------------------------------------------------------------
(* Types *)

PCs == {"idle", "webhook", "components", "status", "decide", "cleanup", "finalizer"}

Outcomes == {"", "webhook", "error", "stacks", "done", "ready", "not ready"}

\* The types of the variables, in the groups in which the actions change them.
CrType == /\ cr \in [Kabaneros -> Resource] /\ cache \in [Kabaneros -> Resource]
          /\ synced \subseteq Kabaneros /\ fresh \in BOOLEAN
QueueType == queue \subseteq Kabaneros
TimeType == /\ timer \in [Kabaneros -> 0..NoTimer]
            /\ delay \in 0..MaxDelay /\ future \in 0..MaxDelay
StackType == /\ stacks \in [Kabaneros -> 0..MaxEdits]
             /\ leaving \subseteq Kabaneros /\ unseen \subseteq Kabaneros
             /\ listed \subseteq Kabaneros
BoundType == /\ world \subseteq Parts /\ edits \in 0..MaxEdits /\ changes \in 0..MaxChanges

LEMMA TypeGroups ==
    TypeOK <=> /\ CrType /\ QueueType /\ TimeType /\ StackType /\ BoundType
               /\ loc \in Local /\ failed \subseteq Faults
  BY DEF TypeOK, CrType, QueueType, TimeType, StackType, BoundType

LEMMA TypeGroupsNext ==
    TypeOK' <=> /\ CrType' /\ QueueType' /\ TimeType' /\ StackType' /\ BoundType'
                /\ (loc \in Local)' /\ (failed \subseteq Faults)'
  BY DEF TypeOK, CrType, QueueType, TimeType, StackType, BoundType

\* An idle worker has a local state of the right type.
LEMMA IdleStateType == IdleState \in Local
<1>1. (CHOOSE k \in Kabaneros : TRUE) \in Kabaneros
  BY ReconcileAssumption
<1> QED
  BY <1>1, ReconcileAssumption DEF IdleState, Local

LEMMA InitType == Init => TypeOK
<1> SUFFICES ASSUME Init PROVE TypeOK
  OBVIOUS
<1>1. NewResource \in Resource
  BY ReconcileAssumption DEF NewResource, Resource
<1>2. NoTimer \in 0..NoTimer /\ 0 \in 0..MaxDelay
  BY ReconcileAssumption DEF NoTimer
<1>3. CrType
  BY <1>1 DEF Init, CrType
<1>4. TimeType /\ StackType
  BY <1>2, ReconcileAssumption DEF Init, TimeType, StackType
<1>5. BoundType
  BY ReconcileAssumption DEF Init, BoundType
<1> QED
  BY <1>3, <1>4, <1>5, IdleStateType, TypeGroups DEF Init, QueueType

\* What is left alone keeps its type.
LEMMA UnchangedType ==
    ASSUME TypeOK
    PROVE  /\ UNCHANGED crVars => CrType'
           /\ UNCHANGED queue => QueueType'
           /\ UNCHANGED timeVars => TimeType'
           /\ UNCHANGED stackVars => StackType'
           /\ UNCHANGED bounds => BoundType'
           /\ UNCHANGED loc => (loc \in Local)'
           /\ UNCHANGED failed => (failed \subseteq Faults)'
<1>1. UNCHANGED crVars => CrType'
  BY DEF TypeOK, CrType, crVars
<1>2. UNCHANGED timeVars => TimeType'
  BY DEF TypeOK, TimeType, timeVars
<1>3. UNCHANGED stackVars => StackType'
  BY DEF TypeOK, StackType, stackVars
<1>4. UNCHANGED bounds => BoundType'
  BY DEF TypeOK, BoundType, bounds
<1>5. UNCHANGED queue => QueueType'
  BY DEF TypeOK, QueueType
<1>6. /\ UNCHANGED loc => (loc \in Local)'
      /\ UNCHANGED failed => (failed \subseteq Faults)'
  BY DEF TypeOK
<1> QED
  BY <1>1, <1>2, <1>3, <1>4, <1>5, <1>6

Phases == {"absent", "new", "live", "deleting", "gone"}

\* One field of a Kabanero changes.
LEMMA ResourceUpdate ==
    ASSUME NEW r \in Resource
    PROVE  /\ \A x \in Phases : [r EXCEPT !.phase = x] \in Resource
           /\ \A x \in 0..MaxEdits : [r EXCEPT !.spec = x] \in Resource
           /\ \A x \in {"", "True", "False"} : [r EXCEPT !.ready = x] \in Resource
           /\ \A x \in {"", "dependencies", "stacks"} : [r EXCEPT !.message = x] \in Resource
<1>1. \A x \in Phases : [r EXCEPT !.phase = x] \in Resource
  BY DEF Resource, Phases
<1>2. \A x \in 0..MaxEdits : [r EXCEPT !.spec = x] \in Resource
  BY DEF Resource
<1>3. \A x \in {"", "True", "False"} : [r EXCEPT !.ready = x] \in Resource
  BY DEF Resource
<1>4. \A x \in {"", "dependencies", "stacks"} : [r EXCEPT !.message = x] \in Resource
  BY DEF Resource
<1> QED
  BY <1>1, <1>2, <1>3, <1>4

\* A Kabanero has the type of one.
LEMMA CrFields ==
    ASSUME TypeOK, NEW k \in Kabaneros
    PROVE  cr[k] \in Resource /\ cr[k].phase \in Phases
<1>1. cr[k] \in Resource
  BY DEF TypeOK
<1> QED
  BY <1>1 DEF Resource, Phases

\* The Kabanero that is being reconciled is one.
LEMMA MeType == TypeOK => loc.me \in Kabaneros /\ loc.spec \in 0..MaxEdits
  BY DEF TypeOK, Local

LEMMA StoreType ==
    ASSUME TypeOK, NEW k \in Kabaneros, NEW r \in Resource, Store(k, r), fresh' \in BOOLEAN
    PROVE  CrType'
  BY DEF TypeOK, CrType, Store

LEMMA StoreElsewhereType ==
    ASSUME TypeOK, NEW k \in Kabaneros, NEW r \in Resource, StoreElsewhere(k, r)
    PROVE  CrType'
  BY StoreType DEF StoreElsewhere

LEMMA GoToType ==
    ASSUME TypeOK, NEW pc \in PCs, NEW outcome \in Outcomes, GoTo(pc, outcome)
    PROVE  (loc \in Local)'
  BY DEF TypeOK, GoTo, Local, PCs, Outcomes

LEMMA EndType ==
    ASSUME TypeOK, EndReconcile
    PROVE  (loc \in Local)' /\ (UNCHANGED <<cr, cache, synced>> => CrType')
  BY IdleStateType DEF TypeOK, CrType, EndReconcile

LEMMA ReturnErrorType ==
    ASSUME TypeOK, ReturnError
    PROVE  (loc \in Local)' /\ (UNCHANGED <<cr, cache, synced>> => CrType') /\ QueueType'
<1>1. EndReconcile /\ queue' = queue \cup {loc.me}
  BY DEF ReturnError
<1>2. QueueType'
  BY <1>1 DEF TypeOK, QueueType, Local
<1> QED
  BY <1>1, <1>2, EndType

LEMMA FailType ==
    ASSUME TypeOK, NEW kind, Fail(kind)
    PROVE  (failed \subseteq Faults)'
  BY DEF TypeOK, Fail

LEMMA AddAfterType ==
    ASSUME TypeOK, NEW k \in Kabaneros, NEW d \in 0..MaxDelay, AddAfter(k, d)
    PROVE  timer' \in [Kabaneros -> 0..NoTimer]
<1>1. \A t \in 0..NoTimer : Earlier(t, d) \in 0..NoTimer
  BY ReconcileAssumption DEF Earlier, NoTimer
<1> QED
  BY <1>1 DEF TypeOK, AddAfter

-----------------------------------------------------------------------------
(* Each step keeps the types *)

LEMMA EnvironmentType == TypeOK /\ Environment => TypeOK'
<1> SUFFICES ASSUME TypeOK, Environment PROVE TypeOK'
  OBVIOUS
<1> USE TypeGroupsNext, UnchangedType
<1>1. ASSUME NEW k \in Kabaneros, CreateOrEdit(k) PROVE TypeOK'
  <2> DEFINE r == [cr[k] EXCEPT !.spec = edits + 1,
                      !.phase = IF cr[k].phase = "absent" THEN "new" ELSE cr[k].phase]
  <2>0. StoreElsewhere(k, r)
    BY <1>1 DEF CreateOrEdit
  <2>1. BoundType' /\ edits + 1 \in 0..MaxEdits
    BY <1>1, ReconcileAssumption DEF CreateOrEdit, BoundType, TypeOK
  <2>2. r \in Resource
    BY <2>1, CrFields, ResourceUpdate DEF Phases
  <2> HIDE DEF r
  <2>3. CrType'
    BY <2>0, <2>2, StoreElsewhereType
  <2> QED
    BY <1>1, <2>1, <2>3 DEF CreateOrEdit
<1>2. ASSUME NEW k \in Kabaneros, DeleteOwner(k) PROVE TypeOK'
  <2> DEFINE r == [cr[k] EXCEPT !.phase = IF cr[k].phase = "new" THEN "gone" ELSE "deleting"]
  <2>0. StoreElsewhere(k, r)
    BY <1>2 DEF DeleteOwner
  <2>1. BoundType'
    BY <1>2, ReconcileAssumption DEF DeleteOwner, BoundType, TypeOK
  <2>2. r \in Resource
    BY CrFields, ResourceUpdate DEF Phases
  <2> HIDE DEF r
  <2>3. CrType'
    BY <2>0, <2>2, StoreElsewhereType
  <2> QED
    BY <1>2, <2>1, <2>3 DEF DeleteOwner
<1>3. ASSUME NEW part \in Parts, ChangeWorld(part) PROVE TypeOK'
  <2>1. BoundType'
    BY <1>3, ReconcileAssumption DEF ChangeWorld, BoundType, TypeOK
  <2> QED
    BY <1>3, <2>1 DEF ChangeWorld
<1>4. ASSUME NEW k \in Kabaneros, DeliverEvent(k) PROVE TypeOK'
  <2>1. CrType' /\ QueueType'
    BY <1>4 DEF DeliverEvent, CrType, QueueType, TypeOK
  <2> QED
    BY <1>4, <2>1 DEF DeliverEvent
<1>5. ASSUME NEW k \in Kabaneros, DeliverStacks(k) PROVE TypeOK'
  <2>1. StackType' /\ QueueType'
    BY <1>5 DEF DeliverStacks, StackType, QueueType, TypeOK
  <2> QED
    BY <1>5, <2>1 DEF DeliverStacks
<1>6. ASSUME NEW k \in Kabaneros, StacksGone(k) PROVE TypeOK'
  <2>1. StackType'
    BY <1>6, ReconcileAssumption DEF StacksGone, StackType, TypeOK
  <2> QED
    BY <1>6, <2>1 DEF StacksGone
<1>7. ASSUME Tick PROVE TypeOK'
  <2>1. \A k \in Kabaneros :
          (IF timer[k] \in 1..MaxDelay THEN timer[k] - 1 ELSE timer[k]) \in 0..NoTimer
    BY ReconcileAssumption DEF TypeOK, NoTimer
  <2>2. TimeType'
    BY <1>7, <2>1, ReconcileAssumption DEF Tick, TimeType, TypeOK
  <2> QED
    BY <1>7, <2>2 DEF Tick
<1>8. ASSUME NEW k \in Kabaneros, FireTimer(k) PROVE TypeOK'
  <2>1. NoTimer \in 0..NoTimer
    BY ReconcileAssumption DEF NoTimer
  <2>2. TimeType' /\ QueueType'
    BY <1>8, <2>1 DEF FireTimer, TimeType, QueueType, TypeOK
  <2> QED
    BY <1>8, <2>2 DEF FireTimer
<1> QED
  BY <1>1, <1>2, <1>3, <1>4, <1>5, <1>6, <1>7, <1>8 DEF Environment

\* Beginning a reconcile changes the queue and the local state.
LEMMA BeginCommonType ==
    ASSUME TypeOK, NEW k \in Kabaneros, NEW pc \in PCs, Begin(k, pc)
    PROVE  QueueType' /\ (loc \in Local)' /\ TimeType' /\ StackType' /\ BoundType'
<1>1. cache[k].spec \in 0..MaxEdits
  BY DEF TypeOK, Resource
<1>2. (loc \in Local)'
  BY <1>1 DEF Begin, Local, PCs
<1>3. QueueType'
  BY DEF Begin, QueueType, TypeOK
<1> QED
  BY <1>2, <1>3, UnchangedType DEF Begin

LEMMA BeginType == ASSUME TypeOK, NEW k \in Kabaneros, BeginStep(k) PROVE TypeOK'
<1> USE TypeGroupsNext, UnchangedType
<1>1. CASE BeginGone(k)
  <2>1. QueueType'
    BY <1>1 DEF BeginGone, QueueType, TypeOK
  <2> QED
    BY <1>1, <2>1 DEF BeginGone
<1>2. CASE BeginLive(k)
  <2>1. CrType'
    BY <1>2 DEF BeginLive, CrType, TypeOK
  <2> QED
    BY <1>2, <2>1, BeginCommonType DEF BeginLive, PCs
<1>3. CASE BeginNew(k)
  <2>1. [cr[k] EXCEPT !.phase = "live"] \in Resource
    BY CrFields, ResourceUpdate DEF Phases
  <2>2. CrType'
    BY <1>3, <2>1, StoreType DEF BeginNew
  <2> QED
    BY <1>3, <2>2, BeginCommonType DEF BeginNew, PCs
<1>4. CASE BeginNewFails(k)
  <2>1. (failed \subseteq Faults)'
    BY <1>4, FailType DEF BeginNewFails
  <2> QED
    BY <1>4, <2>1 DEF BeginNewFails
<1>5. CASE BeginCleanup(k)
  <2>1. CrType'
    BY <1>5 DEF BeginCleanup, CrType, TypeOK
  <2> QED
    BY <1>5, <2>1, BeginCommonType DEF BeginCleanup, PCs
<1> QED
  BY <1>1, <1>2, <1>3, <1>4, <1>5 DEF BeginStep

LEMMA DeployType == TypeOK /\ DeployStep => TypeOK'
<1> SUFFICES ASSUME TypeOK, DeployStep PROVE TypeOK'
  OBVIOUS
<1> USE TypeGroupsNext, UnchangedType
<1>1. CASE WebhookFails
  BY <1>1, ReturnErrorType, FailType DEF WebhookFails
<1>2. CASE AwaitWebhook
  <2>1. (loc \in Local)'
    BY <1>2, GoToType DEF AwaitWebhook, PCs, Outcomes
  <2> QED
    BY <1>2, <2>1 DEF AwaitWebhook
<1>3. CASE ComponentFails
  BY <1>3, GoToType, FailType DEF ComponentFails, PCs, Outcomes
<1>4. CASE StacksFail
  BY <1>4, GoToType DEF StacksFail, PCs, Outcomes
<1>5. CASE StacksDeployed
  <2>1. loc.me \in Kabaneros /\ loc.spec \in 0..MaxEdits
    BY MeType
  <2>2. StackType'
    BY <1>5, <2>1 DEF StacksDeployed, StackType, TypeOK
  <2>3. TimeType'
    BY <1>5, ReconcileAssumption DEF StacksDeployed, TimeType, TypeOK
  <2> QED
    BY <1>5, <2>2, <2>3, GoToType DEF StacksDeployed, PCs, Outcomes
<1> QED
  BY <1>1, <1>2, <1>3, <1>4, <1>5 DEF DeployStep

LEMMA AfterStatusType ==
    ASSUME TypeOK, NEW err \in BOOLEAN, AfterStatus(err)
    PROVE  (loc \in Local)'
<1>1. loc.outcome \in Outcomes
  BY DEF TypeOK, Local, Outcomes
<1>2. (CASE loc.outcome # "done" -> loc.outcome
         [] loc.outcome = "done" /\ err -> "error"
         [] loc.outcome = "done" /\ ~err /\ IsReady -> "ready"
         [] OTHER -> "not ready") \in Outcomes
  <2>1. CASE loc.outcome # "done"
    BY <1>1, <2>1
  <2>2. CASE loc.outcome = "done"
    BY <2>2 DEF Outcomes
  <2> QED
    BY <2>1, <2>2
<1> QED
  BY <1>2, GoToType DEF AfterStatus, PCs

LEMMA StatusType == TypeOK /\ StatusStep => TypeOK'
<1> SUFFICES ASSUME TypeOK, StatusStep PROVE TypeOK'
  OBVIOUS
<1> USE TypeGroupsNext, UnchangedType
<1>1. CASE UpdateStatus
  <2> DEFINE r == [cr[loc.me] EXCEPT !.ready = IF IsReady THEN "True" ELSE "False",
                                     !.message = IF IsReady THEN "" ELSE "dependencies"]
  <2>1. loc.me \in Kabaneros
    BY MeType
  <2>2. r \in Resource
    BY <2>1, CrFields, ResourceUpdate
  <2>3. Store(loc.me, r) /\ fresh' \in BOOLEAN
    BY <1>1 DEF UpdateStatus, TypeOK
  <2> HIDE DEF r
  <2>4. CrType'
    BY <2>1, <2>2, <2>3, StoreType
  <2> QED
    BY <1>1, <2>4, AfterStatusType DEF UpdateStatus
<1>2. CASE UpdateConflict
  BY <1>2, AfterStatusType DEF UpdateConflict
<1>3. CASE UpdateFails
  BY <1>3, AfterStatusType, FailType DEF UpdateFails
<1> QED
  BY <1>1, <1>2, <1>3 DEF StatusStep

LEMMA AskForRetryType ==
    ASSUME TypeOK, AskForRetry
    PROVE  /\ TimeType' /\ QueueType' /\ StackType' /\ BoundType' /\ (loc \in Local)'
           /\ fresh' \in BOOLEAN
<1>1. NextDelay \in 0..MaxDelay
  BY ReconcileAssumption DEF NextDelay, Earlier, TypeOK
<1>2. loc.me \in Kabaneros
  BY DEF TypeOK, Local
<1>3. TimeType'
  BY <1>1, <1>2, AddAfterType DEF AskForRetry, TimeType
<1> QED
  BY <1>3, EndType, UnchangedType DEF AskForRetry, EndReconcile

LEMMA DecideType == TypeOK /\ DecideStep => TypeOK'
<1> SUFFICES ASSUME TypeOK, DecideStep PROVE TypeOK'
  OBVIOUS
<1> USE TypeGroupsNext, UnchangedType
<1>0. loc.me \in Kabaneros /\ Short \in 0..MaxDelay /\ Step \in 0..MaxDelay
  BY ReconcileAssumption, MeType
<1>1. CASE RequeueForWebhook
  <2>1. TimeType'
    BY <1>0, <1>1, AddAfterType DEF RequeueForWebhook, TimeType, TypeOK
  <2> QED
    BY <1>1, <2>1, EndType DEF RequeueForWebhook
<1>2. CASE RequeueForError
  BY <1>2, ReturnErrorType DEF RequeueForError
<1>3. CASE RequeueNotReady
  <2>1. TimeType'
    BY <1>0, <1>3, AddAfterType DEF RequeueNotReady, TimeType, TypeOK
  <2> QED
    BY <1>3, <2>1, EndType DEF RequeueNotReady
<1>4. CASE FinishReady
  BY <1>4, EndType DEF FinishReady
<1>5. CASE RetryStacks
  <2>1. [cr[loc.me] EXCEPT !.ready = "False", !.message = "stacks"] \in Resource
    BY <1>0, CrFields, ResourceUpdate
  <2>2. CrType'
    BY <1>0, <1>5, <2>1, StoreType, AskForRetryType DEF RetryStacks
  <2> QED
    BY <1>5, <2>2, AskForRetryType DEF RetryStacks
<1>6. CASE RetryStacksUnrecorded
  <2>1. CrType'
    BY <1>6, AskForRetryType DEF RetryStacksUnrecorded, CrType, TypeOK
  <2>2. (failed \subseteq Faults)'
    BY <1>6, FailType DEF RetryStacksUnrecorded
  <2> QED
    BY <1>6, <2>1, <2>2, AskForRetryType DEF RetryStacksUnrecorded
<1>7. CASE TrustEarlierRetry
  BY <1>7, EndType DEF TrustEarlierRetry
<1> QED
  BY <1>1, <1>2, <1>3, <1>4, <1>5, <1>6, <1>7 DEF DecideStep

LEMMA CleanupType == TypeOK /\ CleanupStep => TypeOK'
<1> SUFFICES ASSUME TypeOK, CleanupStep PROVE TypeOK'
  OBVIOUS
<1> USE TypeGroupsNext, UnchangedType
<1>0. loc.me \in Kabaneros
  BY DEF TypeOK, Local
<1>1. CASE CleanupBlocked
  <2>1. StackType'
    BY <1>0, <1>1 DEF CleanupBlocked, StackType, TypeOK
  <2> QED
    BY <1>1, <2>1, ReturnErrorType DEF CleanupBlocked
<1>2. CASE CleanupFails
  BY <1>2, ReturnErrorType, FailType DEF CleanupFails
<1>3. CASE CleanupDone
  BY <1>3, GoToType DEF CleanupDone, PCs, Outcomes
<1>4. CASE RemoveFinalizer
  <2>1. [cr[loc.me] EXCEPT !.phase = "gone"] \in Resource
    BY <1>0, CrFields, ResourceUpdate DEF Phases
  <2>2. CrType'
    BY <1>0, <1>4, <2>1, StoreType DEF RemoveFinalizer, EndReconcile
  <2> QED
    BY <1>4, <2>2, EndType DEF RemoveFinalizer
<1>5. CASE RemoveFinalizerFails
  <2>1. (failed \subseteq Faults)'
    BY <1>5, FailType DEF RemoveFinalizerFails
  <2> QED
    BY <1>5, <2>1, ReturnErrorType DEF RemoveFinalizerFails
<1> QED
  BY <1>1, <1>2, <1>3, <1>4, <1>5 DEF CleanupStep

LEMMA RestartType == TypeOK /\ Restart => TypeOK'
<1> SUFFICES ASSUME TypeOK, Restart PROVE TypeOK'
  OBVIOUS
<1>1. NoTimer \in 0..NoTimer /\ 0 \in 0..MaxDelay
  BY ReconcileAssumption DEF NoTimer
<1>2. CrType' /\ QueueType' /\ TimeType' /\ StackType' /\ BoundType'
  BY <1>1 DEF Restart, EndReconcile, bounds, TypeOK, CrType, QueueType, TimeType,
              StackType, BoundType
<1> QED
  BY <1>2, TypeGroupsNext, EndType, FailType DEF Restart

LEMMA StepType == TypeOK /\ [Next]_vars => TypeOK'
<1> SUFFICES ASSUME TypeOK, [Next]_vars PROVE TypeOK'
  OBVIOUS
<1>1. CASE Worker
  BY <1>1, BeginType, DeployType, StatusType, DecideType, CleanupType DEF Worker
<1>2. CASE UNCHANGED vars
  BY <1>2 DEF vars, TypeOK
<1> QED
  BY <1>1, <1>2, EnvironmentType, RestartType DEF Next

\* The variables keep their types: in particular no delay exceeds the longest
\* one (determineHowToRequeue) and no more calls fail than may.
THEOREM TypeCorrect == Spec => []TypeOK
<1> QED
  BY InitType, StepType, PTL DEF Spec

-----------------------------------------------------------------------------
(* The finalizer comes before the Stacks *)

\* The phases in which a Kabanero has the finalizer, or has lost it again.
Past == {"live", "deleting", "gone"}

\* What the cache shows and what the worker acts on may be outdated, but phases
\* only go forward.
FinalizerFirst ==
    /\ \A k \in Kabaneros : stacks[k] # 0 => cr[k].phase \in Past
    /\ \A k \in Kabaneros : cache[k].phase \in Past => cr[k].phase \in Past
    /\ loc.pc # "idle" => cr[loc.me].phase \in Past

\* Who has had the finalizer stays so.
LEMMA PhasesGoForward ==
    ASSUME TypeOK, FinalizerFirst, [Next]_vars
    PROVE  \A k \in Kabaneros : cr[k].phase \in Past => cr'[k].phase \in Past
<1> SUFFICES ASSUME NEW k \in Kabaneros, cr[k].phase \in Past
             PROVE  cr'[k].phase \in Past
  OBVIOUS
<1>0. loc.me \in Kabaneros /\ cr \in [Kabaneros -> Resource]
  BY DEF TypeOK, Local
<1>1. CASE UNCHANGED cr
  BY <1>1
<1>2. ASSUME NEW o \in Kabaneros, CreateOrEdit(o) PROVE cr'[k].phase \in Past
  BY <1>0, <1>2 DEF CreateOrEdit, StoreElsewhere, Store, Past, Resource
<1>3. ASSUME NEW o \in Kabaneros, DeleteOwner(o) PROVE cr'[k].phase \in Past
  BY <1>0, <1>3 DEF DeleteOwner, StoreElsewhere, Store, Past, Resource
<1>4. ASSUME NEW o \in Kabaneros, BeginNew(o) PROVE cr'[k].phase \in Past
  BY <1>0, <1>4 DEF BeginNew, Store, Past, Resource
<1>5. CASE UpdateStatus
  BY <1>0, <1>5 DEF UpdateStatus, Store, Resource
<1>6. CASE RetryStacks
  BY <1>0, <1>6 DEF RetryStacks, Store, Resource
<1>7. CASE RemoveFinalizer
  BY <1>0, <1>7 DEF RemoveFinalizer, Store, Past, Resource
<1> USE DEF crVars
<1>8. CASE Environment
  BY <1>1, <1>2, <1>3, <1>8
     DEF Environment, DeliverEvent, DeliverStacks, StacksGone, FireTimer, ChangeWorld, Tick
<1>9. ASSUME NEW o \in Kabaneros, BeginStep(o) PROVE cr'[k].phase \in Past
  BY <1>1, <1>4, <1>9 DEF BeginStep, BeginGone, BeginLive, BeginNewFails, BeginCleanup
<1>10. CASE DeployStep
  BY <1>1, <1>10 DEF DeployStep, WebhookFails, AwaitWebhook, ComponentFails, StacksFail,
                     StacksDeployed
<1>11. CASE StatusStep
  BY <1>1, <1>5, <1>11 DEF StatusStep, UpdateConflict, UpdateFails
<1>12. CASE DecideStep
  BY <1>1, <1>6, <1>12 DEF DecideStep, RequeueForWebhook, RequeueForError, RequeueNotReady,
                           FinishReady, RetryStacksUnrecorded, TrustEarlierRetry
<1>13. CASE CleanupStep
  BY <1>1, <1>7, <1>13 DEF CleanupStep, CleanupBlocked, CleanupFails, CleanupDone,
                           RemoveFinalizerFails
<1>14. CASE Restart
  BY <1>1, <1>14 DEF Restart
<1>15. CASE UNCHANGED vars
  BY <1>1, <1>15 DEF vars
<1> QED
  BY <1>8, <1>9, <1>10, <1>11, <1>12, <1>13, <1>14, <1>15 DEF Next, Worker

\* The Stacks: only StacksDeployed makes any, for the Kabanero being reconciled.
LEMMA StacksStep ==
    ASSUME TypeOK, FinalizerFirst, [Next]_vars
    PROVE  \A k \in Kabaneros : stacks'[k] # 0 => cr[k].phase \in Past
<1> SUFFICES ASSUME NEW k \in Kabaneros, stacks'[k] # 0
             PROVE  cr[k].phase \in Past
  OBVIOUS
<1>1. CASE UNCHANGED stacks
  BY <1>1 DEF FinalizerFirst
<1>2. CASE StacksDeployed
  BY <1>2 DEF StacksDeployed, FinalizerFirst, TypeOK
<1>3. ASSUME NEW o \in Kabaneros, StacksGone(o) PROVE cr[k].phase \in Past
  BY <1>3 DEF StacksGone, FinalizerFirst, TypeOK
<1> USE DEF stackVars
<1>4. CASE Environment
  BY <1>1, <1>3, <1>4
     DEF Environment, CreateOrEdit, DeleteOwner, DeliverEvent, DeliverStacks, FireTimer,
         ChangeWorld, Tick
<1>5. ASSUME NEW o \in Kabaneros, BeginStep(o) PROVE cr[k].phase \in Past
  BY <1>1, <1>5 DEF BeginStep, BeginGone, BeginLive, BeginNew, BeginNewFails, BeginCleanup, Begin
<1>6. CASE DeployStep
  BY <1>1, <1>2, <1>6 DEF DeployStep, WebhookFails, AwaitWebhook, ComponentFails, StacksFail
<1>7. CASE StatusStep
  BY <1>1, <1>7 DEF StatusStep, UpdateStatus, UpdateConflict, UpdateFails
<1>8. CASE DecideStep
  BY <1>1, <1>8 DEF DecideStep, RequeueForWebhook, RequeueForError, RequeueNotReady,
                    FinishReady, RetryStacks, RetryStacksUnrecorded, AskForRetry,
                    TrustEarlierRetry
<1>9. CASE CleanupStep
  BY <1>1, <1>9 DEF CleanupStep, CleanupBlocked, CleanupFails, CleanupDone, RemoveFinalizer,
                    RemoveFinalizerFails
<1>10. CASE Restart
  BY <1>1, <1>10 DEF Restart
<1>11. CASE UNCHANGED vars
  BY <1>1, <1>11 DEF vars
<1> QED
  BY <1>4, <1>5, <1>6, <1>7, <1>8, <1>9, <1>10, <1>11 DEF Next, Worker

\* The cache: it shows what was stored before the step, or is left alone.
LEMMA CacheStep ==
    ASSUME TypeOK, FinalizerFirst, [Next]_vars
    PROVE  \A k \in Kabaneros : cache'[k].phase \in Past => cr[k].phase \in Past
<1> SUFFICES ASSUME NEW k \in Kabaneros, cache'[k].phase \in Past
             PROVE  cr[k].phase \in Past
  OBVIOUS
<1>1. CASE UNCHANGED cache
  BY <1>1 DEF FinalizerFirst
<1>2. ASSUME NEW o \in Kabaneros, DeliverEvent(o) PROVE cr[k].phase \in Past
  BY <1>2 DEF DeliverEvent, FinalizerFirst, TypeOK
<1>3. CASE Restart
  BY <1>3 DEF Restart
<1> USE DEF crVars, StoreElsewhere, Store
<1>4. CASE Environment
  BY <1>1, <1>2, <1>4
     DEF Environment, CreateOrEdit, DeleteOwner, DeliverStacks, StacksGone, FireTimer,
         ChangeWorld, Tick
<1>5. ASSUME NEW o \in Kabaneros, BeginStep(o) PROVE cr[k].phase \in Past
  BY <1>1, <1>5 DEF BeginStep, BeginGone, BeginLive, BeginNew, BeginNewFails, BeginCleanup
<1>6. CASE DeployStep
  BY <1>1, <1>6 DEF DeployStep, WebhookFails, AwaitWebhook, ComponentFails, StacksFail,
                    StacksDeployed
<1>7. CASE StatusStep
  BY <1>1, <1>7 DEF StatusStep, UpdateStatus, UpdateConflict, UpdateFails
<1>8. CASE DecideStep
  BY <1>1, <1>8 DEF DecideStep, RequeueForWebhook, RequeueForError, RequeueNotReady,
                    FinishReady, RetryStacks, RetryStacksUnrecorded, TrustEarlierRetry
<1>9. CASE CleanupStep
  BY <1>1, <1>9 DEF CleanupStep, CleanupBlocked, CleanupFails, CleanupDone, RemoveFinalizer,
                    RemoveFinalizerFails
<1>10. CASE UNCHANGED vars
  BY <1>1, <1>10 DEF vars
<1> QED
  BY <1>3, <1>4, <1>5, <1>6, <1>7, <1>8, <1>9, <1>10 DEF Next, Worker

\* The worker: it takes up only what the cache shows with the finalizer, or
\* what it has just given it.
LEMMA WorkerStep ==
    ASSUME TypeOK, FinalizerFirst, [Next]_vars
    PROVE  loc'.pc # "idle" => cr'[loc'.me].phase \in Past
<1> SUFFICES ASSUME loc'.pc # "idle" PROVE cr'[loc'.me].phase \in Past
  OBVIOUS
<1>1. ASSUME loc'.me = loc.me, loc.pc # "idle" PROVE cr'[loc'.me].phase \in Past
  <2>1. loc.me \in Kabaneros
    BY DEF TypeOK, Local
  <2> QED
    BY <1>1, <2>1, PhasesGoForward DEF FinalizerFirst
<1>2. CASE UNCHANGED loc
  BY <1>1, <1>2
<1>3. CASE EndReconcile
  BY <1>3 DEF EndReconcile, IdleState
<1>4. ASSUME NEW pc, NEW outcome, GoTo(pc, outcome), loc.pc # "idle"
      PROVE  cr'[loc'.me].phase \in Past
  <2>1. loc'.me = loc.me
    BY <1>4 DEF GoTo, TypeOK, Local
  <2> QED
    BY <1>1, <1>4, <2>1
<1>5. CASE Environment
  BY <1>2, <1>5
     DEF Environment, CreateOrEdit, DeleteOwner, DeliverEvent, DeliverStacks, StacksGone,
         FireTimer, ChangeWorld, Tick
<1>6. ASSUME NEW o \in Kabaneros, BeginStep(o) PROVE cr'[loc'.me].phase \in Past
  <2>1. ASSUME cr[o].phase \in Past, loc'.me = o PROVE cr'[loc'.me].phase \in Past
    BY <2>1, PhasesGoForward
  <2>2. CASE BeginLive(o)
    BY <2>1, <2>2 DEF BeginLive, Begin, FinalizerFirst, Past
  <2>3. CASE BeginCleanup(o)
    BY <2>1, <2>3 DEF BeginCleanup, Begin, FinalizerFirst, Past
  <2>4. CASE BeginNew(o)
    BY <2>4 DEF BeginNew, Begin, Store, TypeOK, Resource, Past
  <2> QED
    BY <1>2, <1>6, <2>2, <2>3, <2>4 DEF BeginStep, BeginGone, BeginNewFails
<1>7. CASE DeployStep
  BY <1>3, <1>4, <1>7 DEF DeployStep, WebhookFails, ReturnError, AwaitWebhook, ComponentFails,
                          StacksFail, StacksDeployed
<1>8. CASE StatusStep
  BY <1>4, <1>8 DEF StatusStep, UpdateStatus, UpdateConflict, UpdateFails, AfterStatus
<1>9. CASE DecideStep
  BY <1>3, <1>9 DEF DecideStep, RequeueForWebhook, RequeueForError, ReturnError,
                    RequeueNotReady, FinishReady, RetryStacks, RetryStacksUnrecorded,
                    AskForRetry, TrustEarlierRetry
<1>10. CASE CleanupStep
  BY <1>3, <1>4, <1>10 DEF CleanupStep, CleanupBlocked, CleanupFails, CleanupDone, ReturnError,
                           RemoveFinalizer, RemoveFinalizerFails
<1>11. CASE Restart
  BY <1>3, <1>11 DEF Restart
<1>12. CASE UNCHANGED vars
  BY <1>2, <1>12 DEF vars
<1> QED
  BY <1>5, <1>6, <1>7, <1>8, <1>9, <1>10, <1>11, <1>12 DEF Next, Worker

LEMMA FinalizerFirstInit == Init => FinalizerFirst
<1> SUFFICES ASSUME Init PROVE FinalizerFirst
  OBVIOUS
<1>1. loc.pc = "idle" /\ \A k \in Kabaneros : stacks[k] = 0
  BY DEF Init, IdleState
<1>2. \A k \in Kabaneros : cache[k].phase = "absent"
  BY DEF Init, NewResource
<1> QED
  BY <1>1, <1>2 DEF FinalizerFirst, Past

LEMMA FinalizerFirstStep == TypeOK /\ FinalizerFirst /\ [Next]_vars => FinalizerFirst'
<1> SUFFICES ASSUME TypeOK, FinalizerFirst, [Next]_vars PROVE FinalizerFirst'
  OBVIOUS
<1> QED
  BY PhasesGoForward, StacksStep, CacheStep, WorkerStep DEF FinalizerFirst

\* The operator has its finalizer on a Kabanero before it makes Stacks for it
\* (processDeletion comes first), whatever outdated copies it works on.
THEOREM FinalizerBeforeStacks == Spec => []OwnersHaveFinalizer
<1>1. FinalizerFirst => OwnersHaveFinalizer
  BY DEF FinalizerFirst, OwnersHaveFinalizer, Past
<1> QED
  BY <1>1, TypeCorrect, FinalizerFirstInit, FinalizerFirstStep, PTL DEF Spec

-----------------------------------------------------------------------------
(* Kabaneros at rest *)

\* Something will make the operator reconcile k: an event that the watches have
\* not delivered, its place in the queue, or a timer.
Noticed(k) == k \notin synced \/ k \in queue \/ k \in unseen \/ timer[k] # NoTimer

AtWork(k) == loc.pc # "idle" /\ loc.me = k

\* What a reconcile brings about that nothing goes wrong with.
Settled(k) == cr[k].ready = "True" /\ stacks[k] = cr[k].spec

\* The world and the faults under which nothing is given up (see BecomesReady).
Undisturbed == "hub" \in world /\ "status" \notin failed

\* The cache of a Kabanero with no event under way is right, and a user's next
\* edit is a change.
CacheInv ==
    \A k \in Kabaneros : cr[k].spec <= edits /\ (k \in synced => cache[k] = cr[k])

\* The reconcile of k works on the latest version, and either brings about what
\* k asks for or asks for another reconcile.
OnCourse(k) ==
    /\ fresh /\ loc.spec = cr[k].spec
    /\ \/ loc.pc \in {"webhook", "components"}
       \/ loc.pc = "status" /\ loc.outcome \in {"webhook", "error"}
       \/ loc.pc = "status" /\ loc.outcome = "done" /\ stacks[k] = cr[k].spec
       \/ loc.pc = "decide" /\ loc.outcome \in {"webhook", "error", "not ready"}
       \/ loc.pc = "decide" /\ loc.outcome = "ready" /\ Settled(k)

SettledOrNot(k) ==
    cr[k].phase = "live" => \/ Noticed(k)
                            \/ AtWork(k) /\ OnCourse(k)
                            \/ ~AtWork(k) /\ Settled(k)

RestInv == \A k \in Kabaneros : SettledOrNot(k)

\* The deletion of k goes on.
Leaving(k) ==
    cr[k].phase = "deleting" => \/ k \notin synced \/ k \in queue
                                \/ AtWork(k) /\ loc.pc \in {"cleanup", "finalizer"}

LeavingInv == \A k \in Kabaneros : Leaving(k)

\* How a step changes what is known of a Kabanero.
CacheMove ==
    \/ UNCHANGED <<cr, cache, synced>>
    \/ \E k \in Kabaneros, r \in Resource :
         Store(k, r) /\ (r.spec = cr[k].spec \/ r.spec = edits')
    \/ \E k \in Kabaneros : DeliverEvent(k)
    \/ Restart

LEMMA CacheMoves ==
    ASSUME TypeOK, [Next]_vars
    PROVE  CacheMove /\ (edits' = edits \/ edits' = edits + 1)
<1> USE DEF CacheMove, crVars, bounds
<1>0. loc.me \in Kabaneros
  BY MeType
<1>1. ASSUME NEW k \in Kabaneros, CreateOrEdit(k)
      PROVE  CacheMove /\ edits' = edits + 1
  <2> DEFINE r == [cr[k] EXCEPT !.spec = edits + 1,
                      !.phase = IF cr[k].phase = "absent" THEN "new" ELSE cr[k].phase]
  <2>1. Store(k, r) /\ edits' = edits + 1 /\ edits < MaxEdits
    BY <1>1 DEF CreateOrEdit, StoreElsewhere
  <2>2. edits + 1 \in 0..MaxEdits
    BY <2>1, ReconcileAssumption DEF TypeOK
  <2>3. r \in Resource
    BY <2>2, CrFields, ResourceUpdate DEF Phases
  <2>4. r.spec = edits + 1
    BY CrFields DEF Resource
  <2> HIDE DEF r
  <2> QED
    BY <2>1, <2>3, <2>4
<1>2. ASSUME NEW k \in Kabaneros, DeleteOwner(k)
      PROVE  CacheMove /\ edits' = edits + 1
  <2> DEFINE r == [cr[k] EXCEPT !.phase = IF cr[k].phase = "new" THEN "gone" ELSE "deleting"]
  <2>1. Store(k, r) /\ edits' = edits + 1
    BY <1>2 DEF DeleteOwner, StoreElsewhere
  <2>2. r \in Resource
    BY CrFields, ResourceUpdate DEF Phases
  <2>3. r.spec = cr[k].spec
    BY CrFields DEF Resource
  <2> HIDE DEF r
  <2> QED
    BY <2>1, <2>2, <2>3
<1>3. ASSUME NEW k \in Kabaneros, BeginNew(k) PROVE CacheMove /\ edits' = edits
  <2> DEFINE r == [cr[k] EXCEPT !.phase = "live"]
  <2>1. Store(k, r) /\ edits' = edits
    BY <1>3 DEF BeginNew, Begin
  <2>2. r \in Resource
    BY CrFields, ResourceUpdate DEF Phases
  <2>3. r.spec = cr[k].spec
    BY CrFields DEF Resource
  <2> HIDE DEF r
  <2> QED
    BY <2>1, <2>2, <2>3
<1>4. CASE UpdateStatus
  <2> DEFINE r == [cr[loc.me] EXCEPT !.ready = IF IsReady THEN "True" ELSE "False",
                                     !.message = IF IsReady THEN "" ELSE "dependencies"]
  <2>1. Store(loc.me, r) /\ edits' = edits
    BY <1>4 DEF UpdateStatus
  <2>2. r \in Resource
    BY <1>0, CrFields, ResourceUpdate
  <2>3. r.spec = cr[loc.me].spec
    BY <1>0, CrFields DEF Resource
  <2> HIDE DEF r
  <2> QED
    BY <1>0, <2>1, <2>2, <2>3
<1>5. CASE RetryStacks
  <2> DEFINE r == [cr[loc.me] EXCEPT !.ready = "False", !.message = "stacks"]
  <2>1. Store(loc.me, r) /\ edits' = edits
    BY <1>5 DEF RetryStacks, AskForRetry
  <2>2. r \in Resource
    BY <1>0, CrFields, ResourceUpdate
  <2>3. r.spec = cr[loc.me].spec
    BY <1>0, CrFields DEF Resource
  <2> HIDE DEF r
  <2> QED
    BY <1>0, <2>1, <2>2, <2>3
<1>6. CASE RemoveFinalizer
  <2> DEFINE r == [cr[loc.me] EXCEPT !.phase = "gone"]
  <2>1. Store(loc.me, r) /\ edits' = edits
    BY <1>6 DEF RemoveFinalizer
  <2>2. r \in Resource
    BY <1>0, CrFields, ResourceUpdate DEF Phases
  <2>3. r.spec = cr[loc.me].spec
    BY <1>0, CrFields DEF Resource
  <2> HIDE DEF r
  <2> QED
    BY <1>0, <2>1, <2>2, <2>3
<1>7. CASE Environment
  BY <1>1, <1>2, <1>7
     DEF Environment, DeliverEvent, DeliverStacks, StacksGone, FireTimer, ChangeWorld, Tick
<1>8. ASSUME NEW o \in Kabaneros, BeginStep(o) PROVE CacheMove /\ edits' = edits
  BY <1>3, <1>8 DEF BeginStep, BeginGone, BeginLive, BeginNewFails, BeginCleanup, Begin
<1>9. CASE DeployStep
  BY <1>9 DEF DeployStep, WebhookFails, AwaitWebhook, ComponentFails, StacksFail, StacksDeployed
<1>10. CASE StatusStep
  BY <1>4, <1>10 DEF StatusStep, UpdateConflict, UpdateFails
<1>11. CASE DecideStep
  BY <1>5, <1>11 DEF DecideStep, RequeueForWebhook, RequeueForError, RequeueNotReady,
                     FinishReady, RetryStacksUnrecorded, AskForRetry, TrustEarlierRetry
<1>12. CASE CleanupStep
  BY <1>6, <1>12 DEF CleanupStep, CleanupBlocked, CleanupFails, CleanupDone,
                     RemoveFinalizerFails
<1>13. CASE Restart
  BY <1>13 DEF Restart
<1>14. CASE UNCHANGED vars
  BY <1>14 DEF vars
<1> QED
  BY <1>7, <1>8, <1>9, <1>10, <1>11, <1>12, <1>13, <1>14 DEF Next, Worker

LEMMA CacheInvInit == Init => CacheInv
<1> SUFFICES ASSUME Init PROVE CacheInv
  OBVIOUS
<1>1. cache = cr /\ edits = 0 /\ \A k \in Kabaneros : cr[k] = NewResource
  BY DEF Init
<1>2. NewResource.spec = 0
  BY DEF NewResource
<1> QED
  BY <1>1, <1>2 DEF CacheInv

LEMMA CacheInvStep == TypeOK /\ CacheInv /\ [Next]_vars => CacheInv'
<1> SUFFICES ASSUME TypeOK, CacheInv, [Next]_vars,
                    NEW k \in Kabaneros
             PROVE  cr'[k].spec <= edits' /\ (k \in synced' => cache'[k] = cr'[k])
  BY DEF CacheInv
<1>0. cr[k] \in Resource
  BY CrFields
<1>1. edits \in Nat /\ cr[k].spec \in Nat
  <2>1. edits \in 0..MaxEdits
    BY DEF TypeOK
  <2>2. cr[k].spec \in 0..MaxEdits
    BY <1>0 DEF Resource
  <2> QED
    BY <2>1, <2>2
<1>2. edits' = edits \/ edits' = edits + 1
  BY CacheMoves
<1>3. cr[k].spec <= edits /\ (k \in synced => cache[k] = cr[k])
  BY DEF CacheInv
<1>4. cr[k].spec <= edits'
  BY <1>1, <1>2, <1>3
<1>5. CASE UNCHANGED <<cr, cache, synced>>
  BY <1>3, <1>4, <1>5
<1>6. ASSUME NEW o \in Kabaneros, NEW r \in Resource,
             Store(o, r), r.spec = cr[o].spec \/ r.spec = edits'
      PROVE  cr'[k].spec <= edits' /\ (k \in synced' => cache'[k] = cr'[k])
  BY <1>1, <1>2, <1>3, <1>4, <1>6 DEF Store, TypeOK
<1>7. ASSUME NEW o \in Kabaneros, DeliverEvent(o)
      PROVE  cr'[k].spec <= edits' /\ (k \in synced' => cache'[k] = cr'[k])
  BY <1>3, <1>4, <1>7 DEF DeliverEvent, TypeOK
<1>8. CASE Restart
  BY <1>4, <1>8 DEF Restart
<1> QED
  BY <1>5, <1>6, <1>7, <1>8, CacheMoves DEF CacheMove
-----------------------------------------------------------------------------
(* What has been noticed is taken up *)

\* An event under way, a place in the queue or a timer: each leads to the next,
\* and only the start of a reconcile takes the last one away.
LEMMA NoticedStays ==
    ASSUME TypeOK, [Next]_vars, ~Restart,
           NEW k \in Kabaneros, ~BeginStep(k)
    PROVE  /\ (k \notin synced \/ k \in queue) => (k \notin synced \/ k \in queue)'
           /\ Noticed(k) => Noticed(k)'
<1> DEFINE Goal == /\ (k \notin synced \/ k \in queue) => (k \notin synced \/ k \in queue)'
                   /\ Noticed(k) => Noticed(k)'
<1> SUFFICES Goal
  OBVIOUS
<1> USE DEF Noticed, crVars, timeVars, stackVars, bounds
<1>0. loc.me \in Kabaneros /\ timer \in [Kabaneros -> 0..NoTimer] /\ NoTimer = MaxDelay + 1
      /\ MaxDelay \in Nat /\ Short \in 0..MaxDelay /\ Step \in 0..MaxDelay
  BY MeType, ReconcileAssumption DEF TypeOK, NoTimer
<1>1. CASE UNCHANGED <<synced, queue, timer, unseen>>
  BY <1>1
<1>2. ASSUME NEW o \in Kabaneros, NEW r, Store(o, r), UNCHANGED <<queue, timer, unseen>>
      PROVE  Goal
  BY <1>2 DEF Store
<1>3. ASSUME NEW d \in 0..MaxDelay, AddAfter(loc.me, d), UNCHANGED <<queue, unseen>>,
             synced' \subseteq synced
      PROVE  Goal
  <2>1. timer[k] # NoTimer => timer'[k] # NoTimer
    BY <1>0, <1>3 DEF AddAfter, Earlier
  <2> QED
    BY <1>3, <2>1
<1>4. CASE ReturnError /\ UNCHANGED <<synced, timer>> /\ unseen \subseteq unseen'
  BY <1>4 DEF ReturnError
<1>5. CASE Environment
  <2>1. ASSUME NEW o \in Kabaneros, CreateOrEdit(o) \/ DeleteOwner(o) PROVE Goal
    BY <1>2, <2>1 DEF CreateOrEdit, DeleteOwner, StoreElsewhere
  <2>2. ASSUME NEW o \in Kabaneros, DeliverEvent(o) PROVE Goal
    BY <2>2 DEF DeliverEvent
  <2>3. ASSUME NEW o \in Kabaneros, DeliverStacks(o) PROVE Goal
    BY <2>3 DEF DeliverStacks
  <2>4. ASSUME NEW o \in Kabaneros, StacksGone(o) PROVE Goal
    BY <2>4 DEF StacksGone
  <2>5. ASSUME NEW o \in Kabaneros, FireTimer(o) PROVE Goal
    BY <1>0, <2>5 DEF FireTimer
  <2>6. CASE Tick
    <3>1. timer[k] # NoTimer => timer'[k] # NoTimer
      BY <1>0, <2>6 DEF Tick
    <3> QED
      BY <2>6, <3>1 DEF Tick
  <2>7. ASSUME NEW part \in Parts, ChangeWorld(part) PROVE Goal
    BY <1>1, <2>7 DEF ChangeWorld
  <2> HIDE DEF Goal
  <2> QED
    BY <1>5, <2>1, <2>2, <2>3, <2>4, <2>5, <2>6, <2>7 DEF Environment
<1>6. ASSUME NEW o \in Kabaneros, BeginStep(o) PROVE Goal
  <2>1. o # k
    BY <1>6
  <2>2. CASE BeginNew(o)
    BY <2>1, <2>2 DEF BeginNew, Begin, Store
  <2>3. CASE BeginGone(o)
    BY <2>1, <2>3 DEF BeginGone
  <2>4. CASE BeginLive(o)
    BY <2>1, <2>4 DEF BeginLive, Begin
  <2>5. CASE BeginCleanup(o)
    BY <2>1, <2>5 DEF BeginCleanup, Begin
  <2>6. CASE BeginNewFails(o)
    BY <1>1, <2>6 DEF BeginNewFails
  <2> QED
    BY <1>6, <2>2, <2>3, <2>4, <2>5, <2>6 DEF BeginStep
<1> HIDE DEF Goal
<1>7. CASE DeployStep
  <2>1. CASE StacksDeployed
    BY <1>0, <2>1 DEF StacksDeployed, Goal
  <2> QED
    BY <1>1, <1>4, <1>7, <2>1
       DEF DeployStep, WebhookFails, AwaitWebhook, ComponentFails, StacksFail
<1>8. CASE StatusStep
  BY <1>0, <1>1, <1>2, <1>8 DEF StatusStep, UpdateStatus, UpdateConflict, UpdateFails
<1>9. CASE DecideStep
  <2>1. NextDelay \in 0..MaxDelay
    BY ReconcileAssumption DEF NextDelay, Earlier, TypeOK
  <2>2. CASE RetryStacks
    BY <1>3, <2>1, <2>2 DEF RetryStacks, AskForRetry, Store
  <2>3. CASE RetryStacksUnrecorded
    BY <1>3, <2>1, <2>3 DEF RetryStacksUnrecorded, AskForRetry
  <2> QED
    BY <1>0, <1>1, <1>3, <1>4, <1>9, <2>2, <2>3
       DEF DecideStep, RequeueForWebhook, RequeueForError, RequeueNotReady, FinishReady,
           TrustEarlierRetry
<1>10. CASE CleanupStep
  <2>1. CASE CleanupBlocked
    BY <1>4, <2>1 DEF CleanupBlocked
  <2> QED
    BY <1>0, <1>1, <1>2, <1>4, <1>10, <2>1
       DEF CleanupStep, CleanupFails, CleanupDone, RemoveFinalizer, RemoveFinalizerFails
<1>11. CASE UNCHANGED vars
  BY <1>1, <1>11 DEF vars
<1> QED
  BY <1>5, <1>6, <1>7, <1>8, <1>9, <1>10, <1>11 DEF Next, Worker

\* The next step of the worker.
LEMMA GoToEffect ==
    ASSUME TypeOK, NEW pc, NEW outcome, GoTo(pc, outcome)
    PROVE  loc'.pc = pc /\ loc'.outcome = outcome /\ loc'.me = loc.me /\ loc'.spec = loc.spec
<1>1. Local = [pc : PCs, me : Kabaneros, spec : 0..MaxEdits, outcome : Outcomes]
  BY DEF Local, PCs, Outcomes
<1> QED
  BY <1>1 DEF TypeOK, GoTo

LEMMA IdleStateIdle == IdleState.pc = "idle"
  BY DEF IdleState

\* A step of the worker that is not the start of a reconcile is about the
\* Kabanero that it works on.
LEMMA WorkIsOnMe ==
    ASSUME TypeOK, DeployStep \/ StatusStep \/ DecideStep \/ CleanupStep,
           NEW k \in Kabaneros, k # loc.me
    PROVE  /\ cr'[k] = cr[k] /\ stacks'[k] = stacks[k]
           /\ ~AtWork(k)'
<1> USE DEF crVars, stackVars
<1>0. loc.me \in Kabaneros /\ loc.pc # "idle"
  BY MeType DEF DeployStep, WebhookFails, AwaitWebhook, ComponentFails, StacksFail,
     StacksDeployed, StatusStep, UpdateStatus, UpdateConflict, UpdateFails,
     DecideStep, RequeueForWebhook, RequeueForError, RequeueNotReady, FinishReady,
     RetryStacks, RetryStacksUnrecorded, TrustEarlierRetry,
     CleanupStep, CleanupBlocked, CleanupFails, CleanupDone, RemoveFinalizer,
     RemoveFinalizerFails
<1>1. ASSUME NEW r, Store(loc.me, r) PROVE cr'[k] = cr[k]
  BY <1>1 DEF Store, TypeOK
<1>2. cr'[k] = cr[k]
  BY <1>0, <1>1 DEF DeployStep, WebhookFails, AwaitWebhook, ComponentFails, StacksFail,
     StacksDeployed, StatusStep, UpdateStatus, UpdateConflict, UpdateFails,
     DecideStep, RequeueForWebhook, RequeueForError, RequeueNotReady, FinishReady,
     RetryStacks, RetryStacksUnrecorded, TrustEarlierRetry,
     CleanupStep, CleanupBlocked, CleanupFails, CleanupDone, RemoveFinalizer,
     RemoveFinalizerFails
<1>3. stacks'[k] = stacks[k]
  <2>1. CASE UNCHANGED stacks
    BY <2>1
  <2>2. CASE StacksDeployed
    BY <2>2 DEF StacksDeployed, TypeOK
  <2> QED
    BY <2>1, <2>2 DEF DeployStep, WebhookFails, AwaitWebhook, ComponentFails, StacksFail,
       StatusStep, UpdateStatus, UpdateConflict, UpdateFails,
       DecideStep, RequeueForWebhook, RequeueForError, RequeueNotReady, FinishReady,
       RetryStacks, RetryStacksUnrecorded, AskForRetry, TrustEarlierRetry,
       CleanupStep, CleanupBlocked, CleanupFails, CleanupDone, RemoveFinalizer,
       RemoveFinalizerFails
<1>4. EndReconcile => loc'.pc = "idle"
  BY IdleStateIdle DEF EndReconcile
<1>5. \A pc, outcome : GoTo(pc, outcome) => loc'.me = loc.me
  BY GoToEffect
<1>6. loc'.pc = "idle" \/ loc'.me = loc.me
  <2> HIDE DEF crVars, stackVars
  <2> QED
  BY <1>4, <1>5 DEF DeployStep, WebhookFails, AwaitWebhook, ComponentFails, StacksFail,
     StacksDeployed, StatusStep, UpdateStatus, UpdateConflict, UpdateFails, AfterStatus,
     DecideStep, RequeueForWebhook, RequeueForError, RequeueNotReady, FinishReady,
     RetryStacks, RetryStacksUnrecorded, AskForRetry, TrustEarlierRetry, ReturnError,
     CleanupStep, CleanupBlocked, CleanupFails, CleanupDone, RemoveFinalizer,
     RemoveFinalizerFails
<1> QED
  BY <1>2, <1>3, <1>6 DEF AtWork

\* A Kabanero that a step changes is an event to the operator.
LEMMA ChangeIsEvent ==
    ASSUME TypeOK, [Next]_vars, ~Restart,
           NEW k \in Kabaneros, cr'[k] # cr[k]
    PROVE  k \notin synced'
<1>1. ASSUME NEW o \in Kabaneros, NEW r, Store(o, r) PROVE k \notin synced'
  BY <1>1 DEF Store, TypeOK
<1> QED
  BY <1>1, CacheMoves DEF CacheMove, DeliverEvent

-----------------------------------------------------------------------------
(* Deletion *)

LEMMA LeavingInit == Init => LeavingInv
<1> SUFFICES ASSUME Init, NEW k \in Kabaneros PROVE cr[k].phase # "deleting"
  BY DEF LeavingInv, Leaving
<1>1. cr[k].phase = "absent"
  BY DEF Init, NewResource
<1> QED
  BY <1>1

LEMMA LeavingStep == TypeOK /\ CacheInv /\ LeavingInv /\ [Next]_vars => LeavingInv'
<1> DEFINE Goal(k) == k \notin synced' \/ k \in queue'
                         \/ (loc'.me = k /\ loc'.pc \in {"cleanup", "finalizer"})
<1> SUFFICES ASSUME TypeOK, CacheInv, LeavingInv, [Next]_vars,
                    NEW k \in Kabaneros, cr'[k].phase = "deleting"
             PROVE  Goal(k)
  <2>1. ASSUME NEW k \in Kabaneros, cr'[k].phase = "deleting" => Goal(k)
        PROVE  Leaving(k)'
    BY <2>1 DEF Leaving, AtWork
  <2> QED
    BY <2>1 DEF LeavingInv
<1>1. CASE Restart
  BY <1>1 DEF Restart
<1>2. CASE BeginStep(k)
  <2>1. k \in synced => cache[k] = cr[k]
    BY DEF CacheInv
  <2>2. CASE BeginGone(k)
    BY <2>1, <2>2 DEF BeginGone, crVars
  <2>3. CASE BeginLive(k)
    BY <2>1, <2>3 DEF BeginLive
  <2>4. CASE BeginNew(k)
    BY <2>4 DEF BeginNew, Store, TypeOK, Resource
  <2>5. CASE BeginNewFails(k)
    BY <2>5 DEF BeginNewFails
  <2>6. CASE BeginCleanup(k)
    BY <2>6 DEF BeginCleanup, Begin, AtWork
  <2> QED
    BY <1>2, <2>2, <2>3, <2>4, <2>5, <2>6 DEF BeginStep
<1>3. CASE ~Restart /\ ~BeginStep(k)
  <2>1. k \notin synced \/ k \in queue => Goal(k)
    BY <1>3, NoticedStays
  <2>2. cr'[k] # cr[k] => Goal(k)
    BY <1>3, ChangeIsEvent
  <2>3. CASE cr'[k] = cr[k] /\ k \in synced /\ k \notin queue
    <3>1. AtWork(k) /\ loc.pc \in {"cleanup", "finalizer"}
      BY <2>3 DEF LeavingInv, Leaving
    <3>2. CASE UNCHANGED loc
      BY <3>1, <3>2 DEF AtWork
    <3>3. CASE CleanupStep
      <4>1. ReturnError => Goal(k)
        BY <3>1 DEF ReturnError, AtWork
      <4>2. CASE CleanupDone
        BY <3>1, <4>2, GoToEffect DEF CleanupDone, AtWork
      <4>3. CASE RemoveFinalizer
        <5>1. loc.me = k /\ cr \in [Kabaneros -> Resource]
          BY <3>1 DEF AtWork, TypeOK
        <5> QED
          BY <4>3, <5>1 DEF RemoveFinalizer, Store, Resource
      <4> HIDE DEF Goal
      <4> QED
        BY <3>3, <4>1, <4>2, <4>3
           DEF CleanupStep, CleanupBlocked, CleanupFails, RemoveFinalizerFails
    <3>4. ~DeployStep /\ ~StatusStep /\ ~DecideStep
      BY <3>1 DEF DeployStep, WebhookFails, AwaitWebhook, ComponentFails, StacksFail,
         StacksDeployed, StatusStep, UpdateStatus, UpdateConflict, UpdateFails,
         DecideStep, RequeueForWebhook, RequeueForError, RequeueNotReady, FinishReady,
         RetryStacks, RetryStacksUnrecorded, TrustEarlierRetry
    <3>5. \A o \in Kabaneros : ~BeginStep(o)
      BY <3>1 DEF BeginStep, BeginGone, BeginLive, BeginNew, BeginNewFails, BeginCleanup,
         Begin, Idle
    <3>6. CASE Environment
      BY <3>2, <3>6 DEF Environment, CreateOrEdit, DeleteOwner, DeliverEvent, DeliverStacks,
         StacksGone, FireTimer, ChangeWorld, Tick
    <3>7. CASE UNCHANGED vars
      BY <3>2, <3>7 DEF vars
    <3> QED
      BY <1>3, <3>3, <3>4, <3>5, <3>6, <3>7 DEF Next, Worker
  <2> QED
    BY <2>1, <2>2, <2>3
<1> QED
  BY <1>1, <1>2, <1>3

\* A Kabanero that is being deleted leaves the operator no rest: its reconcile
\* removes the finalizer or comes back, whatever fails, restarts or is outdated
\* meanwhile (processDeletion returns every error of the cleanup).
THEOREM NoRestWithDeletion ==
    Spec => [](AtRest => \A k \in Kabaneros : cr[k].phase # "deleting")
<1> DEFINE Claim == AtRest => \A k \in Kabaneros : cr[k].phase # "deleting"
<1>1. LeavingInv => Claim
  BY DEF LeavingInv, Leaving, AtRest, Idle, AtWork
<1> HIDE DEF Claim
<1>2. Spec => []Claim
  BY <1>1, TypeCorrect, CacheInvInit, CacheInvStep, LeavingInit, LeavingStep, PTL DEF Spec
<1> QED
  BY <1>2 DEF Claim

-----------------------------------------------------------------------------
(* A live Kabanero *)

\* The outcomes that make the reconcile ask for another one.
Retried == {"webhook", "error", "not ready"}

LEMMA OutcomeFacts ==
    /\ "webhook" \in Retried /\ "error" \in Retried /\ "not ready" \in Retried
    /\ Retried = {"webhook", "error"} \cup {"not ready"}
    /\ "ready" \notin Retried /\ "stacks" \notin Retried
  BY DEF Retried

\* OnCourse, in the words of the proofs.
LEMMA OnCourseIs ==
    ASSUME NEW k
    PROVE  OnCourse(k) <=>
             /\ fresh /\ loc.spec = cr[k].spec
             /\ \/ loc.pc \in {"webhook", "components"}
                \/ loc.pc = "status" /\ loc.outcome \in {"webhook", "error"}
                \/ loc.pc = "status" /\ loc.outcome = "done" /\ stacks[k] = cr[k].spec
                \/ loc.pc = "decide" /\ loc.outcome \in Retried
                \/ loc.pc = "decide" /\ loc.outcome = "ready" /\ Settled(k)
  BY DEF OnCourse, Retried

LEMMA OnCourseNext ==
    ASSUME NEW k
    PROVE  OnCourse(k)' <=>
             /\ fresh' /\ loc'.spec = cr'[k].spec
             /\ \/ loc'.pc \in {"webhook", "components"}
                \/ loc'.pc = "status" /\ loc'.outcome \in {"webhook", "error"}
                \/ loc'.pc = "status" /\ loc'.outcome = "done" /\ stacks'[k] = cr'[k].spec
                \/ loc'.pc = "decide" /\ loc'.outcome \in Retried
                \/ loc'.pc = "decide" /\ loc'.outcome = "ready" /\ Settled(k)'
  BY DEF OnCourse, Retried

\* Every operation that ends a reconcile early puts the Kabanero back.
LEMMA ErrorIsNoticed ==
    ASSUME NEW k, AtWork(k), ReturnError
    PROVE  Noticed(k)'
  BY DEF ReturnError, AtWork, Noticed

LEMMA DeployOnCourse ==
    ASSUME TypeOK, Undisturbed, DeployStep,
           NEW k \in Kabaneros, AtWork(k), OnCourse(k), cr'[k] = cr[k]
    PROVE  Noticed(k)' \/ (AtWork(k)' /\ OnCourse(k)')
<1>1. CASE WebhookFails
  BY <1>1, ErrorIsNoticed DEF WebhookFails
<1>2. CASE AwaitWebhook
  <2>1. /\ loc'.spec = loc.spec /\ loc'.me = loc.me
        /\ loc'.pc = "components" \/ (loc'.pc = "status" /\ loc'.outcome = "webhook")
    BY <1>2, GoToEffect DEF AwaitWebhook
  <2> QED
    BY <1>2, <2>1, OnCourseIs, OnCourseNext DEF AwaitWebhook, crVars, AtWork
<1>3. CASE ComponentFails
  <2>1. /\ loc'.spec = loc.spec /\ loc'.me = loc.me
        /\ loc'.pc = "status" /\ loc'.outcome = "error"
    BY <1>3, GoToEffect DEF ComponentFails
  <2> QED
    BY <1>3, <2>1, OnCourseIs, OnCourseNext DEF ComponentFails, crVars, AtWork
<1>4. CASE StacksFail
  BY <1>4 DEF StacksFail, Undisturbed
<1>5. CASE StacksDeployed
  <2>1. /\ loc'.spec = loc.spec /\ loc'.me = loc.me
        /\ loc'.pc = "status" /\ loc'.outcome = "done"
    BY <1>5, GoToEffect DEF StacksDeployed
  <2>2. loc.me = k /\ loc.spec = cr[k].spec
    BY OnCourseIs DEF AtWork
  <2>3. stacks'[k] = cr'[k].spec
    BY <1>5, <2>2 DEF StacksDeployed, TypeOK
  <2> QED
    BY <1>5, <2>1, <2>3, OnCourseIs, OnCourseNext DEF StacksDeployed, crVars, AtWork
<1> QED
  BY <1>1, <1>2, <1>3, <1>4, <1>5 DEF DeployStep

\* What is decided on after a status update that is made.
LEMMA AfterUpdate ==
    ASSUME TypeOK, AfterStatus(FALSE)
    PROVE  /\ loc'.pc = "decide" /\ loc'.me = loc.me /\ loc'.spec = loc.spec
           /\ loc.outcome \in {"webhook", "error"} => loc'.outcome = loc.outcome
           /\ loc.outcome = "done" => IF IsReady THEN loc'.outcome = "ready"
                                                 ELSE loc'.outcome \in Retried
<1> DEFINE next == CASE loc.outcome # "done" -> loc.outcome
                     [] loc.outcome = "done" /\ FALSE -> "error"
                     [] loc.outcome = "done" /\ ~FALSE /\ IsReady -> "ready"
                     [] OTHER -> "not ready"
<1>1. GoTo("decide", next)
  BY DEF AfterStatus
<1>2. loc.outcome # "done" => next = loc.outcome
  OBVIOUS
<1>3. loc.outcome = "done" /\ IsReady => next = "ready"
  OBVIOUS
<1>4. loc.outcome = "done" /\ ~IsReady => next \in Retried
  BY OutcomeFacts
<1> HIDE DEF next
<1> QED
  BY <1>1, <1>2, <1>3, <1>4, GoToEffect

LEMMA StatusOnCourse ==
    ASSUME TypeOK, Undisturbed', StatusStep,
           NEW k \in Kabaneros, AtWork(k), OnCourse(k), cr'[k] = cr[k]
    PROVE  AtWork(k)' /\ OnCourse(k)'
<1>1. loc.me = k /\ cr \in [Kabaneros -> Resource]
  BY DEF AtWork, TypeOK
<1>2. CASE UpdateStatus
  <2>1. IsReady => cr'[k].ready = "True"
    BY <1>1, <1>2 DEF UpdateStatus, Store, Resource
  <2>2. fresh' /\ stacks'[k] = stacks[k] /\ AfterStatus(FALSE)
    BY <1>2 DEF UpdateStatus, stackVars
  <2>3. loc.pc = "status"
    BY <1>2 DEF UpdateStatus
  <2> QED
    BY <2>1, <2>2, <2>3, AfterUpdate, OnCourseIs, OnCourseNext, OutcomeFacts
       DEF AtWork, Settled
<1>3. CASE UpdateConflict
  BY <1>3, OnCourseIs DEF UpdateConflict
<1>4. CASE UpdateFails
  BY <1>4 DEF UpdateFails, Fail, Undisturbed
<1> QED
  BY <1>2, <1>3, <1>4 DEF StatusStep

LEMMA RequeueIsNoticed ==
    ASSUME TypeOK, NEW k \in Kabaneros, AtWork(k), NEW d \in 0..MaxDelay, AddAfter(loc.me, d)
    PROVE  Noticed(k)'
<1>1. loc.me = k /\ timer \in [Kabaneros -> 0..NoTimer] /\ NoTimer = MaxDelay + 1
      /\ MaxDelay \in Nat
  BY ReconcileAssumption DEF AtWork, TypeOK, NoTimer
<1>2. timer'[k] # NoTimer
  BY <1>1 DEF AddAfter, Earlier
<1> QED
  BY <1>2 DEF Noticed

LEMMA DecideOnCourse ==
    ASSUME TypeOK, DecideStep,
           NEW k \in Kabaneros, AtWork(k), OnCourse(k), cr'[k] = cr[k]
    PROVE  Noticed(k)' \/ (~AtWork(k)' /\ Settled(k)')
<1>1. Short \in 0..MaxDelay /\ Step \in 0..MaxDelay
  BY ReconcileAssumption
<1>2. CASE RequeueForWebhook
  BY <1>1, <1>2, RequeueIsNoticed DEF RequeueForWebhook
<1>3. CASE RequeueForError
  BY <1>3, ErrorIsNoticed DEF RequeueForError
<1>4. CASE RequeueNotReady
  <2>1. AddAfter(loc.me, Step)
    BY <1>4 DEF RequeueNotReady
  <2> QED
    BY <1>1, <2>1, RequeueIsNoticed
<1>5. CASE FinishReady
  BY <1>5, OnCourseIs, OutcomeFacts, IdleStateIdle
     DEF FinishReady, EndReconcile, AtWork, Settled, stackVars
<1>6. loc.outcome # "stacks"
  <2>1. loc.pc = "decide"
    BY DEF DecideStep, RequeueForWebhook, RequeueForError, RequeueNotReady, FinishReady,
           RetryStacks, RetryStacksUnrecorded, TrustEarlierRetry
  <2> QED
    BY <2>1, OnCourseIs, OutcomeFacts
<1> QED
  BY <1>2, <1>3, <1>4, <1>5, <1>6
     DEF DecideStep, RetryStacks, RetryStacksUnrecorded, TrustEarlierRetry

\* The start of a reconcile of k.
LEMMA BeginOnCourse ==
    ASSUME TypeOK, CacheInv, NEW k \in Kabaneros, BeginStep(k), cr'[k].phase = "live"
    PROVE  Noticed(k)' \/ (AtWork(k)' /\ OnCourse(k)')
<1>1. k \in synced => cache[k] = cr[k]
  BY DEF CacheInv
<1>2. CASE BeginGone(k)
  BY <1>1, <1>2 DEF BeginGone, crVars, Noticed
<1>3. CASE BeginLive(k)
  <2>1. CASE k \in synced
    <3>1. fresh' /\ loc'.spec = cr'[k].spec /\ loc'.pc = "webhook" /\ loc'.me = k
      BY <1>1, <1>3, <2>1 DEF BeginLive, Begin
    <3> QED
      BY <3>1, OnCourseNext DEF AtWork
  <2> QED
    BY <1>3, <2>1 DEF BeginLive, Noticed
<1>4. CASE BeginNew(k)
  <2>1. cr \in [Kabaneros -> Resource] /\ cr[k].phase = "new"
    BY <1>1, <1>4 DEF BeginNew, TypeOK
  <2>2. [cr[k] EXCEPT !.phase = "live"] # cr[k]
    BY <2>1 DEF Resource
  <2> QED
    BY <1>4, <2>2 DEF BeginNew, Store, Noticed
<1>5. CASE BeginNewFails(k)
  BY <1>5 DEF BeginNewFails, Noticed
<1>6. CASE BeginCleanup(k)
  BY <1>1, <1>6 DEF BeginCleanup, Noticed
<1> QED
  BY <1>2, <1>3, <1>4, <1>5, <1>6 DEF BeginStep

\* Nobody but the worker takes k off its course: a user's edit of k is a change.
LEMMA EnvironmentOnCourse ==
    ASSUME TypeOK, CacheInv, Environment,
           NEW k \in Kabaneros, cr'[k] = cr[k], ~Noticed(k)'
    PROVE  loc' = loc /\ stacks'[k] = stacks[k] /\ (AtWork(k) /\ fresh => fresh')
<1> DEFINE Goal == loc' = loc /\ stacks'[k] = stacks[k] /\ (AtWork(k) /\ fresh => fresh')
<1> USE DEF crVars, stackVars
<1>0. cr \in [Kabaneros -> Resource]
  BY DEF TypeOK
<1>1. ASSUME NEW o \in Kabaneros, CreateOrEdit(o) PROVE Goal
  <2>1. cr'[o].spec = edits + 1
    BY <1>0, <1>1 DEF CreateOrEdit, StoreElsewhere, Store, Resource
  <2>2. cr[k].spec <= edits
    BY DEF CacheInv
  <2>3. edits \in Int /\ cr[k].spec \in Int
    <3>1. edits \in 0..MaxEdits
      BY DEF TypeOK
    <3>2. cr[k].spec \in 0..MaxEdits
      BY <1>0 DEF Resource
    <3> QED
      BY <3>1, <3>2
  <2>4. o # k
    BY <2>1, <2>2, <2>3
  <2>5. AtWork(k) => loc.me # o
    BY <2>4 DEF AtWork
  <2> QED
    BY <1>1, <2>5 DEF CreateOrEdit, StoreElsewhere
<1>2. ASSUME NEW o \in Kabaneros, DeleteOwner(o) PROVE Goal
  <2>1. cr'[o].phase # cr[o].phase
    BY <1>0, <1>2 DEF DeleteOwner, StoreElsewhere, Store, Resource
  <2>2. AtWork(k) => loc.me # o
    BY <2>1 DEF AtWork
  <2> QED
    BY <1>2, <2>2 DEF DeleteOwner, StoreElsewhere
<1>3. ASSUME NEW o \in Kabaneros, StacksGone(o) PROVE Goal
  <2>1. o # k
    BY <1>3 DEF StacksGone, Noticed
  <2> QED
    BY <1>3, <2>1 DEF StacksGone, TypeOK
<1>4. ASSUME NEW o \in Kabaneros, DeliverEvent(o) \/ DeliverStacks(o) \/ FireTimer(o)
      PROVE  Goal
  BY <1>4 DEF DeliverEvent, DeliverStacks, FireTimer
<1>5. (Tick \/ \E part \in Parts : ChangeWorld(part)) => Goal
  BY DEF Tick, ChangeWorld
<1> HIDE DEF Goal
<1> QED
  <2>1. Goal
    BY <1>1, <1>2, <1>3, <1>4, <1>5 DEF Environment
  <2> QED
    BY <2>1 DEF Goal

LEMMA RestInvInit == Init => RestInv
<1> SUFFICES ASSUME Init, NEW k \in Kabaneros PROVE cr[k].phase # "live"
  BY DEF RestInv, SettledOrNot
<1>1. cr[k].phase = "absent"
  BY DEF Init, NewResource
<1> QED
  BY <1>1

LEMMA RestInvStep ==
    TypeOK /\ CacheInv /\ RestInv /\ Undisturbed /\ Undisturbed' /\ [Next]_vars => RestInv'
<1> DEFINE Goal(k) == \/ Noticed(k)'
                      \/ AtWork(k)' /\ OnCourse(k)'
                      \/ ~AtWork(k)' /\ Settled(k)'
<1> SUFFICES ASSUME TypeOK, CacheInv, RestInv, Undisturbed, Undisturbed', [Next]_vars,
                    NEW k \in Kabaneros, cr'[k].phase = "live"
             PROVE  Goal(k)
  BY DEF RestInv, SettledOrNot
<1>1. CASE Restart
  BY <1>1 DEF Restart, Noticed
<1>2. CASE BeginStep(k)
  BY <1>2, BeginOnCourse
<1>3. CASE ~Restart /\ ~BeginStep(k) /\ (Noticed(k) \/ cr'[k] # cr[k])
  BY <1>3, NoticedStays, ChangeIsEvent DEF Noticed
<1>4. CASE ~Restart /\ ~BeginStep(k) /\ ~Noticed(k) /\ cr'[k] = cr[k]
  <2>1. (AtWork(k) /\ OnCourse(k)) \/ (~AtWork(k) /\ Settled(k))
    BY <1>4 DEF RestInv, SettledOrNot
  <2>2. CASE Environment \/ UNCHANGED vars
    <3>1. CASE Noticed(k)'
      BY <3>1
    <3>2. CASE ~Noticed(k)'
      <4>1. loc' = loc /\ stacks'[k] = stacks[k] /\ (AtWork(k) /\ fresh => fresh')
        BY <1>4, <2>2, <3>2, EnvironmentOnCourse DEF vars
      <4>2. AtWork(k)' <=> AtWork(k)
        BY <4>1 DEF AtWork
      <4>3. Settled(k) => Settled(k)'
        BY <1>4, <4>1 DEF Settled
      <4>4. AtWork(k) /\ OnCourse(k) => OnCourse(k)'
        BY <1>4, <4>1, <4>3, OnCourseIs, OnCourseNext
      <4> QED
        BY <2>1, <4>2, <4>3, <4>4
    <3> QED
      BY <3>1, <3>2
  <2>3. ASSUME NEW o \in Kabaneros, BeginStep(o) PROVE Goal(k)
    <3>1. o # k
      BY <1>4, <2>3
    <3>2. Idle /\ stacks' = stacks /\ (loc' = loc \/ loc'.me = o)
      <4>1. ASSUME NEW pc, Begin(o, pc)
            PROVE  Idle /\ stacks' = stacks /\ loc'.me = o
        BY <4>1 DEF Begin, stackVars
      <4> QED
        BY <2>3, <4>1 DEF BeginStep, BeginGone, BeginLive, BeginNew, BeginNewFails,
           BeginCleanup, stackVars
    <3>3. ~AtWork(k) /\ ~AtWork(k)'
      BY <3>1, <3>2 DEF Idle, AtWork
    <3> QED
      BY <1>4, <2>1, <3>2, <3>3 DEF Settled
  <2>4. CASE DeployStep \/ StatusStep \/ DecideStep \/ CleanupStep
    <3>1. CASE k # loc.me
      <4>1. ~AtWork(k)' /\ stacks'[k] = stacks[k]
        BY <2>4, <3>1, WorkIsOnMe
      <4> QED
        BY <1>4, <2>1, <3>1, <4>1 DEF AtWork, Settled
    <3>2. CASE k = loc.me
      <4>1. loc.pc # "idle"
        BY <2>4 DEF DeployStep, WebhookFails, AwaitWebhook, ComponentFails, StacksFail,
           StacksDeployed, StatusStep, UpdateStatus, UpdateConflict, UpdateFails,
           DecideStep, RequeueForWebhook, RequeueForError, RequeueNotReady, FinishReady,
           RetryStacks, RetryStacksUnrecorded, TrustEarlierRetry,
           CleanupStep, CleanupBlocked, CleanupFails, CleanupDone, RemoveFinalizer,
           RemoveFinalizerFails
      <4>2. AtWork(k) /\ OnCourse(k)
        BY <2>1, <3>2, <4>1 DEF AtWork
      <4>3. ~CleanupStep
        <5>1. loc.pc \notin {"cleanup", "finalizer"}
          BY <4>2, OnCourseIs
        <5> QED
          BY <5>1 DEF CleanupStep, CleanupBlocked, CleanupFails, CleanupDone,
             RemoveFinalizer, RemoveFinalizerFails
      <4> QED
        BY <1>4, <2>4, <4>2, <4>3, DeployOnCourse, StatusOnCourse, DecideOnCourse
    <3> QED
      BY <3>1, <3>2
  <2> QED
    BY <1>4, <2>2, <2>3, <2>4 DEF Next, Worker
<1> QED
  BY <1>1, <1>2, <1>3, <1>4

\* As long as the hub is there and no status update fails, a Kabanero that the
\* operator rests with, and that no timer will bring back, is ready, and its
\* Stacks are made from its latest spec: no order of edits, events, timers,
\* other failures and restarts makes the loop forget it.  (Without the hub the
\* loop may: see FailuresAreRetried.)
THEOREM RestsReady ==
    Spec /\ []Undisturbed =>
        [](AtRest => \A k \in Kabaneros :
              cr[k].phase = "live" /\ timer[k] = NoTimer =>
                  cr[k].ready = "True" /\ stacks[k] = cr[k].spec)
<1> DEFINE Claim == AtRest => \A k \in Kabaneros :
              cr[k].phase = "live" /\ timer[k] = NoTimer =>
                  cr[k].ready = "True" /\ stacks[k] = cr[k].spec
<1>1. RestInv => Claim
  BY DEF RestInv, SettledOrNot, Noticed, AtWork, Settled, AtRest, Idle
<1> HIDE DEF Claim
<1>2. Spec /\ []Undisturbed => []Claim
  BY <1>1, TypeCorrect, CacheInvInit, CacheInvStep, RestInvInit, RestInvStep, PTL DEF Spec
<1> QED
  BY <1>2 DEF Claim
=============================================================================
