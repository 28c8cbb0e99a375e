---------------------------- MODULE ComponentInstalls ----------------------------
(****************************************************************************)
(* What the Kabanero operator installs for a Kabanero, call by call and in  *)
(* its order: the admission webhook, the stack controller, the landing page *)
(* and its console links, the CLI and its key, CodeReady Workspaces, events,*)
(* single sign-on, the bindings in the target namespaces and the devfile    *)
(* registry; and how the deletion of the Kabanero takes back what the       *)
(* garbage collector cannot.  Users edit and delete the Kabanero meanwhile, *)
(* parts of the cluster come and go, calls fail and the operator restarts.  *)
(*                                                                          *)
(* What brings the operator back, and with which copy of the Kabanero, is   *)
(* the subject of KabaneroReconcile: here it may start at any time, from    *)
(* the latest version.                                                      *)
(****************************************************************************)
EXTENDS Integers, Sequences, FiniteSets

CONSTANTS
    Namespaces,
    Own,          \* the namespace of the Kabanero
    Specs,        \* the specs that users write
    FirstWorlds,  \* what may be in order at the start
    MaxEdits,
    MaxMishaps    \* changes of the cluster and faults, together

\* Which components are wanted, the target namespaces, and whether the version
\* of Kabanero is an old one: without a devfile registry, and with events that
\* need a secret.
KabaneroSpec == [landing : BOOLEAN, crw : BOOLEAN, events : BOOLEAN, sso : BOOLEAN,
          targets : SUBSET Namespaces, old : BOOLEAN]

\* What the operator needs: the CA is in the webhook's ConfigMap, the webhook
\* runs, the landing page's route is admitted, CheCluster is a known kind, the
\* administrator's secret is complete.
Parts == {"ca", "webhook pod", "route", "crd", "admin secret"}

ASSUME InstallsAssumption ==
    /\ Own \in Namespaces
    /\ Specs \subseteq KabaneroSpec /\ Specs # {}
    /\ FirstWorlds \subseteq SUBSET Parts
    /\ MaxEdits \in Nat /\ MaxMishaps \in Nat

VARIABLES
    kab,        \* the Kabanero, as the API server stores it
    loc,        \* the local state of the reconcile
    fresh,      \* its copy of the Kabanero is the latest version
    objs,       \* what is installed
    kept,       \* the secrets that exist
    seen,       \* the secrets in the informer cache
    generated,  \* how often a secret was generated
    bound,      \* the namespaces with role bindings
    exists,     \* the namespaces that exist
    stacks,     \* the Stacks that the Kabanero owns
    shown,      \* whether the informer cache has some of them
    world,      \* the parts that are in order
    edits, changes, faults,
    \* History that the properties need, and the code keeps nowhere:
    forgotten,  \* the namespaces that the status does not list, although they may have
                \* bindings: a Delete failed, or the status that listed them was lost
    supposed,   \* those that it lists, although they may lack them: a Create failed, the
                \* status that struck them out was lost, or they are back too early
    overlooked  \* the clean-up listed no Stacks, although there were some

vars == <<kab, loc, fresh, objs, kept, seen, generated, bound, exists, stacks, shown,
          world, edits, changes, faults, forgotten, supposed, overlooked>>
secretVars == <<kept, seen, generated>>
bindVars == <<bound, forgotten, supposed>>
stackVars == <<stacks, shown, overlooked>>
worldVars == <<exists, world, changes>>

Links == {"app menu link", "help menu links"}

\* In the namespace and owned by the Kabanero: the garbage collector's.
Owned == {"webhook", "stack controller", "landing", "landing deployment", "cli", "che",
          "edited che", "leaving che", "events", "sso", "devfile registry"}

\* Cluster roles among what the landing page and the CLI consist of: they get no
\* owner, and the clean-up does not look for them.
Roles == {"landing roles", "cli roles"}

\* In the cluster or in another namespace.
Unowned == {"webhook config", "stack binding", "codewind roles"} \cup Links \cup Roles

\* What earlier releases have left.
Legacy == {"collection controller", "cli config map"}

Secrets == {"cli", "events", "sso"}

\* Each of the steps makes one kind of call, or a few alike.
InstallSteps ==
    <<"webhook", "webhook config", "await webhook", "stack controller", "stack binding",
      "landing", "landing deployment", "app menu link", "help menu links", "cli secret",
      "cli", "codewind roles", "crw", "events", "events secret",
      "sso secret", "sso", "targets", "devfile registry", "featured stacks", "status">>

CleanupSteps ==
    <<"remove links", "remove webhook", "remove stacks", "remove binding", "remove crw",
      "remove targets", "remove devfile registry", "remove finalizer">>

AllSteps == InstallSteps \o CleanupSteps
StepNames == {AllSteps[i] : i \in DOMAIN AllSteps}

Local == [pc : {"idle"} \cup StepNames, spec : Specs, recorded : SUBSET Namespaces]

Resource == [phase : {"live", "deleting", "gone"}, spec : Specs, recorded : SUBSET Namespaces]

IdleState == [pc |-> "idle", spec |-> CHOOSE s \in Specs : TRUE, recorded |-> {}]

Init ==
    /\ kab \in [phase : {"live"}, spec : Specs, recorded : {{}}]
    /\ loc = IdleState /\ fresh = FALSE
    /\ objs = Legacy
    /\ kept = {} /\ seen = {} /\ generated = [s \in Secrets |-> 0]
    /\ bound = {} /\ exists \in {Namespaces, {Own}}
    /\ stacks = "none" /\ shown = FALSE
    /\ world \in FirstWorlds
    /\ edits = 0 /\ changes = 0 /\ faults = 0
    /\ forgotten = {} /\ supposed = {} /\ overlooked = FALSE

-----------------------------------------------------------------------------
(* Steps *)

At(pc) == loc.pc = pc

GoTo(pc) == loc' = [loc EXCEPT !.pc = pc]

Onward == GoTo(AllSteps[1 + CHOOSE i \in DOMAIN AllSteps : AllSteps[i] = loc.pc])

EndReconcile == loc' = IdleState /\ fresh' = FALSE

\* What the reconcile has found out about the target namespaces is not stored.
LoseStatus ==
    /\ forgotten' = forgotten \cup (loc.recorded \ kab.recorded)
    /\ supposed' = supposed \cup (kab.recorded \ loc.recorded)

\* An error ends the reconcile.  If it was a component's, the status is
\* written first.
GiveUp ==
    IF loc.pc \in {"webhook", "webhook config", "status"} \cup {CleanupSteps[i] : i \in DOMAIN CleanupSteps}
    THEN EndReconcile
    ELSE GoTo("status") /\ UNCHANGED fresh

\* Resources are applied, or deleted, where the spec says so.
Deploy(pc, wanted, new) ==
    /\ At(pc)
    /\ objs' = IF wanted THEN objs \cup new ELSE objs
    /\ Onward
    /\ UNCHANGED <<kab, fresh, secretVars, bindVars, stackVars, worldVars, edits, faults>>

Remove(pc, wanted, old) ==
    /\ At(pc)
    /\ objs' = IF wanted THEN objs \ old ELSE objs
    /\ Onward
    /\ UNCHANGED <<kab, fresh, secretVars, bindVars, stackVars, worldVars, edits, faults>>

MayHappen == changes + faults < MaxMishaps

\* A fault, of which some happen.
Fault == MayHappen /\ faults' = faults + 1

\* A version, an image or a template that is not right, or a call that fails.
\* Where errors do not end the step they are part of its action.
CallFails ==
    /\ loc.pc \notin {"idle", "targets", "remove links", "remove targets"}
    /\ Fault
    /\ GiveUp
    /\ IF At("status") THEN LoseStatus ELSE UNCHANGED <<forgotten, supposed>>
    /\ UNCHANGED <<kab, objs, secretVars, bound, stackVars, worldVars, edits>>

\* A part that is needed is not in order.
Lacks(pc, part, wanted) ==
    /\ At(pc) /\ wanted /\ part \notin world
    /\ GiveUp
    /\ UNCHANGED <<kab, objs, secretVars, bindVars, stackVars, worldVars, edits, faults>>

\* (A variant with a fault: what the cache does not have is written anew.)
MayCreateOver(s) == TRUE

\* Create refuses to replace.
MayCreate(s) == s \notin kept

\* A random secret is made if the cache has none.  If the API server has one,
\* Create fails.
GenerateSecret(pc, s, wanted) ==
    /\ At(pc)
    /\ IF ~wanted \/ s \in seen
       THEN Onward /\ UNCHANGED <<fresh, kept, generated>>
       ELSE IF MayCreate(s)
       THEN /\ kept' = kept \cup {s}
            /\ generated' = [generated EXCEPT ![s] = @ + 1]
            /\ Onward
            /\ UNCHANGED fresh
       ELSE GiveUp /\ UNCHANGED <<kept, generated>>
    /\ UNCHANGED <<kab, objs, seen, bindVars, stackVars, worldVars, edits, faults>>

-----------------------------------------------------------------------------
(* The reconcile of a Kabanero that is not being deleted *)

Begin ==
    /\ At("idle") /\ kab.phase = "live"
    /\ loc' = [pc |-> "webhook", spec |-> kab.spec, recorded |-> kab.recorded]
    /\ fresh' = TRUE
    /\ UNCHANGED <<kab, objs, secretVars, bindVars, stackVars, worldVars, edits, faults>>

\* The webhook's configurations need the CA, which OpenShift puts into a ConfigMap.
ReconcileAdmissionControllerWebhook ==
    \/ Deploy("webhook", TRUE, {"webhook"})
    \/ "ca" \in world /\ Deploy("webhook config", TRUE, {"webhook config"})
    \/ Lacks("webhook config", "ca", TRUE)

\* The collection controller of earlier releases is removed; errors are logged.
CleanupCollectionController ==
    \/ objs' = objs \ {"collection controller"} /\ UNCHANGED faults
    \/ Fault /\ UNCHANGED objs

\* The components wait for the webhook.
AwaitAdmissionControllerWebhook ==
    /\ At("await webhook")
    /\ CleanupCollectionController
    /\ IF "webhook pod" \in world /\ {"webhook", "webhook config"} \subseteq objs
       THEN Onward ELSE GoTo("status")
    /\ UNCHANGED <<kab, fresh, secretVars, bindVars, stackVars, worldVars, edits>>

\* The controller, and its RoleBinding in tekton-pipelines.
ReconcileStackController ==
    \/ Deploy("stack controller", TRUE, {"stack controller"})
    \/ Deploy("stack binding", TRUE, {"stack binding"})

\* A landing page that is not wanted is removed; deletions of links that fail
\* are logged.
CleanupLandingPage ==
    /\ At("landing") /\ ~loc.spec.landing
    /\ \E left \in SUBSET Links :
         /\ IF left = {} THEN UNCHANGED faults ELSE Fault
         /\ objs' = objs \ ({"landing", "landing roles", "landing deployment"} \cup (Links \ left))
    /\ GoTo("cli secret")
    /\ UNCHANGED <<kab, fresh, secretVars, bindVars, stackVars, worldVars, edits>>

\* Its deployment has to know the URL, and the console gets links to it.
CustomizeWebConsole == \E l \in Links : Deploy(l, TRUE, {l})

DeployLandingPage ==
    \/ loc.spec.landing /\ Deploy("landing", TRUE, {"landing", "landing roles"})
    \/ "route" \in world /\ Deploy("landing deployment", TRUE, {"landing deployment"})
    \/ Lacks("landing deployment", "route", TRUE)
    \/ CustomizeWebConsole
    \/ CleanupLandingPage

CreateEncryptionKeySecret == GenerateSecret("cli secret", "cli", TRUE)

\* A ConfigMap of earlier releases.
DestroyRoleBindingConfigMap(installed) == installed \ {"cli config map"}

ReconcileKabaneroCli ==
    \/ CreateEncryptionKeySecret
    \/ /\ At("cli")
       /\ objs' = DestroyRoleBindingConfigMap(objs \cup {"cli", "cli roles"})
       /\ Onward
       /\ UNCHANGED <<kab, fresh, secretVars, bindVars, stackVars, worldVars, edits, faults>>

IsCRWCRDActive == "crd" \in world

IsCRWInstanceDeployed == objs \cap {"che", "leaving che"} # {}

\* What users have changed is changed back; an error of that is lost.
ValidateCRWInstance ==
    /\ IsCRWInstanceDeployed
    /\ \/ objs' = objs \ {"edited che"} /\ UNCHANGED faults
       \/ Fault /\ UNCHANGED objs

\* The CheCluster is created once.
DeployCRWInstance ==
    /\ At("crw") /\ loc.spec.crw /\ IsCRWCRDActive
    /\ \/ ValidateCRWInstance
       \/ ~IsCRWInstanceDeployed /\ objs' = objs \cup {"che"} /\ UNCHANGED faults
    /\ Onward
    /\ UNCHANGED <<kab, fresh, secretVars, bindVars, stackVars, worldVars, edits>>

DeleteCRWInstance ==
    /\ At("crw") /\ ~loc.spec.crw /\ "che" \in objs
    /\ objs' = (objs \ {"che", "edited che"}) \cup {"leaving che"}
    /\ UNCHANGED <<kab, loc, fresh, secretVars, bindVars, stackVars, worldVars, edits, faults>>

\* The roles go when the CheCluster is gone.  If that takes more than two
\* minutes, or anything fails, the rest is left to the next reconcile.
CleanupCRW ==
    /\ At("crw") /\ ~loc.spec.crw
    /\ \/ ~IsCRWInstanceDeployed /\ objs' = objs \ {"codewind roles"} /\ UNCHANGED faults
       \/ "leaving che" \in objs /\ UNCHANGED <<objs, faults>>
       \/ Fault /\ UNCHANGED objs
    /\ Onward
    /\ UNCHANGED <<kab, fresh, secretVars, bindVars, stackVars, worldVars, edits>>

ReconcileCRW ==
    \/ Deploy("codewind roles", loc.spec.crw, {"codewind roles"})
    \/ Lacks("crw", "crd", loc.spec.crw)
    \/ DeployCRWInstance \/ DeleteCRWInstance \/ CleanupCRW

\* Errors of the cleanup are lost.  The secret goes if the cache has it.
CleanupEvents ==
    /\ At("events") /\ ~loc.spec.events
    /\ \/ objs' = objs \ {"events"} /\ kept' = kept \ (seen \cap {"events"}) /\ UNCHANGED faults
       \/ Fault /\ UNCHANGED <<objs, kept>>
    /\ GoTo("sso secret")
    /\ UNCHANGED <<kab, fresh, seen, generated, bindVars, stackVars, worldVars, edits>>

CreateDefaultEventsSecret == GenerateSecret("events secret", "events", loc.spec.old)

ReconcileEvents ==
    \/ loc.spec.events /\ Deploy("events", TRUE, {"events"})
    \/ CreateDefaultEventsSecret
    \/ CleanupEvents

\* The administrator's secret is checked, then the database gets its own.
CheckSecret == loc.spec.sso => "admin secret" \in world

CreateDbSecret == CheckSecret /\ GenerateSecret("sso secret", "sso", loc.spec.sso)

\* The database secret stays.  An error is lost.
DisableSso ==
    /\ At("sso") /\ ~loc.spec.sso
    /\ \/ objs' = objs \ {"sso"} /\ UNCHANGED faults
       \/ Fault /\ UNCHANGED objs
    /\ Onward
    /\ UNCHANGED <<kab, fresh, secretVars, bindVars, stackVars, worldVars, edits>>

ReconcileSso ==
    \/ Lacks("sso secret", "admin secret", loc.spec.sso)
    \/ CreateDbSecret
    \/ loc.spec.sso /\ Deploy("sso", TRUE, {"sso"})
    \/ DisableSso

\* getTargetNamespaces: the Kabanero's own if there are none.
TargetNamespaces(given) == IF given = {} THEN {Own} ELSE given

\* (A variant with a fault: whether the namespaces are there is not asked.)
FoundUnasked(wanted, missed) == wanted \ missed

\* namespaceExists: a look-up that fails counts like a namespace that is not there.
Found(wanted, missed) == (wanted \cap exists) \ missed

\* (A variant with a fault: the namespaces of the spec are on record, found or not.)
RecordedAll(found) == loc.spec.targets

\* The namespaces of the spec, apart from those that were not found.
Recorded(found) == loc.spec.targets \cap found

\* The status tells which namespaces have their bindings.  Only new ones get
\* them; those that are no longer wanted, or not found, lose them.  Errors of
\* these calls are ignored, what was not found is an error in the end.
ReconcileTargetNamespaces ==
    /\ At("targets")
    /\ LET wanted == TargetNamespaces(loc.spec.targets)
           had == TargetNamespaces(loc.recorded)
       IN  \E missed \in SUBSET (wanted \cap exists) :
             LET found == Found(wanted, missed)
                 old == had \ found
                 new == found \ had
             IN  \E left \in SUBSET old, lost \in SUBSET new :
                   /\ IF missed \cup left \cup lost = {} THEN UNCHANGED faults ELSE Fault
                   /\ bound' = (bound \ (old \ left)) \cup (new \ lost)
                   /\ forgotten' = (forgotten \ old) \cup left
                   /\ supposed' = (supposed \ new) \cup lost
                   /\ loc' = [loc EXCEPT !.recorded = Recorded(found),
                                         !.pc = IF found = wanted THEN "devfile registry" ELSE "status"]
    /\ UNCHANGED <<kab, fresh, objs, secretVars, stackVars, worldVars, edits>>

\* (A variant with a fault: what another version has left stays.)
ReconcileDevfileRegistryKept ==
    \/ ~loc.spec.old /\ Deploy("devfile registry", TRUE, {"devfile registry"})
    \/ Deploy("devfile registry", ~loc.spec.old, {})

\* Where the version has none, one that another version has left is removed.
ReconcileDevfileRegistry ==
    \/ ~loc.spec.old /\ Deploy("devfile registry", TRUE, {"devfile registry"})
    \/ loc.spec.old /\ Remove("devfile registry", TRUE, {"devfile registry"})

ReconcileFeaturedStacks ==
    /\ At("featured stacks")
    /\ stacks' = IF stacks = "none" THEN "some" ELSE stacks
    /\ Onward
    /\ UNCHANGED <<kab, fresh, objs, secretVars, bindVars, shown, overlooked, worldVars, edits,
                   faults>>

\* processStatus: after a conflict what is on record stays as it was.
ProcessStatus ==
    /\ At("status")
    /\ IF fresh
       THEN /\ kab' = [kab EXCEPT !.recorded = loc.recorded]
            /\ forgotten' = forgotten \ loc.recorded
            /\ supposed' = supposed \cap loc.recorded
       ELSE LoseStatus /\ UNCHANGED kab
    /\ EndReconcile
    /\ UNCHANGED <<objs, secretVars, bound, stackVars, worldVars, edits, faults>>

-----------------------------------------------------------------------------
(* cleanup *)

BeginCleanup ==
    /\ At("idle") /\ kab.phase = "deleting"
    /\ loc' = [pc |-> "remove links", spec |-> kab.spec, recorded |-> kab.recorded]
    /\ fresh' = TRUE
    /\ UNCHANGED <<kab, objs, secretVars, bindVars, stackVars, worldVars, edits, faults>>

\* A deletion that fails is logged.
RemoveWebConsoleCustomization ==
    /\ At("remove links")
    /\ \E left \in SUBSET Links :
         /\ IF left = {} THEN UNCHANGED faults ELSE Fault
         /\ objs' = IF loc.spec.landing THEN objs \ (Links \ left) ELSE objs
    /\ Onward
    /\ UNCHANGED <<kab, fresh, secretVars, bindVars, stackVars, worldVars, edits>>

\* (A variant with a fault: the configurations are left to the garbage collector.)
CleanupAdmissionControllerWebhookLocal == Remove("remove webhook", TRUE, {"webhook"})

CleanupAdmissionControllerWebhook == Remove("remove webhook", TRUE, {"webhook", "webhook config"})

\* (A variant with a fault: it is enough that the deletion of the Stacks is asked for.)
MustWaitForNone == FALSE

\* Stacks that the cache lists hold the deletion up.
MustWait == shown

CleanupStacks ==
    /\ At("remove stacks")
    /\ stacks' = IF shown /\ stacks # "none" THEN "leaving" ELSE stacks
    /\ overlooked' = (overlooked \/ (~shown /\ stacks # "none"))
    /\ IF MustWait THEN GiveUp ELSE Onward /\ UNCHANGED fresh
    /\ UNCHANGED <<kab, objs, secretVars, bindVars, shown, worldVars, edits, faults>>

CleanupStackController == CleanupStacks \/ Remove("remove binding", TRUE, {"stack binding"})

\* There is one Kabanero, so the roles go with it.
DeleteCRWOperatorResources == Remove("remove crw", TRUE, {"codewind roles"})

\* Bindings go where the status lists them; errors are ignored.
CleanupTargetNamespaces ==
    /\ At("remove targets")
    /\ LET had == TargetNamespaces(loc.recorded)
       IN  \E left \in SUBSET had :
             /\ IF left = {} THEN UNCHANGED faults ELSE Fault
             /\ bound' = bound \ (had \ left)
             /\ forgotten' = (forgotten \ had) \cup left
    /\ Onward
    /\ UNCHANGED <<kab, fresh, objs, secretVars, supposed, stackVars, worldVars, edits>>

CleanupDevfileRegistry ==
    Remove("remove devfile registry", ~loc.spec.old, {"devfile registry"})

RemoveFinalizer ==
    /\ At("remove finalizer")
    /\ kab' = IF fresh THEN [kab EXCEPT !.phase = "gone"] ELSE kab
    /\ EndReconcile
    /\ UNCHANGED <<objs, secretVars, bindVars, stackVars, worldVars, edits, faults>>

-----------------------------------------------------------------------------
(* Users, the cluster *)

EditKabanero ==
    /\ edits < MaxEdits /\ kab.phase # "gone"
    /\ \/ \E s \in Specs \ {kab.spec} : kab' = [kab EXCEPT !.spec = s]
       \/ kab.phase = "live" /\ kab' = [kab EXCEPT !.phase = "deleting"]
    /\ fresh' = FALSE
    /\ edits' = edits + 1
    /\ UNCHANGED <<loc, objs, secretVars, bindVars, stackVars, worldVars, faults>>

EditChe ==
    /\ edits < MaxEdits /\ "che" \in objs
    /\ objs' = objs \cup {"edited che"}
    /\ edits' = edits + 1
    /\ UNCHANGED <<kab, loc, fresh, secretVars, bindVars, stackVars, worldVars, faults>>

ChangeWorld ==
    /\ MayHappen
    /\ \E p \in Parts : world' = (world \cup {p}) \ (world \cap {p})
    /\ changes' = changes + 1
    /\ UNCHANGED <<kab, loc, fresh, objs, secretVars, bindVars, exists, stackVars, edits, faults>>

DeleteNamespace(n) ==
    /\ MayHappen /\ n # Own
    /\ exists' = exists \ {n} /\ bound' = bound \ {n}
    /\ changes' = changes + 1
    /\ UNCHANGED <<kab, loc, fresh, objs, secretVars, forgotten, supposed, stackVars, world, edits,
                   faults>>

\* A namespace may be back while the status, or the operator, still lists it.
CreateNamespace(n) ==
    /\ n \notin exists
    /\ exists' = exists \cup {n}
    /\ supposed' = supposed \cup ({n} \cap (kab.recorded \cup loc.recorded))
    /\ UNCHANGED <<kab, loc, fresh, objs, secretVars, bound, forgotten, stackVars, world, changes,
                   edits, faults>>

\* The watches bring the caches up to date.
DeliverSecrets ==
    /\ seen' = kept
    /\ UNCHANGED <<kab, loc, fresh, objs, kept, generated, bindVars, stackVars, worldVars, edits, faults>>

DeliverStacks ==
    /\ shown' = (stacks # "none")
    /\ UNCHANGED <<kab, loc, fresh, objs, secretVars, bindVars, stacks, overlooked, worldVars, edits,
                   faults>>

CheGone ==
    /\ "leaving che" \in objs
    /\ objs' = objs \ {"leaving che"}
    /\ UNCHANGED <<kab, loc, fresh, secretVars, bindVars, stackVars, worldVars, edits, faults>>

\* The stack controller sees to the Stacks that are deleted.
FinishStacks ==
    /\ stacks = "leaving" /\ "stack controller" \in objs
    /\ stacks' = "none"
    /\ UNCHANGED <<kab, loc, fresh, objs, secretVars, bindVars, shown, overlooked, worldVars, edits,
                   faults>>

\* When the Kabanero is gone, so is what it owns; Stacks have a finalizer.
CollectGarbage ==
    /\ kab.phase = "gone"
    /\ objs \cap Owned # {} \/ kept # {} \/ stacks = "some"
    /\ objs' = objs \ Owned /\ kept' = {} /\ bound' = bound \ {Own}
    /\ stacks' = IF stacks = "some" THEN "leaving" ELSE stacks
    /\ UNCHANGED <<kab, loc, fresh, seen, generated, forgotten, supposed, shown, overlooked,
                   worldVars, edits, faults>>

Restart ==
    /\ loc.pc # "idle" /\ Fault
    /\ EndReconcile
    /\ LoseStatus
    /\ seen' = kept /\ shown' = (stacks # "none")
    /\ UNCHANGED <<kab, objs, kept, generated, bound, stacks, overlooked, worldVars, edits>>

-----------------------------------------------------------------------------

Install ==
    \/ Begin
    \/ ReconcileAdmissionControllerWebhook \/ AwaitAdmissionControllerWebhook
    \/ ReconcileStackController \/ DeployLandingPage \/ ReconcileKabaneroCli \/ ReconcileCRW
    \/ ReconcileEvents \/ ReconcileSso \/ ReconcileTargetNamespaces \/ ReconcileDevfileRegistry
    \/ ReconcileFeaturedStacks \/ ProcessStatus

Cleanup ==
    \/ BeginCleanup
    \/ RemoveWebConsoleCustomization \/ CleanupAdmissionControllerWebhook
    \/ CleanupStackController \/ DeleteCRWOperatorResources \/ CleanupTargetNamespaces
    \/ CleanupDevfileRegistry \/ RemoveFinalizer

Environment ==
    \/ EditKabanero \/ EditChe \/ ChangeWorld \/ DeliverSecrets \/ DeliverStacks \/ CheGone
    \/ FinishStacks \/ CollectGarbage \/ \E n \in Namespaces : DeleteNamespace(n) \/ CreateNamespace(n)

Next == Install \/ Cleanup \/ CallFails \/ Restart \/ Environment

\* The worker goes on and is called again, the watches deliver, the stack
\* controller and the operator of CodeReady Workspaces do their work.
Fairness ==
    WF_vars(Install) /\ WF_vars(Cleanup) /\ WF_vars(DeliverSecrets) /\ WF_vars(DeliverStacks)
        /\ WF_vars(CheGone) /\ WF_vars(FinishStacks)

Spec == Init /\ [][Next]_vars /\ Fairness

-----------------------------------------------------------------------------
(* Properties *)

TypeOK ==
    /\ kab \in Resource /\ loc \in Local /\ fresh \in BOOLEAN
    /\ objs \subseteq Owned \cup Unowned \cup Legacy
    /\ kept \subseteq Secrets /\ seen \subseteq Secrets
    /\ generated \in [Secrets -> 0..(MaxEdits + 1)]
    /\ bound \subseteq exists /\ exists \subseteq Namespaces
    /\ forgotten \subseteq Namespaces /\ supposed \subseteq Namespaces
    /\ stacks \in {"none", "some", "leaving"} /\ shown \in BOOLEAN /\ overlooked \in BOOLEAN
    /\ world \subseteq Parts
    /\ edits \in 0..MaxEdits /\ changes \in Nat /\ faults \in Nat /\ changes + faults <= MaxMishaps

\* The key of the CLI and the credentials of the single sign-on database are
\* made once in the life of a Kabanero, however old the cache is in which they
\* are looked up, and whether single sign-on is switched off and on again:
\* nobody could read any more what the first ones have sealed.
SecretsMadeOnce == \A s \in {"cli", "sso"} : generated[s] <= 1

\* A Kabanero that is gone leaves, of what the garbage collector does not see,
\* the cluster roles of the landing page and of the CLI, the console links if the
\* landing page was not wanted in the end or a call has failed, and bindings in
\* those namespaces that an ignored error or a lost status made it forget.  What
\* was edited, what failed and at what point the deletion came does not matter
\* for the rest: the webhook's configurations, the rights in the other namespace,
\* the roles of CodeReady Workspaces and the bindings everywhere else.
NothingLeftBehind ==
    kab.phase = "gone" =>
        /\ objs \cap (Unowned \ (Links \cup Roles)) = {}
        /\ kab.spec.landing /\ faults = 0 => objs \cap Links = {}
        /\ bound \ {Own} \subseteq forgotten

\* As long as Stacks are being deleted, the controller that must do that is
\* there, with its rights in the other namespace, unless the clean-up listed the
\* Stacks before the cache had been told of them.
ControllerOutlivesStacks ==
    stacks = "leaving" => {"stack controller", "stack binding"} \subseteq objs \/ overlooked

\* What a spec asks for.
Wanted(spec) ==
    {"webhook", "webhook config", "stack controller", "stack binding", "cli", "cli roles"}
        \cup (IF spec.landing THEN {"landing", "landing roles", "landing deployment"} \cup Links ELSE {})
        \cup (IF spec.crw THEN {"codewind roles", "che"} ELSE {})
        \cup (IF spec.events THEN {"events"} ELSE {})
        \cup (IF spec.sso THEN {"sso"} ELSE {})
        \cup (IF spec.old THEN {} ELSE {"devfile registry"})

InOrder == kab.phase = "live" /\ world = Parts /\ kab.spec.targets \subseteq exists

\* What is installed comes to be what the spec asks for, no more and no less,
\* and stays so, whatever the order in which components were switched on and
\* off, in spite of errors that nobody hears of, conflicts and restarts.
SettlesToSpec == <>[]InOrder => <>[](objs = Wanted(kab.spec))

\* The same for the bindings in another namespace that is a target all the
\* time: the operator only makes them where its own status does not list them,
\* look-ups fail, statuses are lost or come late, and the namespace may come and
\* go.  The exception are namespaces that stay on record without having them.
TargetsGetBound ==
    \A n \in Namespaces \ {Own} :
        [](n \in kab.spec.targets) /\ <>[](InOrder /\ n \notin supposed) => <>[](n \in bound)

\* "If targetNamespaces is empty, default to binding to kabanero": without
\* target namespaces, the Kabanero's own one gets the bindings.
DefaultGetsBound ==
    <>[](InOrder /\ kab.spec.targets = {}) => <>(Own \in bound)
=============================================================================
