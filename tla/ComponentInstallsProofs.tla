--------------------------- MODULE ComponentInstallsProofs ---------------------------
(****************************************************************************)
(* For any namespaces, specs, edits, faults and changes of the cluster: the *)
(* secrets of the components, the lifetime of the stack controller whose    *)
(* Stacks the deletion waits for, what the deletion of a Kabanero leaves    *)
(* behind, and the types.                                                   *)
(****************************************************************************)
EXTENDS ComponentInstalls, TLAPS, SequenceTheorems

Sealing == {"cli", "sso"}

\* A Kabanero is a record of the three fields, whatever they hold.
KabShape == kab = [phase |-> kab.phase, spec |-> kab.spec, recorded |-> kab.recorded]

\* A secret was made once if it is there, or was when the Kabanero went, and
\* never otherwise; and when the Kabanero is gone, no reconcile of it is under
\* way that could make one again.
SecretsInv ==
    /\ KabShape
    /\ generated \in [Secrets -> Nat]
    /\ kab.phase = "gone" => loc.pc = "idle"
    /\ \A s \in Sealing :
         \/ generated[s] = 0
         \/ generated[s] = 1 /\ (s \in kept \/ kab.phase = "gone")

LEMMA InitSecrets == Init => SecretsInv
<1> SUFFICES ASSUME Init PROVE SecretsInv
  OBVIOUS
<1>1. KabShape /\ kab.phase = "live"
  BY DEF Init, KabShape
<1>2. generated \in [Secrets -> Nat] /\ \A s \in Sealing : generated[s] = 0
  BY DEF Init, Secrets, Sealing
<1> QED
  BY <1>1, <1>2 DEF SecretsInv

-----------------------------------------------------------------------------
(* What leaves the secrets alone *)

\* A step of a reconcile: the Kabanero is not gone.
LEMMA StepKeeps ==
    ASSUME SecretsInv, loc.pc # "idle", UNCHANGED <<kab, kept, generated>>
    PROVE  SecretsInv'
  BY DEF SecretsInv, KabShape

\* A step of others.
LEMMA OthersKeep ==
    ASSUME SecretsInv, UNCHANGED <<kab, loc, kept, generated>>
    PROVE  SecretsInv'
  BY DEF SecretsInv, KabShape

\* The end of a reconcile.
LEMMA EndKeeps ==
    ASSUME SecretsInv, EndReconcile, UNCHANGED <<kept, generated>>,
           KabShape', kab'.phase \in {kab.phase, "gone"}
    PROVE  SecretsInv'
<1>1. loc'.pc = "idle"
  BY DEF EndReconcile, IdleState
<1> QED
  BY <1>1 DEF SecretsInv

LEMMA DeployKeeps ==
    ASSUME SecretsInv, NEW pc, pc # "idle", NEW wanted, NEW new, Deploy(pc, wanted, new)
    PROVE  SecretsInv'
  BY StepKeeps DEF Deploy, At, secretVars

LEMMA RemoveKeeps ==
    ASSUME SecretsInv, NEW pc, pc # "idle", NEW wanted, NEW old, Remove(pc, wanted, old)
    PROVE  SecretsInv'
  BY StepKeeps DEF Remove, At, secretVars

LEMMA LacksKeeps ==
    ASSUME SecretsInv, NEW pc, pc # "idle", NEW part, NEW wanted, Lacks(pc, part, wanted)
    PROVE  SecretsInv'
  BY StepKeeps DEF Lacks, At, secretVars

-----------------------------------------------------------------------------
(* What makes or removes them *)

\* A secret that is not stored is made for the first time.
LEMMA GenerateKeeps ==
    ASSUME SecretsInv, NEW pc, pc # "idle", NEW s \in Secrets, NEW wanted,
           GenerateSecret(pc, s, wanted)
    PROVE  SecretsInv'
<1>1. UNCHANGED kab /\ loc.pc # "idle"
  BY DEF GenerateSecret, At
<1>2. kab.phase # "gone"
  BY <1>1 DEF SecretsInv
<1>3. CASE UNCHANGED <<kept, generated>>
  BY <1>1, <1>3, StepKeeps
<1>4. CASE /\ s \notin kept /\ kept' = kept \cup {s}
           /\ generated' = [generated EXCEPT ![s] = @ + 1]
  <2>1. generated' \in [Secrets -> Nat] /\ generated'[s] = generated[s] + 1
    BY <1>4 DEF SecretsInv
  <2>2. \A t \in Secrets \ {s} : generated'[t] = generated[t]
    BY <1>4 DEF SecretsInv
  <2>3. s \in Sealing => generated[s] = 0
    BY <1>2, <1>4 DEF SecretsInv
  <2>4. ASSUME NEW t \in Sealing
        PROVE  generated'[t] = 0 \/ (generated'[t] = 1 /\ t \in kept')
    <3>1. CASE t = s
      BY <3>1, <2>1, <2>3, <1>4
    <3>2. CASE t # s
      <4>1. t \in Secrets
        BY DEF Sealing, Secrets
      <4>2. generated'[t] = generated[t]
        BY <2>2, <3>2, <4>1
      <4> QED
        BY <4>2, <1>2, <1>4 DEF SecretsInv
    <3> QED
      BY <3>1, <3>2
  <2> QED
    BY <2>1, <2>4, <1>1, <1>2 DEF SecretsInv, KabShape
<1> QED
  BY <1>3, <1>4 DEF GenerateSecret, MayCreate

\* The one secret that is removed before the Kabanero is gone is that of the
\* events.
LEMMA CleanupEventsKeeps ==
    ASSUME SecretsInv, CleanupEvents
    PROVE  SecretsInv'
<1>1. UNCHANGED <<kab, generated>> /\ loc.pc # "idle"
  BY DEF CleanupEvents, At
<1>2. \A s \in Sealing : s \in kept => s \in kept'
  BY DEF CleanupEvents, Sealing
<1> QED
  BY <1>1, <1>2 DEF SecretsInv, KabShape

LEMMA CollectGarbageKeeps ==
    ASSUME SecretsInv, CollectGarbage
    PROVE  SecretsInv'
  BY DEF CollectGarbage, SecretsInv, KabShape

-----------------------------------------------------------------------------

LEMMA ComponentsKeep ==
    ASSUME SecretsInv,
           \/ ReconcileAdmissionControllerWebhook \/ AwaitAdmissionControllerWebhook
           \/ ReconcileStackController \/ DeployLandingPage \/ ReconcileKabaneroCli \/ ReconcileCRW
    PROVE  SecretsInv'
<1>1. CASE ReconcileAdmissionControllerWebhook
  BY <1>1, DeployKeeps, LacksKeeps DEF ReconcileAdmissionControllerWebhook
<1>2. CASE AwaitAdmissionControllerWebhook
  BY <1>2, StepKeeps DEF AwaitAdmissionControllerWebhook, At, secretVars
<1>3. CASE ReconcileStackController
  BY <1>3, DeployKeeps DEF ReconcileStackController
<1>4. CASE DeployLandingPage
  <2>1. CASE CleanupLandingPage
    BY <2>1, StepKeeps DEF CleanupLandingPage, At, secretVars
  <2>2. CASE CustomizeWebConsole
    BY <2>2, DeployKeeps DEF CustomizeWebConsole, Links
  <2> QED
    BY <1>4, <2>1, <2>2, DeployKeeps, LacksKeeps DEF DeployLandingPage
<1>5. CASE ReconcileKabaneroCli
  <2>1. CASE CreateEncryptionKeySecret
    BY <2>1, GenerateKeeps DEF CreateEncryptionKeySecret, Secrets
  <2> QED
    BY <1>5, <2>1, StepKeeps DEF ReconcileKabaneroCli, At, secretVars
<1>6. CASE ReconcileCRW
  <2>1. CASE DeployCRWInstance \/ DeleteCRWInstance \/ CleanupCRW
    BY <2>1, StepKeeps DEF DeployCRWInstance, DeleteCRWInstance, CleanupCRW, At, secretVars
  <2> QED
    BY <1>6, <2>1, DeployKeeps, LacksKeeps DEF ReconcileCRW
<1> QED
  BY <1>1, <1>2, <1>3, <1>4, <1>5, <1>6

LEMMA MoreComponentsKeep ==
    ASSUME SecretsInv,
           \/ ReconcileEvents \/ ReconcileSso \/ ReconcileTargetNamespaces
           \/ ReconcileDevfileRegistry \/ ReconcileFeaturedStacks
    PROVE  SecretsInv'
<1>1. CASE ReconcileEvents
  <2>1. CASE CreateDefaultEventsSecret
    BY <2>1, GenerateKeeps DEF CreateDefaultEventsSecret, Secrets
  <2> QED
    BY <1>1, <2>1, DeployKeeps, CleanupEventsKeeps DEF ReconcileEvents
<1>2. CASE ReconcileSso
  <2>1. CASE CreateDbSecret
    BY <2>1, GenerateKeeps DEF CreateDbSecret, Secrets
  <2>2. CASE DisableSso
    BY <2>2, StepKeeps DEF DisableSso, At, secretVars
  <2> QED
    BY <1>2, <2>1, <2>2, DeployKeeps, LacksKeeps DEF ReconcileSso
<1>3. CASE ReconcileTargetNamespaces \/ ReconcileFeaturedStacks
  BY <1>3, StepKeeps DEF ReconcileTargetNamespaces, ReconcileFeaturedStacks, At, secretVars
<1>4. CASE ReconcileDevfileRegistry
  BY <1>4, DeployKeeps, RemoveKeeps DEF ReconcileDevfileRegistry
<1> QED
  BY <1>1, <1>2, <1>3, <1>4

LEMMA BeginsKeep ==
    ASSUME SecretsInv, Begin \/ BeginCleanup
    PROVE  SecretsInv'
  BY DEF Begin, BeginCleanup, At, secretVars, SecretsInv, KabShape

LEMMA ProcessStatusKeeps ==
    ASSUME SecretsInv, ProcessStatus
    PROVE  SecretsInv'
<1>1. KabShape' /\ kab'.phase = kab.phase
  BY DEF ProcessStatus, SecretsInv, KabShape
<1> QED
  BY <1>1, EndKeeps DEF ProcessStatus, secretVars

LEMMA CleanupKeeps ==
    ASSUME SecretsInv, Cleanup
    PROVE  SecretsInv'
<1>1. CASE RemoveWebConsoleCustomization \/ CleanupTargetNamespaces \/ CleanupStacks
  BY <1>1, StepKeeps
  DEF RemoveWebConsoleCustomization, CleanupTargetNamespaces, CleanupStacks, At, secretVars
<1>2. CASE \/ CleanupAdmissionControllerWebhook \/ DeleteCRWOperatorResources
           \/ CleanupDevfileRegistry \/ Remove("remove binding", TRUE, {"stack binding"})
  BY <1>2, RemoveKeeps
  DEF CleanupAdmissionControllerWebhook, DeleteCRWOperatorResources, CleanupDevfileRegistry
<1>3. CASE RemoveFinalizer
  <2>1. KabShape' /\ kab'.phase \in {kab.phase, "gone"}
    BY <1>3 DEF RemoveFinalizer, SecretsInv, KabShape
  <2> QED
    BY <1>3, <2>1, EndKeeps DEF RemoveFinalizer, secretVars
<1> QED
  BY <1>1, <1>2, <1>3, BeginsKeep DEF Cleanup, CleanupStackController

LEMMA FaultsKeep ==
    ASSUME SecretsInv, CallFails \/ Restart
    PROVE  SecretsInv'
<1>1. CASE CallFails
  BY <1>1, StepKeeps DEF CallFails, secretVars
<1>2. CASE Restart
  BY <1>2, EndKeeps DEF Restart, SecretsInv, KabShape
<1> QED
  BY <1>1, <1>2

LEMMA EnvironmentKeeps ==
    ASSUME SecretsInv, Environment
    PROVE  SecretsInv'
<1>1. CASE EditKabanero
  <2>1. UNCHANGED <<loc, kept, generated>> /\ kab.phase # "gone"
    BY <1>1 DEF EditKabanero, secretVars
  <2>2. KabShape' /\ kab'.phase \in {kab.phase, "deleting"}
    BY <1>1 DEF EditKabanero, SecretsInv, KabShape
  <2> QED
    BY <2>1, <2>2 DEF SecretsInv
<1>2. CASE EditChe \/ ChangeWorld \/ DeliverSecrets \/ DeliverStacks \/ CheGone \/ FinishStacks
  BY <1>2, OthersKeep
  DEF EditChe, ChangeWorld, DeliverSecrets, DeliverStacks, CheGone, FinishStacks, secretVars
<1>3. ASSUME NEW n \in Namespaces, DeleteNamespace(n) \/ CreateNamespace(n)
      PROVE  SecretsInv'
  BY <1>3, OthersKeep DEF DeleteNamespace, CreateNamespace, secretVars
<1> QED
  BY <1>1, <1>2, <1>3, CollectGarbageKeeps DEF Environment

LEMMA NextSecrets == SecretsInv /\ [Next]_vars => SecretsInv'
<1> SUFFICES ASSUME SecretsInv, [Next]_vars PROVE SecretsInv'
  OBVIOUS
<1>1. CASE Install
  BY <1>1, BeginsKeep, ComponentsKeep, MoreComponentsKeep, ProcessStatusKeeps DEF Install
<1>2. CASE UNCHANGED vars
  BY <1>2, OthersKeep DEF vars
<1> QED
  BY <1>1, <1>2, CleanupKeeps, FaultsKeep, EnvironmentKeeps DEF Next

\* The CLI's key and the database's credentials are made at most once in the
\* life of a Kabanero, with any number of components switched on and off, of
\* faults, and of lookups in a cache that is out of date.
THEOREM SecretsAlwaysMadeOnce == Spec => []SecretsMadeOnce
<1>1. SecretsInv => SecretsMadeOnce
  BY DEF SecretsInv, SecretsMadeOnce, Sealing
<1> QED
  BY <1>1, InitSecrets, NextSecrets, PTL DEF Spec
-----------------------------------------------------------------------------
(* The order of the steps *)

\* From the landing page to the featured stacks.
LateSteps == {"landing", "landing deployment", "app menu link", "help menu links", "cli secret",
              "cli", "codewind roles", "crw", "events", "events secret", "sso secret", "sso",
              "targets", "devfile registry", "featured stacks"}

\* Those of the clean-up that come when the Stacks are gone.
LastSteps == {"remove binding", "remove crw", "remove targets", "remove devfile registry",
              "remove finalizer"}

\* The others that go on with the step after them.
FirstSteps == {"webhook", "webhook config", "await webhook", "remove links", "remove webhook"}

\* What they go on with.
SecondSteps == {"webhook config", "await webhook", "stack controller", "remove webhook",
                "remove stacks"}

FollowedSteps == FirstSteps \cup {"stack controller", "stack binding", "remove stacks"}
                   \cup LateSteps \cup (LastSteps \ {"remove finalizer"})

Steps == FirstSteps \cup LateSteps \cup LastSteps
           \cup {"stack controller", "stack binding", "remove stacks", "status"}


LEMMA StepsInOrder ==
    /\ DOMAIN AllSteps = 1..29
    /\ \A i \in 1..21 : AllSteps[i] = InstallSteps[i]
    /\ \A i \in 1..8 : AllSteps[21 + i] = CleanupSteps[i]
<1> DEFINE s == InstallSteps
           t == CleanupSteps
           a == s \o t
<1>1. Len(s) = 21 /\ Len(t) = 8
  BY DEF InstallSteps, CleanupSteps
<1>2. s \in Seq(Steps)
  BY DEF InstallSteps, Steps, FirstSteps, LateSteps, LastSteps
<1>3. t \in Seq(Steps)
  BY DEF CleanupSteps, Steps, FirstSteps, LateSteps, LastSteps
<1>4. a = AllSteps
  BY DEF AllSteps
<1> HIDE DEF s, t
<1>5. /\ a \in Seq(Steps) /\ Len(a) = Len(s) + Len(t)
      /\ \A i \in 1 .. Len(s) + Len(t) : a[i] = IF i <= Len(s) THEN s[i] ELSE t[i - Len(s)]
  BY <1>2, <1>3, ConcatProperties, Zenon
<1> HIDE DEF a
<1>6. Len(s) + Len(t) = 29 /\ Len(s) = 21
  BY <1>1
<1>7. /\ a \in Seq(Steps) /\ Len(a) = 29
      /\ \A i \in 1..29 : a[i] = IF i <= 21 THEN s[i] ELSE t[i - 21]
  BY <1>5, <1>6
<1>8. \A i \in 1..8 : 21 + i \in 1..29 /\ ~(21 + i <= 21) /\ (21 + i) - 21 = i
  OBVIOUS
<1>9. \A i \in 1..8 : a[21 + i] = t[(21 + i) - 21]
  BY <1>7, <1>8
<1>10. DOMAIN a = 1..29 /\ \A i \in 1..21 : a[i] = s[i]
  BY <1>7
<1>11. \A i \in 1..8 : a[21 + i] = t[i]
  BY <1>8, <1>9
<1> QED
  BY <1>4, <1>10, <1>11, Zenon DEF s, t

LEMMA InstallNumbers ==
    /\ AllSteps[1] = "webhook" /\ AllSteps[2] = "webhook config" /\ AllSteps[3] = "await webhook"
    /\ AllSteps[4] = "stack controller" /\ AllSteps[5] = "stack binding" /\ AllSteps[6] = "landing"
    /\ AllSteps[7] = "landing deployment" /\ AllSteps[8] = "app menu link" /\ AllSteps[9] = "help menu links"
    /\ AllSteps[10] = "cli secret" /\ AllSteps[11] = "cli" /\ AllSteps[12] = "codewind roles"
    /\ AllSteps[13] = "crw" /\ AllSteps[14] = "events" /\ AllSteps[15] = "events secret"
    /\ AllSteps[16] = "sso secret" /\ AllSteps[17] = "sso" /\ AllSteps[18] = "targets"
    /\ AllSteps[19] = "devfile registry" /\ AllSteps[20] = "featured stacks" /\ AllSteps[21] = "status"
<1>1. /\ AllSteps[1] = InstallSteps[1] /\ AllSteps[2] = InstallSteps[2] /\ AllSteps[3] = InstallSteps[3]
      /\ AllSteps[4] = InstallSteps[4] /\ AllSteps[5] = InstallSteps[5] /\ AllSteps[6] = InstallSteps[6]
      /\ AllSteps[7] = InstallSteps[7] /\ AllSteps[8] = InstallSteps[8] /\ AllSteps[9] = InstallSteps[9]
      /\ AllSteps[10] = InstallSteps[10] /\ AllSteps[11] = InstallSteps[11] /\ AllSteps[12] = InstallSteps[12]
      /\ AllSteps[13] = InstallSteps[13] /\ AllSteps[14] = InstallSteps[14] /\ AllSteps[15] = InstallSteps[15]
      /\ AllSteps[16] = InstallSteps[16] /\ AllSteps[17] = InstallSteps[17] /\ AllSteps[18] = InstallSteps[18]
      /\ AllSteps[19] = InstallSteps[19] /\ AllSteps[20] = InstallSteps[20] /\ AllSteps[21] = InstallSteps[21]
  BY StepsInOrder
<1> QED
  BY <1>1 DEF InstallSteps

LEMMA CleanupNumbers ==
    /\ AllSteps[22] = "remove links" /\ AllSteps[23] = "remove webhook" /\ AllSteps[24] = "remove stacks"
    /\ AllSteps[25] = "remove binding" /\ AllSteps[26] = "remove crw" /\ AllSteps[27] = "remove targets"
    /\ AllSteps[28] = "remove devfile registry" /\ AllSteps[29] = "remove finalizer"
<1>1. /\ AllSteps[22] = CleanupSteps[1] /\ AllSteps[23] = CleanupSteps[2] /\ AllSteps[24] = CleanupSteps[3]
      /\ AllSteps[25] = CleanupSteps[4] /\ AllSteps[26] = CleanupSteps[5] /\ AllSteps[27] = CleanupSteps[6]
      /\ AllSteps[28] = CleanupSteps[7] /\ AllSteps[29] = CleanupSteps[8]
  BY StepsInOrder
<1> QED
  BY <1>1 DEF CleanupSteps

LEMMA Numbers ==
    \A i \in 1..29 :
        i = 1 \/ i = 2 \/ i = 3 \/ i = 4 \/ i = 5 \/ i = 6 \/ i = 7 \/ i = 8 \/ i = 9 \/ i = 10 \/ i = 11 \/ i = 12 \/ i = 13 \/ i = 14
        \/ i = 15 \/ i = 16 \/ i = 17 \/ i = 18 \/ i = 19 \/ i = 20 \/ i = 21 \/ i = 22 \/ i = 23 \/ i = 24 \/ i = 25 \/ i = 26 \/ i = 27 \/ i = 28 \/ i = 29
  OBVIOUS

\* Where a step is in the order, by its name.
LEMMA Positions ==
    ASSUME NEW i \in 1..29
    PROVE  /\ AllSteps[i] \in FirstSteps => i \in {1, 2, 3, 22, 23}
           /\ AllSteps[i] = "stack controller" => i = 4
           /\ AllSteps[i] \in LateSteps \cup {"stack binding"} => 5 <= i /\ i <= 20
           /\ AllSteps[i] \in {"remove stacks"} \cup (LastSteps \ {"remove finalizer"}) => 24 <= i /\ i <= 28
<1>1. AllSteps[i] \in FirstSteps => i \in {1, 2, 3, 22, 23}
  BY Numbers, InstallNumbers, CleanupNumbers DEF FirstSteps
<1>2. AllSteps[i] = "stack controller" => i = 4
  BY Numbers, InstallNumbers, CleanupNumbers
<1>3. AllSteps[i] \in LateSteps \cup {"stack binding"} => 5 <= i /\ i <= 20
  <2> DEFINE L == LateSteps \cup {"stack binding"}
  <2>1. /\ AllSteps[1] \notin L /\ AllSteps[2] \notin L /\ AllSteps[3] \notin L
        /\ AllSteps[4] \notin L /\ AllSteps[21] \notin L /\ AllSteps[22] \notin L
        /\ AllSteps[23] \notin L /\ AllSteps[24] \notin L /\ AllSteps[25] \notin L
        /\ AllSteps[26] \notin L /\ AllSteps[27] \notin L /\ AllSteps[28] \notin L
        /\ AllSteps[29] \notin L
    BY InstallNumbers, CleanupNumbers DEF LateSteps
  <2> HIDE DEF L
  <2>2. AllSteps[i] \in L => 5 <= i /\ i <= 20
    BY <2>1, Numbers
  <2> QED
    BY <2>2 DEF L
<1>4. AllSteps[i] \in {"remove stacks"} \cup (LastSteps \ {"remove finalizer"}) => 24 <= i /\ i <= 28
  <2> DEFINE L == {"remove stacks"} \cup (LastSteps \ {"remove finalizer"})
  <2>1. /\ AllSteps[1] \notin L /\ AllSteps[2] \notin L /\ AllSteps[3] \notin L
        /\ AllSteps[4] \notin L /\ AllSteps[5] \notin L /\ AllSteps[6] \notin L
        /\ AllSteps[7] \notin L /\ AllSteps[8] \notin L /\ AllSteps[9] \notin L
        /\ AllSteps[10] \notin L /\ AllSteps[11] \notin L /\ AllSteps[12] \notin L
        /\ AllSteps[13] \notin L /\ AllSteps[14] \notin L /\ AllSteps[15] \notin L
        /\ AllSteps[16] \notin L /\ AllSteps[17] \notin L /\ AllSteps[18] \notin L
        /\ AllSteps[19] \notin L /\ AllSteps[20] \notin L /\ AllSteps[21] \notin L
        /\ AllSteps[22] \notin L /\ AllSteps[23] \notin L /\ AllSteps[29] \notin L
    BY InstallNumbers, CleanupNumbers DEF LastSteps
  <2> HIDE DEF L
  <2>2. AllSteps[i] \in L => 24 <= i /\ i <= 28
    BY <2>1, Numbers
  <2> QED
    BY <2>2 DEF L
<1> QED
  BY <1>1, <1>2, <1>3, <1>4

\* What comes after them.
LEMMA Followers ==
    ASSUME NEW i \in 1..28
    PROVE  /\ i \in {1, 2, 3, 22, 23} => AllSteps[i + 1] \in SecondSteps
           /\ i = 4 => AllSteps[i + 1] = "stack binding"
           /\ 5 <= i /\ i <= 20 => AllSteps[i + 1] \in LateSteps \cup {"status"}
           /\ 24 <= i /\ i <= 28 => AllSteps[i + 1] \in LastSteps
<1>1. i \in {1, 2, 3, 22, 23} => AllSteps[i + 1] \in SecondSteps
  <2>1. i \in {1, 2, 3, 22, 23} => i + 1 \in {2, 3, 4, 23, 24}
    OBVIOUS
  <2>2. \A j \in {2, 3, 4, 23, 24} : AllSteps[j] \in SecondSteps
    BY InstallNumbers, CleanupNumbers DEF SecondSteps
  <2> QED
    BY <2>1, <2>2
<1>2. i = 4 => AllSteps[i + 1] = "stack binding"
  <2>1. i = 4 => i + 1 = 5
    OBVIOUS
  <2> QED
    BY <2>1, InstallNumbers, CleanupNumbers
<1>3. 5 <= i /\ i <= 20 => AllSteps[i + 1] \in LateSteps \cup {"status"}
  <2>1. \A j \in 1..29 : 6 <= j /\ j <= 21 => AllSteps[j] \in LateSteps \cup {"status"}
    <3> DEFINE L == LateSteps \cup {"status"}
    <3>1. /\ AllSteps[6] \in L /\ AllSteps[7] \in L /\ AllSteps[8] \in L
        /\ AllSteps[9] \in L /\ AllSteps[10] \in L /\ AllSteps[11] \in L
        /\ AllSteps[12] \in L /\ AllSteps[13] \in L /\ AllSteps[14] \in L
        /\ AllSteps[15] \in L /\ AllSteps[16] \in L /\ AllSteps[17] \in L
        /\ AllSteps[18] \in L /\ AllSteps[19] \in L /\ AllSteps[20] \in L
        /\ AllSteps[21] \in L
      BY InstallNumbers, CleanupNumbers DEF LateSteps
    <3> HIDE DEF L
    <3>2. \A j \in 1..29 : 6 <= j /\ j <= 21 => AllSteps[j] \in L
      BY <3>1, Numbers
    <3> QED
      BY <3>2 DEF L
  <2>2. i + 1 \in 1..29 /\ (5 <= i /\ i <= 20 => 6 <= i + 1 /\ i + 1 <= 21)
    OBVIOUS
  <2> QED
    BY <2>1, <2>2
<1>4. 24 <= i /\ i <= 28 => AllSteps[i + 1] \in LastSteps
  <2>1. \A j \in 1..29 : 25 <= j => AllSteps[j] \in LastSteps
    <3>1. /\ AllSteps[25] \in LastSteps /\ AllSteps[26] \in LastSteps /\ AllSteps[27] \in LastSteps
        /\ AllSteps[28] \in LastSteps /\ AllSteps[29] \in LastSteps
      BY InstallNumbers, CleanupNumbers DEF LastSteps
    <3> QED
      BY <3>1, Numbers
  <2>2. i + 1 \in 1..29 /\ (24 <= i => 25 <= i + 1)
    OBVIOUS
  <2> QED
    BY <2>1, <2>2
<1> QED
  BY <1>1, <1>2, <1>3, <1>4

\* A reconcile is a record of the three fields.
LocShape == loc = [pc |-> loc.pc, spec |-> loc.spec, recorded |-> loc.recorded]

\* Each of these steps has a next one.
LEMMA Follower ==
    ASSUME Onward, loc.pc \in FollowedSteps
    PROVE  \E i \in 1..28 : AllSteps[i] = loc.pc /\ loc' = [loc EXCEPT !.pc = AllSteps[i + 1]]
<1> DEFINE n == CHOOSE i \in DOMAIN AllSteps : AllSteps[i] = loc.pc
<1>1. \E i \in 1..29 : AllSteps[i] = loc.pc
  <2> DEFINE all == {AllSteps[i] : i \in 1..29}
  <2>1. \A i \in 1..29 : AllSteps[i] \in all
    OBVIOUS
  <2> HIDE DEF all
  <2>2. /\ AllSteps[1] \in all /\ AllSteps[2] \in all /\ AllSteps[3] \in all
        /\ AllSteps[4] \in all /\ AllSteps[5] \in all /\ AllSteps[6] \in all
        /\ AllSteps[7] \in all /\ AllSteps[8] \in all /\ AllSteps[9] \in all
        /\ AllSteps[10] \in all /\ AllSteps[11] \in all /\ AllSteps[12] \in all
        /\ AllSteps[13] \in all /\ AllSteps[14] \in all /\ AllSteps[15] \in all
        /\ AllSteps[16] \in all /\ AllSteps[17] \in all /\ AllSteps[18] \in all
        /\ AllSteps[19] \in all /\ AllSteps[20] \in all
    BY <2>1
  <2>3. /\ AllSteps[22] \in all /\ AllSteps[23] \in all /\ AllSteps[24] \in all
        /\ AllSteps[25] \in all /\ AllSteps[26] \in all /\ AllSteps[27] \in all
        /\ AllSteps[28] \in all /\ AllSteps[29] \in all
    BY <2>1
  <2>4. /\ FirstSteps \subseteq all
        /\ "stack controller" \in all /\ "stack binding" \in all
    <3>1. /\ "webhook" \in all /\ "webhook config" \in all /\ "await webhook" \in all
          /\ "stack controller" \in all /\ "stack binding" \in all
      BY <2>2, InstallNumbers
    <3>2. "remove links" \in all /\ "remove webhook" \in all
      BY <2>3, CleanupNumbers
    <3> QED
      BY <3>1, <3>2 DEF FirstSteps
  <2>7. LateSteps \subseteq all
    <3>1. /\ "landing" \in all /\ "landing deployment" \in all /\ "app menu link" \in all
          /\ "help menu links" \in all /\ "cli secret" \in all /\ "cli" \in all
          /\ "codewind roles" \in all /\ "crw" \in all /\ "events" \in all
          /\ "events secret" \in all /\ "sso secret" \in all /\ "sso" \in all
          /\ "targets" \in all /\ "devfile registry" \in all /\ "featured stacks" \in all
      BY <2>2, InstallNumbers
    <3> QED
      BY <3>1 DEF LateSteps
  <2>5. LastSteps \cup {"remove stacks"} \subseteq all
    BY <2>3, CleanupNumbers DEF LastSteps
  <2>6. loc.pc \in all
    BY <2>4, <2>5, <2>7 DEF FollowedSteps
  <2> QED
    BY <2>6 DEF all
<1>2. n \in 1..29 /\ AllSteps[n] = loc.pc
  BY <1>1, StepsInOrder
<1>3. loc' = [loc EXCEPT !.pc = AllSteps[1 + n]]
  BY DEF Onward, GoTo
<1> HIDE DEF n
<1>5. n \in 1..28
  <2>1. AllSteps[29] \notin FollowedSteps
    BY CleanupNumbers DEF FollowedSteps, FirstSteps, LateSteps, LastSteps
  <2>2. n # 29
    BY <1>2, <2>1
  <2> QED
    BY <1>2, <2>2
<1>6. 1 + n = n + 1
  BY <1>5
<1> QED
  BY <1>2, <1>3, <1>5, <1>6

LEMMA GoesOn ==
    ASSUME LocShape, Onward, loc.pc \in FollowedSteps
    PROVE  /\ LocShape'
           /\ loc.pc \in FirstSteps => loc'.pc \in SecondSteps
           /\ loc.pc = "stack controller" => loc'.pc = "stack binding"
           /\ loc.pc \in LateSteps \cup {"stack binding"} => loc'.pc \in LateSteps \cup {"status"}
           /\ loc.pc \in {"remove stacks"} \cup (LastSteps \ {"remove finalizer"}) =>
                loc'.pc \in LastSteps
<1>1. PICK n \in 1..28 : AllSteps[n] = loc.pc /\ loc' = [loc EXCEPT !.pc = AllSteps[n + 1]]
  BY Follower
<1>2. loc'.pc = AllSteps[n + 1] /\ LocShape'
  BY <1>1 DEF LocShape
<1>3. n \in 1..29
  OBVIOUS
<1> QED
  BY <1>1, <1>2, <1>3, Positions, Followers

-----------------------------------------------------------------------------
(* The controller of the Stacks *)

Controller == {"stack controller", "stack binding"}

\* Where there are Stacks, there is their controller; when the clean-up takes it
\* away, there are none.
StacksHeld ==
    /\ stacks # "none" => Controller \subseteq objs
    /\ loc.pc \in LastSteps => stacks = "none"
    /\ kab.phase = "gone" => stacks = "none"

\* Stacks are only made when their controller is installed, which one reconcile
\* has done before it comes to them; and when the clean-up takes the controller
\* away, there are no Stacks, or it has overlooked them, and none will be made.
OutliveInv ==
    /\ KabShape /\ LocShape
    /\ overlooked \/ StacksHeld
    /\ loc.pc = "stack binding" => "stack controller" \in objs
    /\ loc.pc \in LateSteps => Controller \subseteq objs
    /\ kab.phase = "gone" => loc.pc = "idle"

LEMMA InitOutlives == Init => OutliveInv
<1> SUFFICES ASSUME Init PROVE OutliveInv
  OBVIOUS
<1>1. KabShape /\ kab.phase = "live"
  BY DEF Init, KabShape
<1>2. LocShape /\ loc.pc = "idle" /\ stacks = "none"
  BY DEF Init, LocShape, IdleState
<1> QED
  BY <1>1, <1>2 DEF OutliveInv, StacksHeld, LateSteps, LastSteps

LEMMA GivesUp ==
    ASSUME LocShape, GiveUp
    PROVE  LocShape' /\ loc'.pc \in {"idle", "status"}
<1>1. CASE EndReconcile
  BY <1>1 DEF EndReconcile, IdleState, LocShape
<1>2. CASE GoTo("status")
  BY <1>2 DEF GoTo, LocShape
<1> QED
  BY <1>1, <1>2 DEF GiveUp

\* A step of a reconcile that leaves the controller alone.
LEMMA StepOutlives ==
    ASSUME OutliveInv, UNCHANGED <<kab, stackVars>>, loc.pc # "idle", LocShape',
           Controller \cap objs \subseteq objs',
           loc'.pc # "stack binding",
           loc'.pc \in LateSteps => loc.pc \in LateSteps,
           loc'.pc \in LastSteps => loc.pc \in LastSteps
    PROVE  OutliveInv'
  BY DEF OutliveInv, StacksHeld, KabShape, stackVars

LEMMA GoesOnOutlives ==
    ASSUME OutliveInv, UNCHANGED <<kab, stackVars>>, Onward,
           loc.pc \in FirstSteps \cup LateSteps \cup (LastSteps \ {"remove finalizer"}),
           Controller \cap objs \subseteq objs'
    PROVE  OutliveInv'
<1>1. LocShape'
  BY GoesOn DEF OutliveInv, FollowedSteps
<1>2. CASE loc.pc \in FirstSteps
  <2>1. loc'.pc \in SecondSteps
    BY <1>2, GoesOn DEF OutliveInv, FollowedSteps
  <2> QED
    BY <1>1, <1>2, <2>1, StepOutlives DEF SecondSteps, FirstSteps, LateSteps, LastSteps
<1>3. CASE loc.pc \in LateSteps
  <2>1. loc'.pc \in LateSteps \cup {"status"}
    BY <1>3, GoesOn DEF OutliveInv, FollowedSteps
  <2> QED
    BY <1>1, <1>3, <2>1, StepOutlives DEF LateSteps, LastSteps
<1>4. CASE loc.pc \in LastSteps \ {"remove finalizer"}
  <2>1. loc'.pc \in LastSteps
    BY <1>4, GoesOn DEF OutliveInv, FollowedSteps
  <2> QED
    BY <1>1, <1>4, <2>1, StepOutlives DEF LateSteps, LastSteps
<1> QED
  BY <1>2, <1>3, <1>4

LEMMA GivesUpOutlives ==
    ASSUME OutliveInv, UNCHANGED <<kab, stackVars>>, GiveUp, loc.pc # "idle",
           Controller \cap objs \subseteq objs'
    PROVE  OutliveInv'
<1>1. LocShape' /\ loc'.pc \in {"idle", "status"}
  BY GivesUp DEF OutliveInv
<1> QED
  BY <1>1, StepOutlives DEF LateSteps, LastSteps

\* What is done when there are no Stacks any more.
LEMMA LastOutlives ==
    ASSUME OutliveInv, UNCHANGED <<kab, stackVars>>, Onward,
           loc.pc \in LastSteps \ {"remove finalizer"}
    PROVE  OutliveInv'
<1>1. LocShape' /\ loc'.pc \in LastSteps
  BY GoesOn DEF OutliveInv, FollowedSteps
<1>2. /\ overlooked' \/ stacks' = "none"
      /\ kab.phase # "gone"
  BY DEF OutliveInv, StacksHeld, LastSteps, stackVars
<1> QED
  BY <1>1, <1>2 DEF OutliveInv, StacksHeld, KabShape, LateSteps, LastSteps

LEMMA DeployOutlives ==
    ASSUME OutliveInv, NEW pc \in {"webhook", "webhook config"} \cup LateSteps,
           NEW wanted, NEW new, Deploy(pc, wanted, new)
    PROVE  OutliveInv'
<1>1. loc.pc = pc /\ UNCHANGED <<kab, stackVars>> /\ Onward /\ objs \subseteq objs'
  BY DEF Deploy, At
<1> QED
  BY <1>1, GoesOnOutlives DEF FirstSteps

LEMMA RemoveOutlives ==
    ASSUME OutliveInv, NEW pc \in {"remove webhook"} \cup LateSteps,
           NEW wanted, NEW old, old \cap Controller = {}, Remove(pc, wanted, old)
    PROVE  OutliveInv'
<1>1. /\ loc.pc = pc /\ UNCHANGED <<kab, stackVars>> /\ Onward
      /\ Controller \cap objs \subseteq objs'
  BY DEF Remove, At
<1> QED
  BY <1>1, GoesOnOutlives DEF FirstSteps

LEMMA RemoveLastOutlives ==
    ASSUME OutliveInv, NEW pc \in LastSteps \ {"remove finalizer"},
           NEW wanted, NEW old, Remove(pc, wanted, old)
    PROVE  OutliveInv'
  BY LastOutlives DEF Remove, At

LEMMA LacksOutlives ==
    ASSUME OutliveInv, NEW pc, pc # "idle", NEW part, NEW wanted, Lacks(pc, part, wanted)
    PROVE  OutliveInv'
  BY GivesUpOutlives DEF Lacks, At

LEMMA GenerateOutlives ==
    ASSUME OutliveInv, NEW pc \in LateSteps, NEW s, NEW wanted, GenerateSecret(pc, s, wanted)
    PROVE  OutliveInv'
<1>1. loc.pc = pc /\ UNCHANGED <<kab, stackVars, objs>> /\ (Onward \/ GiveUp)
  BY DEF GenerateSecret, At
<1>2. pc # "idle"
  BY DEF LateSteps
<1> QED
  BY <1>1, <1>2, GoesOnOutlives, GivesUpOutlives

LEMMA StackControllerOutlives ==
    ASSUME OutliveInv, ReconcileStackController
    PROVE  OutliveInv'
<1>1. UNCHANGED <<kab, stackVars>> /\ Onward /\ loc.pc \in Controller
  BY DEF ReconcileStackController, Deploy, At, Controller
<1>2. LocShape' /\ kab.phase # "gone"
  BY <1>1, GoesOn DEF OutliveInv, FollowedSteps, Controller
<1>3. CASE loc.pc = "stack controller"
  <2>1. objs' = objs \cup {"stack controller"}
    BY <1>3 DEF ReconcileStackController, Deploy, At
  <2>2. loc'.pc = "stack binding"
    BY <1>1, <1>3, GoesOn DEF OutliveInv, FollowedSteps
  <2> QED
    BY <1>1, <1>2, <2>1, <2>2 DEF OutliveInv, StacksHeld, KabShape, LateSteps, LastSteps, stackVars
<1>4. CASE loc.pc = "stack binding"
  <2>1. objs' = objs \cup {"stack binding"}
    BY <1>4 DEF ReconcileStackController, Deploy, At
  <2>2. loc'.pc \in LateSteps \cup {"status"}
    BY <1>1, <1>4, GoesOn DEF OutliveInv, FollowedSteps
  <2>3. Controller \subseteq objs'
    BY <1>4, <2>1 DEF OutliveInv, Controller
  <2> QED
    BY <1>1, <1>2, <2>2, <2>3 DEF OutliveInv, StacksHeld, KabShape, LateSteps, LastSteps, stackVars
<1> QED
  BY <1>1, <1>3, <1>4 DEF Controller

-----------------------------------------------------------------------------

LEMMA ComponentsOutlive ==
    ASSUME OutliveInv,
           \/ ReconcileAdmissionControllerWebhook \/ AwaitAdmissionControllerWebhook
           \/ DeployLandingPage \/ ReconcileKabaneroCli \/ ReconcileCRW
    PROVE  OutliveInv'
<1>1. CASE ReconcileAdmissionControllerWebhook
  BY <1>1, DeployOutlives, LacksOutlives DEF ReconcileAdmissionControllerWebhook
<1>2. CASE AwaitAdmissionControllerWebhook
  <2>1. /\ UNCHANGED <<kab, stackVars>> /\ loc.pc = "await webhook"
        /\ Controller \cap objs \subseteq objs'
    BY <1>2 DEF AwaitAdmissionControllerWebhook, CleanupCollectionController, At, Controller
  <2>2. CASE Onward
    BY <2>1, <2>2, GoesOnOutlives DEF FirstSteps
  <2>3. CASE GoTo("status")
    <3>1. LocShape' /\ loc'.pc = "status"
      BY <2>3 DEF GoTo, OutliveInv, LocShape
    <3> QED
      BY <2>1, <3>1, StepOutlives DEF LateSteps, LastSteps
  <2> QED
    BY <1>2, <2>2, <2>3 DEF AwaitAdmissionControllerWebhook
<1>3. CASE DeployLandingPage
  <2>1. CASE CleanupLandingPage
    <3>1. /\ UNCHANGED <<kab, stackVars>> /\ loc.pc = "landing"
          /\ loc' = [loc EXCEPT !.pc = "cli secret"]
      BY <2>1 DEF CleanupLandingPage, GoTo, At
    <3>2. Controller \cap objs \subseteq objs'
      BY <2>1 DEF CleanupLandingPage, Controller, Links
    <3>3. LocShape' /\ loc'.pc = "cli secret"
      BY <3>1 DEF OutliveInv, LocShape
    <3> QED
      BY <3>1, <3>2, <3>3, StepOutlives DEF LateSteps, LastSteps
  <2>2. CASE CustomizeWebConsole
    BY <2>2, DeployOutlives DEF CustomizeWebConsole, Links, LateSteps
  <2> QED
    BY <1>3, <2>1, <2>2, DeployOutlives, LacksOutlives DEF DeployLandingPage, LateSteps
<1>4. CASE ReconcileKabaneroCli
  <2>1. CASE CreateEncryptionKeySecret
    BY <2>1, GenerateOutlives DEF CreateEncryptionKeySecret, LateSteps
  <2>2. CASE ~CreateEncryptionKeySecret
    <3>1. /\ loc.pc = "cli" /\ UNCHANGED <<kab, stackVars>> /\ Onward
          /\ objs' = (objs \cup {"cli", "cli roles"}) \ {"cli config map"}
      BY <1>4, <2>2 DEF ReconcileKabaneroCli, DestroyRoleBindingConfigMap, At
    <3> QED
      BY <3>1, GoesOnOutlives DEF LateSteps, Controller
  <2> QED
    BY <2>1, <2>2
<1>5. CASE ReconcileCRW
  <2>1. CASE DeployCRWInstance \/ CleanupCRW
    <3>1. loc.pc = "crw" /\ UNCHANGED <<kab, stackVars>> /\ Onward
      BY <2>1 DEF DeployCRWInstance, CleanupCRW, At
    <3>2. Controller \cap objs \subseteq objs'
      BY <2>1 DEF DeployCRWInstance, ValidateCRWInstance, CleanupCRW, Controller
    <3> QED
      BY <3>1, <3>2, GoesOnOutlives DEF LateSteps
  <2>2. CASE DeleteCRWInstance
    <3>1. /\ UNCHANGED <<kab, stackVars, loc>> /\ loc.pc = "crw"
          /\ Controller \cap objs \subseteq objs'
      BY <2>2 DEF DeleteCRWInstance, At, Controller
    <3>2. LocShape'
      BY <3>1 DEF OutliveInv, LocShape
    <3> QED
      BY <3>1, <3>2, StepOutlives DEF LastSteps
  <2> QED
    BY <1>5, <2>1, <2>2, DeployOutlives, LacksOutlives DEF ReconcileCRW, LateSteps
<1> QED
  BY <1>1, <1>2, <1>3, <1>4, <1>5

LEMMA MoreComponentsOutlive ==
    ASSUME OutliveInv,
           ReconcileEvents \/ ReconcileSso \/ ReconcileTargetNamespaces \/ ReconcileDevfileRegistry
    PROVE  OutliveInv'
<1>1. CASE ReconcileEvents
  <2>1. CASE CreateDefaultEventsSecret
    BY <2>1, GenerateOutlives DEF CreateDefaultEventsSecret, LateSteps
  <2>2. CASE CleanupEvents
    <3>1. /\ UNCHANGED <<kab, stackVars>> /\ loc.pc = "events"
          /\ loc' = [loc EXCEPT !.pc = "sso secret"]
          /\ Controller \cap objs \subseteq objs'
      BY <2>2 DEF CleanupEvents, GoTo, At, Controller
    <3>2. LocShape' /\ loc'.pc = "sso secret"
      BY <3>1 DEF OutliveInv, LocShape
    <3> QED
      BY <3>1, <3>2, StepOutlives DEF LateSteps, LastSteps
  <2> QED
    BY <1>1, <2>1, <2>2, DeployOutlives DEF ReconcileEvents, LateSteps
<1>2. CASE ReconcileSso
  <2>1. CASE CreateDbSecret
    BY <2>1, GenerateOutlives DEF CreateDbSecret, LateSteps
  <2>2. CASE DisableSso
    <3>1. loc.pc = "sso" /\ UNCHANGED <<kab, stackVars>> /\ Onward /\ Controller \cap objs \subseteq objs'
      BY <2>2 DEF DisableSso, At, Controller
    <3> QED
      BY <3>1, GoesOnOutlives DEF LateSteps
  <2> QED
    BY <1>2, <2>1, <2>2, DeployOutlives, LacksOutlives DEF ReconcileSso, LateSteps
<1>3. CASE ReconcileTargetNamespaces
  <2>1. /\ UNCHANGED <<kab, stackVars, objs>> /\ loc.pc = "targets"
        /\ \E r, pc : pc \in {"devfile registry", "status"}
                         /\ loc' = [loc EXCEPT !.recorded = r, !.pc = pc]
    BY <1>3, Zenon DEF ReconcileTargetNamespaces, At
  <2>2. LocShape' /\ loc'.pc \in {"devfile registry", "status"}
    BY <2>1 DEF OutliveInv, LocShape
  <2> QED
    BY <2>1, <2>2, StepOutlives DEF LateSteps, LastSteps
<1>4. CASE ReconcileDevfileRegistry
  BY <1>4, DeployOutlives, RemoveOutlives DEF ReconcileDevfileRegistry, LateSteps, Controller
<1> QED
  BY <1>1, <1>2, <1>3, <1>4

\* The Stacks are made.
LEMMA FeaturedStacksOutlive ==
    ASSUME OutliveInv, ReconcileFeaturedStacks
    PROVE  OutliveInv'
<1>1. loc.pc = "featured stacks" /\ UNCHANGED <<kab, objs>> /\ Onward
  BY DEF ReconcileFeaturedStacks, At
<1>2. loc.pc \in LateSteps /\ loc.pc # "idle"
  BY <1>1 DEF LateSteps
<1>3. LocShape' /\ loc'.pc \in LateSteps \cup {"status"}
  BY <1>1, <1>2, GoesOn DEF OutliveInv, FollowedSteps
<1> QED
  BY <1>1, <1>2, <1>3 DEF OutliveInv, StacksHeld, KabShape, LateSteps, LastSteps

LEMMA BeginsOutlive ==
    ASSUME OutliveInv, Begin \/ BeginCleanup
    PROVE  OutliveInv'
<1>1. UNCHANGED <<kab, stackVars, objs>> /\ kab.phase # "gone"
  BY DEF Begin, BeginCleanup, At
<1>2. LocShape' /\ loc'.pc \in {"webhook", "remove links"}
  <2>1. CASE Begin
    <3>1. loc' = [pc |-> "webhook", spec |-> kab.spec, recorded |-> kab.recorded]
      BY <2>1 DEF Begin
    <3> QED
      BY <3>1 DEF LocShape
  <2>2. CASE BeginCleanup
    <3>1. loc' = [pc |-> "remove links", spec |-> kab.spec, recorded |-> kab.recorded]
      BY <2>2 DEF BeginCleanup
    <3> QED
      BY <3>1 DEF LocShape
  <2> QED
    BY <2>1, <2>2
<1> QED
  BY <1>1, <1>2 DEF OutliveInv, StacksHeld, KabShape, LateSteps, LastSteps, stackVars

LEMMA EndOutlives ==
    ASSUME OutliveInv, EndReconcile, KabShape', UNCHANGED <<stackVars, objs>>,
           kab'.phase = "gone" => stacks = "none" \/ overlooked
    PROVE  OutliveInv'
<1>1. LocShape' /\ loc'.pc = "idle"
  BY DEF EndReconcile, IdleState, LocShape
<1> QED
  BY <1>1 DEF OutliveInv, StacksHeld, LateSteps, LastSteps, stackVars

LEMMA ProcessStatusOutlives ==
    ASSUME OutliveInv, ProcessStatus
    PROVE  OutliveInv'
<1>1. KabShape' /\ kab'.phase = kab.phase
  BY DEF ProcessStatus, OutliveInv, KabShape
<1>2. EndReconcile /\ UNCHANGED <<stackVars, objs>>
  BY DEF ProcessStatus
<1> QED
  BY <1>1, <1>2, EndOutlives DEF OutliveInv, StacksHeld

\* The clean-up goes on when no Stacks are listed: then there are none, or they
\* are overlooked.
LEMMA CleanupStacksOutlives ==
    ASSUME OutliveInv, CleanupStacks
    PROVE  OutliveInv'
<1>1. loc.pc = "remove stacks" /\ UNCHANGED <<kab, objs>> /\ kab.phase # "gone"
  BY DEF CleanupStacks, At, OutliveInv
<1>2. CASE shown
  <2>1. GiveUp /\ (overlooked => overlooked') /\ (stacks = "none" => stacks' = "none")
    BY <1>2 DEF CleanupStacks, MustWait
  <2>2. LocShape' /\ loc'.pc \in {"idle", "status"}
    BY <2>1, GivesUp DEF OutliveInv
  <2>3. overlooked' \/ (stacks' # "none" => Controller \subseteq objs')
    BY <1>1, <2>1 DEF OutliveInv, StacksHeld
  <2> QED
    BY <1>1, <2>1, <2>2, <2>3 DEF OutliveInv, StacksHeld, KabShape, LateSteps, LastSteps
<1>3. CASE ~shown
  <2>1. Onward /\ stacks' = stacks /\ (overlooked' \/ stacks = "none")
    BY <1>3 DEF CleanupStacks, MustWait
  <2>2. LocShape' /\ loc'.pc \in LastSteps
    BY <1>1, <2>1, GoesOn DEF OutliveInv, FollowedSteps
  <2> QED
    BY <1>1, <2>1, <2>2 DEF OutliveInv, StacksHeld, KabShape, LateSteps, LastSteps
<1> QED
  BY <1>2, <1>3

LEMMA CleanupOutlives ==
    ASSUME OutliveInv, Cleanup
    PROVE  OutliveInv'
<1>1. CASE RemoveWebConsoleCustomization
  <2>1. loc.pc = "remove links" /\ UNCHANGED <<kab, stackVars>> /\ Onward
    BY <1>1 DEF RemoveWebConsoleCustomization, At
  <2>2. Controller \cap objs \subseteq objs'
    BY <1>1 DEF RemoveWebConsoleCustomization, Controller, Links
  <2> QED
    BY <2>1, <2>2, GoesOnOutlives DEF FirstSteps
<1>2. CASE CleanupAdmissionControllerWebhook
  BY <1>2, RemoveOutlives DEF CleanupAdmissionControllerWebhook, Controller
<1>3. CASE CleanupStackController
  BY <1>3, CleanupStacksOutlives, RemoveLastOutlives DEF CleanupStackController, LastSteps
<1>4. CASE DeleteCRWOperatorResources \/ CleanupDevfileRegistry
  BY <1>4, RemoveLastOutlives DEF DeleteCRWOperatorResources, CleanupDevfileRegistry, LastSteps
<1>5. CASE CleanupTargetNamespaces
  BY <1>5, LastOutlives DEF CleanupTargetNamespaces, At, LastSteps
<1>6. CASE RemoveFinalizer
  <2>1. KabShape' /\ (stacks = "none" \/ overlooked)
    BY <1>6 DEF RemoveFinalizer, At, OutliveInv, StacksHeld, KabShape, LastSteps
  <2>2. EndReconcile /\ UNCHANGED <<stackVars, objs>>
    BY <1>6 DEF RemoveFinalizer
  <2> QED
    BY <2>1, <2>2, EndOutlives
<1> QED
  BY <1>1, <1>2, <1>3, <1>4, <1>5, <1>6, BeginsOutlive DEF Cleanup

LEMMA FaultsOutlive ==
    ASSUME OutliveInv, CallFails \/ Restart
    PROVE  OutliveInv'
<1>1. CASE CallFails
  BY <1>1, GivesUpOutlives DEF CallFails
<1>2. CASE Restart
  <2>1. KabShape' /\ LocShape' /\ UNCHANGED <<kab, stacks, overlooked, objs>> /\ loc'.pc = "idle"
    BY <1>2 DEF Restart, EndReconcile, IdleState, OutliveInv, KabShape, LocShape
  <2> QED
    BY <2>1 DEF OutliveInv, StacksHeld, LateSteps, LastSteps
<1> QED
  BY <1>1, <1>2

LEMMA EnvironmentOutlives ==
    ASSUME OutliveInv, Environment
    PROVE  OutliveInv'
<1>1. CASE EditKabanero
  <2>1. UNCHANGED <<loc, objs, stacks, overlooked>>
    BY <1>1 DEF EditKabanero, stackVars
  <2>2. KabShape' /\ kab.phase # "gone" /\ kab'.phase \in {kab.phase, "deleting"}
    BY <1>1 DEF EditKabanero, OutliveInv, KabShape
  <2>3. kab'.phase # "gone"
    BY <2>2
  <2>4. LocShape'
    BY <2>1 DEF OutliveInv, LocShape
  <2> QED
    BY <2>1, <2>2, <2>3, <2>4 DEF OutliveInv, StacksHeld
<1>2. CASE \/ EditChe \/ ChangeWorld \/ DeliverSecrets \/ DeliverStacks \/ CheGone
           \/ \E n \in Namespaces : DeleteNamespace(n) \/ CreateNamespace(n)
  <2>1. UNCHANGED <<kab, loc, stacks, overlooked>> /\ Controller \cap objs \subseteq objs'
    BY <1>2 DEF EditChe, ChangeWorld, DeliverSecrets, DeliverStacks, CheGone, DeleteNamespace,
                CreateNamespace, Controller, stackVars
  <2> QED
    BY <2>1 DEF OutliveInv, StacksHeld, KabShape, LocShape, Controller
<1>3. CASE FinishStacks
  BY <1>3 DEF FinishStacks, OutliveInv, StacksHeld, KabShape, LocShape
<1>4. CASE CollectGarbage
  <2>1. /\ UNCHANGED <<kab, loc, overlooked>> /\ loc.pc = "idle"
        /\ stacks = "none" => stacks' = "none"
        /\ overlooked \/ stacks = "none"
    BY <1>4 DEF CollectGarbage, OutliveInv, StacksHeld
  <2> QED
    BY <2>1 DEF OutliveInv, StacksHeld, KabShape, LocShape, LateSteps, LastSteps
<1> QED
  BY <1>1, <1>2, <1>3, <1>4 DEF Environment

LEMMA NextOutlives ==
    ASSUME OutliveInv, [Next]_vars
    PROVE  OutliveInv'
<1>1. CASE Install
  BY <1>1, BeginsOutlive, ComponentsOutlive, StackControllerOutlives, MoreComponentsOutlive,
     FeaturedStacksOutlive, ProcessStatusOutlives DEF Install
<1>2. CASE UNCHANGED vars
  BY <1>2 DEF vars, OutliveInv, StacksHeld, KabShape, LocShape
<1> QED
  BY <1>1, <1>2, CleanupOutlives, FaultsOutlive, EnvironmentOutlives DEF Next

\* The controller that the deletion of the Stacks waits for is there, with its
\* rights, until the last of them is gone, for any number of edits, faults and
\* restarts at any point of the installation and of the clean-up, unless the
\* clean-up went on because the cache had not been told of the Stacks yet.
THEOREM ControllerAlwaysOutlivesStacks == Spec => []ControllerOutlivesStacks
<1>1. OutliveInv => ControllerOutlivesStacks
  BY DEF OutliveInv, StacksHeld, ControllerOutlivesStacks, Controller
<1>2. OutliveInv /\ [Next]_vars => OutliveInv'
  BY NextOutlives
<1> QED
  BY <1>1, <1>2, InitOutlives, PTL DEF Spec

-----------------------------------------------------------------------------
(* What the deletion leaves *)

LEMMA Following ==
    ASSUME LocShape, Onward, NEW k \in 1..28, NEW j, j = k + 1,
           NEW x, NEW y, AllSteps[k] = x, AllSteps[j] = y,
           \A i \in 1..29 : AllSteps[i] = x => i = k
    PROVE  loc.pc = x => loc'.pc = y
<1> SUFFICES ASSUME loc.pc = x PROVE loc'.pc = y
  OBVIOUS
<1> DEFINE n == CHOOSE i \in DOMAIN AllSteps : AllSteps[i] = loc.pc
<1>1. n = k
  BY StepsInOrder
<1>2. loc' = [loc EXCEPT !.pc = AllSteps[1 + n]]
  BY DEF Onward, GoTo
<1> HIDE DEF n
<1>3. loc' = [loc EXCEPT !.pc = y]
  BY <1>1, <1>2
<1> QED
  BY <1>3 DEF LocShape

\* These steps occur once.
LEMMA Once ==
    \A i \in 1..29 :
        /\ AllSteps[i] = "webhook" => i = 1
        /\ AllSteps[i] = "webhook config" => i = 2
        /\ AllSteps[i] = "await webhook" => i = 3
        /\ AllSteps[i] = "remove links" => i = 22
        /\ AllSteps[i] = "remove webhook" => i = 23
        /\ AllSteps[i] = "remove stacks" => i = 24
        /\ AllSteps[i] = "remove binding" => i = 25
        /\ AllSteps[i] = "remove crw" => i = 26
        /\ AllSteps[i] = "remove targets" => i = 27
        /\ AllSteps[i] = "remove devfile registry" => i = 28
<1>1. \A i \in 1..29 : AllSteps[i] = "webhook" => i = 1
  BY Numbers, InstallNumbers, CleanupNumbers
<1>2. \A i \in 1..29 : AllSteps[i] = "webhook config" => i = 2
  BY Numbers, InstallNumbers, CleanupNumbers
<1>3. \A i \in 1..29 : AllSteps[i] = "await webhook" => i = 3
  BY Numbers, InstallNumbers, CleanupNumbers
<1>4. \A i \in 1..29 : AllSteps[i] = "remove links" => i = 22
  BY Numbers, InstallNumbers, CleanupNumbers
<1>5. \A i \in 1..29 : AllSteps[i] = "remove webhook" => i = 23
  BY Numbers, InstallNumbers, CleanupNumbers
<1>6. \A i \in 1..29 : AllSteps[i] = "remove stacks" => i = 24
  BY Numbers, InstallNumbers, CleanupNumbers
<1>7. \A i \in 1..29 : AllSteps[i] = "remove binding" => i = 25
  BY Numbers, InstallNumbers, CleanupNumbers
<1>8. \A i \in 1..29 : AllSteps[i] = "remove crw" => i = 26
  BY Numbers, InstallNumbers, CleanupNumbers
<1>9. \A i \in 1..29 : AllSteps[i] = "remove targets" => i = 27
  BY Numbers, InstallNumbers, CleanupNumbers
<1>10. \A i \in 1..29 : AllSteps[i] = "remove devfile registry" => i = 28
  BY Numbers, InstallNumbers, CleanupNumbers
<1> QED
  BY <1>1, <1>2, <1>3, <1>4, <1>5, <1>6, <1>7, <1>8, <1>9, <1>10

\* The beginning of the installation, and the clean-up, step by step.
LEMMA GoesOnExactly ==
    ASSUME LocShape, Onward
    PROVE  /\ loc.pc = "webhook" => loc'.pc = "webhook config"
           /\ loc.pc = "webhook config" => loc'.pc = "await webhook"
           /\ loc.pc = "await webhook" => loc'.pc = "stack controller"
           /\ loc.pc = "remove links" => loc'.pc = "remove webhook"
           /\ loc.pc = "remove webhook" => loc'.pc = "remove stacks"
           /\ loc.pc = "remove stacks" => loc'.pc = "remove binding"
           /\ loc.pc = "remove binding" => loc'.pc = "remove crw"
           /\ loc.pc = "remove crw" => loc'.pc = "remove targets"
           /\ loc.pc = "remove targets" => loc'.pc = "remove devfile registry"
           /\ loc.pc = "remove devfile registry" => loc'.pc = "remove finalizer"
<1>1. loc.pc = "webhook" => loc'.pc = "webhook config"
  <2> DEFINE k == 1
             j == 2
  <2>1. k \in 1..28 /\ j = k + 1
    OBVIOUS
  <2>3. AllSteps[k] = "webhook" /\ AllSteps[j] = "webhook config"
    BY InstallNumbers
  <2>2. \A i \in 1..29 : AllSteps[i] = "webhook" => i = k
    BY Once
  <2> HIDE DEF k, j
  <2> QED
    BY <2>1, <2>2, <2>3, Following, Zenon
<1>2. loc.pc = "webhook config" => loc'.pc = "await webhook"
  <2> DEFINE k == 2
             j == 3
  <2>1. k \in 1..28 /\ j = k + 1
    OBVIOUS
  <2>3. AllSteps[k] = "webhook config" /\ AllSteps[j] = "await webhook"
    BY InstallNumbers
  <2>2. \A i \in 1..29 : AllSteps[i] = "webhook config" => i = k
    BY Once
  <2> HIDE DEF k, j
  <2> QED
    BY <2>1, <2>2, <2>3, Following, Zenon
<1>3. loc.pc = "await webhook" => loc'.pc = "stack controller"
  <2> DEFINE k == 3
             j == 4
  <2>1. k \in 1..28 /\ j = k + 1
    OBVIOUS
  <2>3. AllSteps[k] = "await webhook" /\ AllSteps[j] = "stack controller"
    BY InstallNumbers
  <2>2. \A i \in 1..29 : AllSteps[i] = "await webhook" => i = k
    BY Once
  <2> HIDE DEF k, j
  <2> QED
    BY <2>1, <2>2, <2>3, Following, Zenon
<1>4. loc.pc = "remove links" => loc'.pc = "remove webhook"
  <2> DEFINE k == 22
             j == 23
  <2>1. k \in 1..28 /\ j = k + 1
    OBVIOUS
  <2>3. AllSteps[k] = "remove links" /\ AllSteps[j] = "remove webhook"
    BY CleanupNumbers
  <2>2. \A i \in 1..29 : AllSteps[i] = "remove links" => i = k
    BY Once
  <2> HIDE DEF k, j
  <2> QED
    BY <2>1, <2>2, <2>3, Following, Zenon
<1>5. loc.pc = "remove webhook" => loc'.pc = "remove stacks"
  <2> DEFINE k == 23
             j == 24
  <2>1. k \in 1..28 /\ j = k + 1
    OBVIOUS
  <2>3. AllSteps[k] = "remove webhook" /\ AllSteps[j] = "remove stacks"
    BY CleanupNumbers
  <2>2. \A i \in 1..29 : AllSteps[i] = "remove webhook" => i = k
    BY Once
  <2> HIDE DEF k, j
  <2> QED
    BY <2>1, <2>2, <2>3, Following, Zenon
<1>6. loc.pc = "remove stacks" => loc'.pc = "remove binding"
  <2> DEFINE k == 24
             j == 25
  <2>1. k \in 1..28 /\ j = k + 1
    OBVIOUS
  <2>3. AllSteps[k] = "remove stacks" /\ AllSteps[j] = "remove binding"
    BY CleanupNumbers
  <2>2. \A i \in 1..29 : AllSteps[i] = "remove stacks" => i = k
    BY Once
  <2> HIDE DEF k, j
  <2> QED
    BY <2>1, <2>2, <2>3, Following, Zenon
<1>7. loc.pc = "remove binding" => loc'.pc = "remove crw"
  <2> DEFINE k == 25
             j == 26
  <2>1. k \in 1..28 /\ j = k + 1
    OBVIOUS
  <2>3. AllSteps[k] = "remove binding" /\ AllSteps[j] = "remove crw"
    BY CleanupNumbers
  <2>2. \A i \in 1..29 : AllSteps[i] = "remove binding" => i = k
    BY Once
  <2> HIDE DEF k, j
  <2> QED
    BY <2>1, <2>2, <2>3, Following, Zenon
<1>8. loc.pc = "remove crw" => loc'.pc = "remove targets"
  <2> DEFINE k == 26
             j == 27
  <2>1. k \in 1..28 /\ j = k + 1
    OBVIOUS
  <2>3. AllSteps[k] = "remove crw" /\ AllSteps[j] = "remove targets"
    BY CleanupNumbers
  <2>2. \A i \in 1..29 : AllSteps[i] = "remove crw" => i = k
    BY Once
  <2> HIDE DEF k, j
  <2> QED
    BY <2>1, <2>2, <2>3, Following, Zenon
<1>9. loc.pc = "remove targets" => loc'.pc = "remove devfile registry"
  <2> DEFINE k == 27
             j == 28
  <2>1. k \in 1..28 /\ j = k + 1
    OBVIOUS
  <2>3. AllSteps[k] = "remove targets" /\ AllSteps[j] = "remove devfile registry"
    BY CleanupNumbers
  <2>2. \A i \in 1..29 : AllSteps[i] = "remove targets" => i = k
    BY Once
  <2> HIDE DEF k, j
  <2> QED
    BY <2>1, <2>2, <2>3, Following, Zenon
<1>10. loc.pc = "remove devfile registry" => loc'.pc = "remove finalizer"
  <2> DEFINE k == 28
             j == 29
  <2>1. k \in 1..28 /\ j = k + 1
    OBVIOUS
  <2>3. AllSteps[k] = "remove devfile registry" /\ AllSteps[j] = "remove finalizer"
    BY CleanupNumbers
  <2>2. \A i \in 1..29 : AllSteps[i] = "remove devfile registry" => i = k
    BY Once
  <2> HIDE DEF k, j
  <2> QED
    BY <2>1, <2>2, <2>3, Following, Zenon
<1> QED
  BY <1>1, <1>2, <1>3, <1>4, <1>5, <1>6, <1>7, <1>8, <1>9, <1>10

LEMMA OnwardKeepsSpec ==
    ASSUME LocShape, Onward
    PROVE  LocShape' /\ loc'.spec = loc.spec
  BY DEF Onward, GoTo, LocShape

CleanupNames == {"remove links", "remove webhook", "remove stacks"} \cup LastSteps

\* What a clean-up has removed so far stays removed as long as it goes on, and
\* when it ends well all is; whether the links were to be removed it has from
\* the Kabanero that goes.
LeftInv ==
    /\ SecretsInv /\ LocShape /\ faults \in Nat
    /\ loc.pc \in CleanupNames \ {"remove links"} /\ loc.spec.landing /\ faults = 0 => objs \cap Links = {}
    /\ loc.pc \in {"remove stacks"} \cup LastSteps => "webhook config" \notin objs
    /\ loc.pc \in LastSteps \ {"remove binding"} => "stack binding" \notin objs
    /\ loc.pc \in LastSteps \ {"remove binding", "remove crw"} => "codewind roles" \notin objs
    /\ loc.pc \in CleanupNames /\ fresh => loc.spec = kab.spec
    /\ kab.phase = "gone" =>
         /\ "webhook config" \notin objs /\ "stack binding" \notin objs /\ "codewind roles" \notin objs
         /\ kab.spec.landing /\ faults = 0 => objs \cap Links = {}

LEMMA InitLeft == Init => LeftInv
<1> SUFFICES ASSUME Init PROVE LeftInv
  OBVIOUS
<1>1. SecretsInv
  BY InitSecrets
<1>2. LocShape /\ loc.pc = "idle" /\ kab.phase = "live" /\ faults = 0
  BY DEF Init, LocShape, IdleState
<1> QED
  BY <1>1, <1>2 DEF LeftInv, CleanupNames, LastSteps

\* A step that does not belong to a clean-up, of a Kabanero that is there.
LEMMA ElsewhereLeft ==
    ASSUME SecretsInv', LocShape', faults' \in Nat, loc'.pc \notin CleanupNames, kab'.phase # "gone"
    PROVE  LeftInv'
  BY DEF LeftInv, CleanupNames

\* An installation stays one.
LEMMA InstallGoesOn ==
    ASSUME LocShape, Onward,
           loc.pc \in {"webhook", "webhook config", "await webhook"} \cup Controller \cup LateSteps
    PROVE  LocShape' /\ loc'.pc \notin CleanupNames
<1>1. LocShape'
  BY OnwardKeepsSpec
<1>2. CASE loc.pc \in {"webhook", "webhook config", "await webhook"}
  <2>1. loc'.pc \in {"webhook config", "await webhook", "stack controller"}
    BY <1>2, GoesOnExactly
  <2> QED
    BY <1>1, <2>1 DEF CleanupNames, LastSteps
<1>3. CASE loc.pc \in Controller \cup LateSteps
  <2>1. loc'.pc \in LateSteps \cup {"status", "stack binding"}
    BY <1>3, GoesOn DEF FollowedSteps, Controller
  <2> QED
    BY <1>1, <2>1 DEF CleanupNames, LastSteps, LateSteps
<1> QED
  BY <1>1, <1>2, <1>3

LEMMA GiveUpElsewhere ==
    ASSUME LocShape, GiveUp
    PROVE  LocShape' /\ loc'.pc \notin CleanupNames
  BY GivesUp DEF CleanupNames, LastSteps

LEMMA GoToElsewhere ==
    ASSUME LocShape, NEW pc, pc \notin CleanupNames, GoTo(pc)
    PROVE  LocShape' /\ loc'.pc \notin CleanupNames
  BY DEF GoTo, LocShape

LEMMA EndElsewhere ==
    ASSUME EndReconcile
    PROVE  LocShape' /\ loc'.pc \notin CleanupNames
<1>1. LocShape' /\ loc'.pc = "idle"
  BY DEF EndReconcile, IdleState, LocShape
<1> QED
  BY <1>1 DEF CleanupNames, LastSteps

-----------------------------------------------------------------------------

\* No step of an installation becomes one of a clean-up.
LEMMA InstallElsewhere ==
    ASSUME LocShape, Install
    PROVE  LocShape' /\ loc'.pc \notin CleanupNames
<1> DEFINE Names == {"webhook", "webhook config", "await webhook"} \cup Controller \cup LateSteps
<1>1. ASSUME NEW pc \in Names, NEW wanted, NEW new, Deploy(pc, wanted, new) \/ Remove(pc, wanted, new)
      PROVE  LocShape' /\ loc'.pc \notin CleanupNames
  BY <1>1, InstallGoesOn DEF Deploy, Remove, At
<1>2. ASSUME NEW pc, NEW part, NEW wanted, Lacks(pc, part, wanted)
      PROVE  LocShape' /\ loc'.pc \notin CleanupNames
  BY <1>2, GiveUpElsewhere DEF Lacks
<1>3. ASSUME NEW pc \in LateSteps, NEW s, NEW wanted, GenerateSecret(pc, s, wanted)
      PROVE  LocShape' /\ loc'.pc \notin CleanupNames
  <2>1. loc.pc = pc /\ (Onward \/ GiveUp)
    BY <1>3 DEF GenerateSecret, At
  <2> QED
    BY <2>1, InstallGoesOn, GiveUpElsewhere
<1>4. CASE Begin
  <2>1. loc' = [pc |-> "webhook", spec |-> kab.spec, recorded |-> kab.recorded]
    BY <1>4 DEF Begin
  <2> QED
    BY <2>1 DEF LocShape, CleanupNames, LastSteps
<1>5. CASE ReconcileAdmissionControllerWebhook
  BY <1>1, <1>2, <1>5 DEF ReconcileAdmissionControllerWebhook
<1>6. CASE AwaitAdmissionControllerWebhook
  <2>1. loc.pc = "await webhook" /\ (Onward \/ GoTo("status"))
    BY <1>6 DEF AwaitAdmissionControllerWebhook, At
  <2> QED
    BY <2>1, InstallGoesOn, GoToElsewhere DEF CleanupNames, LastSteps
<1>7. CASE ReconcileStackController
  BY <1>1, <1>7 DEF ReconcileStackController, Controller
<1>8. CASE DeployLandingPage
  <2>1. CASE CleanupLandingPage
    BY <2>1, GoToElsewhere DEF CleanupLandingPage, CleanupNames, LastSteps
  <2>2. CASE CustomizeWebConsole
    BY <1>1, <2>2 DEF CustomizeWebConsole, Links, LateSteps
  <2> QED
    BY <1>1, <1>2, <1>8, <2>1, <2>2 DEF DeployLandingPage, LateSteps
<1>9. CASE ReconcileKabaneroCli
  <2>1. CASE CreateEncryptionKeySecret
    BY <1>3, <2>1 DEF CreateEncryptionKeySecret, LateSteps
  <2>2. CASE loc.pc = "cli" /\ Onward
    BY <2>2, InstallGoesOn DEF LateSteps
  <2> QED
    BY <1>9, <2>1, <2>2 DEF ReconcileKabaneroCli, At
<1>10. CASE ReconcileCRW
  <2>1. CASE DeployCRWInstance \/ CleanupCRW
    <3>1. loc.pc = "crw" /\ Onward
      BY <2>1 DEF DeployCRWInstance, CleanupCRW, At
    <3> QED
      BY <3>1, InstallGoesOn DEF LateSteps
  <2>2. CASE DeleteCRWInstance
    <3>1. UNCHANGED loc /\ loc.pc = "crw"
      BY <2>2 DEF DeleteCRWInstance, At
    <3> QED
      BY <3>1 DEF LocShape, CleanupNames, LastSteps
  <2> QED
    BY <1>1, <1>2, <1>10, <2>1, <2>2 DEF ReconcileCRW, LateSteps
<1>11. CASE ReconcileEvents
  <2>1. CASE CreateDefaultEventsSecret
    BY <1>3, <2>1 DEF CreateDefaultEventsSecret, LateSteps
  <2>2. CASE CleanupEvents
    BY <2>2, GoToElsewhere DEF CleanupEvents, CleanupNames, LastSteps
  <2> QED
    BY <1>1, <1>11, <2>1, <2>2 DEF ReconcileEvents, LateSteps
<1>12. CASE ReconcileSso
  <2>1. CASE CreateDbSecret
    BY <1>3, <2>1 DEF CreateDbSecret, LateSteps
  <2>2. CASE DisableSso
    <3>1. loc.pc = "sso" /\ Onward
      BY <2>2 DEF DisableSso, At
    <3> QED
      BY <3>1, InstallGoesOn DEF LateSteps
  <2> QED
    BY <1>1, <1>2, <1>12, <2>1, <2>2 DEF ReconcileSso, LateSteps
<1>13. CASE ReconcileTargetNamespaces
  <2>1. \E r, pc : pc \in {"devfile registry", "status"}
                       /\ loc' = [loc EXCEPT !.recorded = r, !.pc = pc]
    BY <1>13, Zenon DEF ReconcileTargetNamespaces
  <2>2. LocShape' /\ loc'.pc \in {"devfile registry", "status"}
    BY <2>1 DEF LocShape
  <2> QED
    BY <2>2 DEF CleanupNames, LastSteps
<1>14. CASE ReconcileDevfileRegistry
  BY <1>1, <1>14 DEF ReconcileDevfileRegistry, LateSteps
<1>15. CASE ReconcileFeaturedStacks
  <2>1. loc.pc = "featured stacks" /\ Onward
    BY <1>15 DEF ReconcileFeaturedStacks, At
  <2> QED
    BY <2>1, InstallGoesOn DEF LateSteps
<1>16. CASE ProcessStatus
  BY <1>16, EndElsewhere DEF ProcessStatus
<1> QED
  BY <1>4, <1>5, <1>6, <1>7, <1>8, <1>9, <1>10, <1>11, <1>12, <1>13, <1>14, <1>15, <1>16 DEF Install

\* Nor does one end a Kabanero, or take back a fault.
LEMMA InstallLeavesKabanero ==
    ASSUME LeftInv, Install
    PROVE  kab'.phase # "gone" /\ faults' \in Nat
<1>1. kab.phase # "gone"
  BY DEF Install, Begin, ReconcileAdmissionControllerWebhook, AwaitAdmissionControllerWebhook,
         ReconcileStackController, DeployLandingPage, CleanupLandingPage, CustomizeWebConsole,
         ReconcileKabaneroCli, CreateEncryptionKeySecret, ReconcileCRW, DeployCRWInstance,
         DeleteCRWInstance, CleanupCRW, ReconcileEvents, CleanupEvents, CreateDefaultEventsSecret,
         ReconcileSso, CreateDbSecret, DisableSso, ReconcileTargetNamespaces,
         ReconcileDevfileRegistry, ReconcileFeaturedStacks, ProcessStatus, Deploy, Remove, Lacks,
         GenerateSecret, At, LeftInv, SecretsInv, Links
<1>2. kab'.phase = kab.phase
  BY DEF Install, Begin, ReconcileAdmissionControllerWebhook, AwaitAdmissionControllerWebhook,
         ReconcileStackController, DeployLandingPage, CleanupLandingPage, CustomizeWebConsole,
         ReconcileKabaneroCli, CreateEncryptionKeySecret, ReconcileCRW, DeployCRWInstance,
         DeleteCRWInstance, CleanupCRW, ReconcileEvents, CleanupEvents, CreateDefaultEventsSecret,
         ReconcileSso, CreateDbSecret, DisableSso, ReconcileTargetNamespaces,
         ReconcileDevfileRegistry, ReconcileFeaturedStacks, ProcessStatus, Deploy, Remove, Lacks,
         GenerateSecret, LeftInv, SecretsInv, KabShape
<1>3. faults' \in {faults, faults + 1}
  BY DEF Install, Begin, ReconcileAdmissionControllerWebhook, AwaitAdmissionControllerWebhook,
         CleanupCollectionController,
         ReconcileStackController, DeployLandingPage, CleanupLandingPage, CustomizeWebConsole,
         ReconcileKabaneroCli, CreateEncryptionKeySecret, ReconcileCRW, DeployCRWInstance,
         ValidateCRWInstance,
         DeleteCRWInstance, CleanupCRW, ReconcileEvents, CleanupEvents, CreateDefaultEventsSecret,
         ReconcileSso, CreateDbSecret, DisableSso, ReconcileTargetNamespaces,
         ReconcileDevfileRegistry, ReconcileFeaturedStacks, ProcessStatus, Deploy, Remove, Lacks,
         GenerateSecret, Fault
<1>4. faults \in Nat
  BY DEF LeftInv
<1>5. faults' \in Nat
  BY <1>3, <1>4
<1> QED
  BY <1>1, <1>2, <1>5

\* The steps of the clean-up, each with what it removes.
LEMMA CleanupLeft ==
    ASSUME LeftInv, Cleanup, SecretsInv'
    PROVE  LeftInv'
<1>1. LocShape /\ faults \in Nat
  BY DEF LeftInv
<1>2. ASSUME Onward PROVE LocShape' /\ loc'.spec = loc.spec
  BY <1>1, <1>2, OnwardKeepsSpec
<1>3. CASE BeginCleanup
  <2>1. loc' = [pc |-> "remove links", spec |-> kab.spec, recorded |-> kab.recorded]
    BY <1>3 DEF BeginCleanup
  <2>2. UNCHANGED <<kab, objs, faults>> /\ kab.phase # "gone"
    BY <1>3 DEF BeginCleanup
  <2>3. LocShape' /\ loc'.pc = "remove links" /\ loc'.spec = kab.spec
    BY <2>1 DEF LocShape
  <2> QED
    BY <1>1, <2>2, <2>3 DEF LeftInv, CleanupNames, LastSteps
<1>4. CASE RemoveWebConsoleCustomization
  <2>1. loc.pc = "remove links" /\ Onward /\ UNCHANGED <<kab, fresh>>
    BY <1>4 DEF RemoveWebConsoleCustomization, At
  <2>2. LocShape' /\ loc'.spec = loc.spec /\ loc'.pc = "remove webhook"
    BY <1>1, <1>2, <2>1, GoesOnExactly
  <2>3. kab.phase # "gone" /\ (fresh => loc.spec = kab.spec)
    BY <2>1 DEF LeftInv, SecretsInv, CleanupNames
  <2>4. PICK left \in SUBSET Links :
           /\ IF left = {} THEN UNCHANGED faults ELSE Fault
           /\ objs' = IF loc.spec.landing THEN objs \ (Links \ left) ELSE objs
    BY <1>4 DEF RemoveWebConsoleCustomization
  <2>5. faults' \in Nat
    BY <1>1, <2>4 DEF Fault
  <2>6. loc.spec.landing /\ faults' = 0 => objs' \cap Links = {}
    <3> SUFFICES ASSUME loc.spec.landing, faults' = 0 PROVE objs' \cap Links = {}
      OBVIOUS
    <3>1. left = {}
      BY <1>1, <2>4 DEF Fault
    <3> QED
      BY <2>4, <3>1
  <2> QED
    BY <2>1, <2>2, <2>3, <2>5, <2>6 DEF LeftInv, LastSteps
<1>5. CASE CleanupAdmissionControllerWebhook
  <2>1. /\ loc.pc = "remove webhook" /\ Onward /\ UNCHANGED <<kab, fresh, faults>>
        /\ objs' = objs \ {"webhook", "webhook config"}
    BY <1>5 DEF CleanupAdmissionControllerWebhook, Remove, At
  <2>2. LocShape' /\ loc'.spec = loc.spec /\ loc'.pc = "remove stacks"
    BY <1>1, <1>2, <2>1, GoesOnExactly
  <2>3. /\ kab.phase # "gone" /\ (fresh => loc.spec = kab.spec)
        /\ loc.spec.landing /\ faults = 0 => objs \cap Links = {}
    BY <2>1 DEF LeftInv, SecretsInv, CleanupNames
  <2> QED
    BY <1>1, <2>1, <2>2, <2>3 DEF LeftInv, LastSteps
<1>6. CASE CleanupStacks
  <2>1. loc.pc = "remove stacks" /\ UNCHANGED <<kab, objs, faults>>
    BY <1>6 DEF CleanupStacks, At
  <2>2. /\ kab.phase # "gone" /\ "webhook config" \notin objs /\ (fresh => loc.spec = kab.spec)
        /\ loc.spec.landing /\ faults = 0 => objs \cap Links = {}
    BY <2>1 DEF LeftInv, SecretsInv, CleanupNames
  <2>3. CASE Onward /\ UNCHANGED fresh
    <3>1. LocShape' /\ loc'.spec = loc.spec /\ loc'.pc = "remove binding"
      BY <1>1, <1>2, <2>1, <2>3, GoesOnExactly
    <3> QED
      BY <1>1, <2>1, <2>2, <2>3, <3>1 DEF LeftInv
  <2>4. CASE GiveUp
    BY <1>1, <2>1, <2>2, <2>4, GiveUpElsewhere, ElsewhereLeft
  <2> QED
    BY <1>6, <2>3, <2>4 DEF CleanupStacks
<1>7. ASSUME NEW gone,
             \/ Remove(loc.pc, TRUE, gone)
             \/ Onward /\ UNCHANGED <<kab, fresh, objs>> /\ (UNCHANGED faults \/ Fault),
             loc.pc \in LastSteps \ {"remove finalizer"},
             loc.pc = "remove binding" => "stack binding" \notin objs',
             loc.pc = "remove crw" => "codewind roles" \notin objs'
      PROVE  LeftInv'
  <2>1. /\ Onward /\ UNCHANGED <<kab, fresh>> /\ objs' \subseteq objs
        /\ faults' \in Nat /\ (faults' = 0 => faults = 0)
    <3>1. Onward /\ UNCHANGED <<kab, fresh>> /\ objs' \subseteq objs
      BY <1>7 DEF Remove
    <3>2. faults' = faults \/ faults' = faults + 1
      BY <1>7, Zenon DEF Remove, Fault
    <3> QED
      BY <1>1, <3>1, <3>2
  <2>2. LocShape' /\ loc'.spec = loc.spec
    BY <1>2, <2>1
  <2>3. loc'.pc \in LastSteps \ {"remove binding"} /\ (loc'.pc = "remove crw" => loc.pc = "remove binding")
    BY <1>1, <1>7, <2>1, GoesOnExactly DEF LastSteps
  <2>4. /\ kab.phase # "gone" /\ "webhook config" \notin objs /\ (fresh => loc.spec = kab.spec)
        /\ loc.spec.landing /\ faults = 0 => objs \cap Links = {}
    BY <1>7 DEF LeftInv, SecretsInv, CleanupNames, LastSteps
  <2>5. "stack binding" \notin objs'
    BY <1>7, <2>1 DEF LeftInv, LastSteps
  <2>6. loc'.pc # "remove crw" => "codewind roles" \notin objs'
    BY <1>1, <1>7, <2>1, GoesOnExactly DEF LeftInv, LastSteps
  <2> QED
    BY <1>1, <2>1, <2>2, <2>3, <2>4, <2>5, <2>6 DEF LeftInv, CleanupNames
<1>8. CASE Remove("remove binding", TRUE, {"stack binding"})
  <2>1. loc.pc = "remove binding" /\ "stack binding" \notin objs'
    BY <1>8 DEF Remove, At
  <2> QED
    BY <1>7, <1>8, <2>1 DEF LastSteps
<1>9. CASE DeleteCRWOperatorResources
  <2>1. loc.pc = "remove crw" /\ "codewind roles" \notin objs'
    BY <1>9 DEF DeleteCRWOperatorResources, Remove, At
  <2> QED
    BY <1>7, <1>9, <2>1 DEF DeleteCRWOperatorResources, LastSteps
<1>10. CASE CleanupTargetNamespaces
  <2>1. /\ loc.pc = "remove targets" /\ Onward /\ UNCHANGED <<kab, fresh, objs>>
        /\ UNCHANGED faults \/ Fault
    BY <1>10, Zenon DEF CleanupTargetNamespaces, At
  <2> QED
    BY <1>7, <2>1 DEF LastSteps
<1>11. CASE CleanupDevfileRegistry
  <2>1. /\ loc.pc = "remove devfile registry" /\ Onward /\ UNCHANGED <<kab, fresh, faults>>
        /\ objs' \subseteq objs
    BY <1>11 DEF CleanupDevfileRegistry, Remove, At
  <2>2. LocShape' /\ loc'.spec = loc.spec /\ loc'.pc = "remove finalizer"
    BY <1>1, <1>2, <2>1, GoesOnExactly
  <2>3. /\ kab.phase # "gone" /\ (fresh => loc.spec = kab.spec)
        /\ "webhook config" \notin objs /\ "stack binding" \notin objs /\ "codewind roles" \notin objs
        /\ loc.spec.landing /\ faults = 0 => objs \cap Links = {}
    BY <2>1 DEF LeftInv, SecretsInv, CleanupNames, LastSteps
  <2> QED
    BY <1>1, <2>1, <2>2, <2>3 DEF LeftInv
<1>12. CASE RemoveFinalizer
  <2>1. /\ loc.pc = "remove finalizer" /\ EndReconcile /\ UNCHANGED <<objs, faults>>
        /\ kab' = IF fresh THEN [kab EXCEPT !.phase = "gone"] ELSE kab
    BY <1>12 DEF RemoveFinalizer, At
  <2>2. LocShape' /\ loc'.pc \notin CleanupNames
    BY <2>1, EndElsewhere
  <2>3. /\ kab.phase # "gone" /\ (fresh => loc.spec = kab.spec)
        /\ "webhook config" \notin objs /\ "stack binding" \notin objs /\ "codewind roles" \notin objs
        /\ loc.spec.landing /\ faults = 0 => objs \cap Links = {}
    BY <2>1 DEF LeftInv, SecretsInv, CleanupNames, LastSteps
  <2>4. CASE fresh
    <3>1. kab'.spec = loc.spec
      BY <2>1, <2>3, <2>4 DEF LeftInv, SecretsInv, KabShape
    <3> QED
      BY <1>1, <2>1, <2>2, <2>3, <3>1 DEF LeftInv, CleanupNames
  <2>5. CASE ~fresh
    BY <1>1, <2>1, <2>2, <2>3, <2>5, ElsewhereLeft
  <2> QED
    BY <2>4, <2>5
<1> QED
  BY <1>3, <1>4, <1>5, <1>6, <1>8, <1>9, <1>10, <1>11, <1>12 DEF Cleanup, CleanupStackController

LEMMA OthersLeft ==
    ASSUME LeftInv, CallFails \/ Restart \/ Environment, SecretsInv'
    PROVE  LeftInv'
<1>1. LocShape /\ faults \in Nat
  BY DEF LeftInv
<1>2. CASE CallFails \/ Restart
  <2>1. kab' = kab /\ loc.pc # "idle" /\ faults' = faults + 1 /\ (GiveUp \/ EndReconcile)
    BY <1>2 DEF CallFails, Restart, Fault
  <2>2. kab'.phase # "gone"
    BY <2>1 DEF LeftInv, SecretsInv
  <2>3. faults' \in Nat
    BY <1>1, <2>1
  <2> QED
    BY <1>1, <2>1, <2>2, <2>3, GiveUpElsewhere, EndElsewhere, ElsewhereLeft
<1>3. CASE EditKabanero
  <2>1. UNCHANGED <<loc, objs, faults>> /\ fresh' = FALSE /\ kab.phase # "gone"
    BY <1>3 DEF EditKabanero
  <2>2. kab'.phase \in {kab.phase, "deleting"}
    BY <1>3 DEF EditKabanero, LeftInv, SecretsInv, KabShape
  <2>3. kab'.phase # "gone"
    BY <2>1, <2>2
  <2>4. LocShape'
    BY <1>1, <2>1 DEF LocShape
  <2> QED
    BY <2>1, <2>3, <2>4 DEF LeftInv
<1>4. CASE Environment /\ ~EditKabanero
  <2>1. UNCHANGED <<kab, loc, fresh, faults>>
    BY <1>4 DEF Environment, EditChe, ChangeWorld, DeliverSecrets, DeliverStacks, CheGone, FinishStacks,
                CollectGarbage, DeleteNamespace, CreateNamespace
  <2>2. objs' \cap Unowned \subseteq objs
    BY <1>4 DEF Environment, EditChe, ChangeWorld, DeliverSecrets, DeliverStacks, CheGone, FinishStacks,
                CollectGarbage, DeleteNamespace, CreateNamespace, Unowned, Links, Roles
  <2>3. LocShape'
    BY <1>1, <2>1 DEF LocShape
  <2>4. /\ "webhook config" \notin objs => "webhook config" \notin objs'
        /\ "stack binding" \notin objs => "stack binding" \notin objs'
        /\ "codewind roles" \notin objs => "codewind roles" \notin objs'
        /\ objs \cap Links = {} => objs' \cap Links = {}
    BY <2>2 DEF Unowned
  <2> QED
    BY <2>1, <2>3, <2>4 DEF LeftInv
<1> QED
  BY <1>2, <1>3, <1>4

LEMMA NextLeft ==
    ASSUME LeftInv, [Next]_vars
    PROVE  LeftInv'
<1>1. SecretsInv'
  BY NextSecrets DEF LeftInv
<1>2. CASE Install
  BY <1>1, <1>2, InstallElsewhere, InstallLeavesKabanero, ElsewhereLeft DEF LeftInv
<1>3. CASE UNCHANGED vars
  BY <1>1, <1>3 DEF vars, LeftInv, LocShape
<1> QED
  BY <1>1, <1>2, <1>3, CleanupLeft, OthersLeft DEF Next

-----------------------------------------------------------------------------
(* The bindings *)

\* Where what is on record has not been touched yet, or not any more.
EarlySteps == {"webhook", "webhook config"} \cup CleanupNames

\* Those of the clean-up after the bindings.
UnboundSteps == {"remove devfile registry", "remove finalizer"}

\* Bindings in other namespaces are on record, with the Kabanero or, during a
\* reconcile, with that; or they are forgotten.  At the end of the clean-up all that
\* are left are.
BoundInv ==
    /\ loc.pc = "idle" => bound \ {Own} \subseteq kab.recorded \cup forgotten
    /\ loc.pc # "idle" => bound \ {Own} \subseteq loc.recorded \cup forgotten
    /\ loc.pc \in EarlySteps => loc.recorded = kab.recorded
    /\ loc.pc \in UnboundSteps \/ kab.phase = "gone" => bound \ {Own} \subseteq forgotten

LEMMA InitBound == Init => BoundInv
  BY DEF Init, BoundInv, IdleState, EarlySteps, CleanupNames, LastSteps, UnboundSteps

\* A step that leaves what is bound and what is on record alone.
Walks ==
    /\ loc.pc # "idle" /\ UNCHANGED <<kab, bindVars>>
    /\ \/ /\ loc'.pc # "idle" /\ loc'.recorded = loc.recorded
          /\ loc'.pc \in EarlySteps => loc.pc \in EarlySteps
          /\ loc'.pc \in UnboundSteps => loc.pc \in UnboundSteps
       \/ loc'.pc = "idle" /\ loc.pc \in EarlySteps

LEMMA WalksBound ==
    ASSUME LeftInv, BoundInv, Walks
    PROVE  BoundInv'
<1>1. kab.phase # "gone"
  BY DEF Walks, LeftInv, SecretsInv
<1> QED
  BY <1>1 DEF Walks, BoundInv, bindVars, EarlySteps, CleanupNames, LastSteps, UnboundSteps

\* The end of a reconcile whose record is lost.
LEMMA LosesBound ==
    ASSUME LeftInv, BoundInv, loc.pc # "idle", UNCHANGED <<kab, bound>>, LoseStatus, EndReconcile
    PROVE  BoundInv'
<1>1. kab.phase # "gone" /\ loc'.pc = "idle"
  BY DEF EndReconcile, IdleState, LeftInv, SecretsInv
<1>2. bound' \ {Own} \subseteq kab'.recorded \cup forgotten'
  BY DEF LoseStatus, BoundInv
<1> QED
  BY <1>1, <1>2 DEF BoundInv, EarlySteps, CleanupNames, LastSteps, UnboundSteps

\* The steps that an error ends without a status.
LEMMA EndedSteps ==
    {CleanupSteps[i] : i \in DOMAIN CleanupSteps} \subseteq CleanupNames
<1>1. DOMAIN CleanupSteps = 1..8
  BY DEF CleanupSteps
<1>2. \A i \in 1..8 : i = 1 \/ i = 2 \/ i = 3 \/ i = 4 \/ i = 5 \/ i = 6 \/ i = 7 \/ i = 8
  OBVIOUS
<1>3. /\ CleanupSteps[1] \in CleanupNames /\ CleanupSteps[2] \in CleanupNames
      /\ CleanupSteps[3] \in CleanupNames /\ CleanupSteps[4] \in CleanupNames
      /\ CleanupSteps[5] \in CleanupNames /\ CleanupSteps[6] \in CleanupNames
      /\ CleanupSteps[7] \in CleanupNames /\ CleanupSteps[8] \in CleanupNames
  BY DEF CleanupSteps, CleanupNames, LastSteps
<1>4. \A i \in 1..8 : CleanupSteps[i] \in CleanupNames
  BY <1>2, <1>3
<1> QED
  BY <1>1, <1>4

LEMMA GivesUpBound ==
    ASSUME LeftInv, BoundInv, GiveUp, loc.pc # "idle", loc.pc # "status", UNCHANGED <<kab, bindVars>>
    PROVE  BoundInv'
<1>1. CASE EndReconcile
  <2>1. loc.pc \in {"webhook", "webhook config", "status"} \cup {CleanupSteps[i] : i \in DOMAIN CleanupSteps}
        \/ loc' = [loc EXCEPT !.pc = "status"]
    BY DEF GiveUp, GoTo
  <2>2. loc'.pc = "idle" /\ LocShape
    BY <1>1 DEF EndReconcile, IdleState, LeftInv
  <2>3. loc' # [loc EXCEPT !.pc = "status"]
    BY <2>2 DEF LocShape
  <2>4. loc.pc \in EarlySteps
    BY <2>1, <2>3, EndedSteps DEF EarlySteps
  <2> QED
    BY <2>2, <2>4, WalksBound DEF Walks
<1>2. CASE GoTo("status")
  <2>1. loc'.pc = "status" /\ loc'.recorded = loc.recorded
    BY <1>2 DEF GoTo, LeftInv, LocShape
  <2> QED
    BY <2>1, WalksBound DEF Walks, EarlySteps, CleanupNames, LastSteps, UnboundSteps
<1> QED
  BY <1>1, <1>2 DEF GiveUp

\* The installation and the clean-up go on.
LEMMA GoesOnBound ==
    ASSUME LeftInv, BoundInv, Onward, UNCHANGED <<kab, bindVars>>,
           loc.pc \in FollowedSteps \ {"remove targets"}
    PROVE  BoundInv'
<1>1. LocShape /\ loc.pc # "idle"
  BY DEF LeftInv, FollowedSteps, FirstSteps, LateSteps, LastSteps
<1>2. loc'.recorded = loc.recorded
  BY <1>1 DEF Onward, GoTo, LocShape
<1>3. CASE loc.pc \in FirstSteps
  <2>1. /\ loc'.pc \in SecondSteps
        /\ loc.pc = "await webhook" => loc'.pc = "stack controller"
    BY <1>1, <1>3, GoesOn, GoesOnExactly
  <2> QED
    BY <1>1, <1>2, <1>3, <2>1, WalksBound
    DEF Walks, FirstSteps, SecondSteps, EarlySteps, CleanupNames, LastSteps, UnboundSteps
<1>4. CASE loc.pc \in Controller \cup LateSteps
  <2>1. loc'.pc \in LateSteps \cup {"status", "stack binding"}
    BY <1>1, <1>4, GoesOn DEF FollowedSteps, Controller
  <2> QED
    BY <1>1, <1>2, <2>1, WalksBound
    DEF Walks, LateSteps, EarlySteps, CleanupNames, LastSteps, UnboundSteps
<1>5. CASE loc.pc \in {"remove stacks"} \cup (LastSteps \ {"remove finalizer", "remove targets"})
  <2>1. /\ loc'.pc \in LastSteps
        /\ loc.pc # "remove devfile registry" => loc'.pc \notin UnboundSteps
    BY <1>1, <1>5, GoesOn, GoesOnExactly DEF LastSteps, UnboundSteps
  <2> QED
    BY <1>1, <1>2, <1>5, <2>1, WalksBound
    DEF Walks, EarlySteps, CleanupNames, LastSteps, UnboundSteps
<1> QED
  BY <1>3, <1>4, <1>5 DEF FollowedSteps, Controller

\* ... or leave some steps out.
LEMMA SkipsBound ==
    ASSUME LeftInv, BoundInv, NEW pc \in {"status", "cli secret", "sso secret"}, GoTo(pc),
           loc.pc # "idle", UNCHANGED <<kab, bindVars>>
    PROVE  BoundInv'
<1>1. loc'.pc = pc /\ loc'.recorded = loc.recorded
  BY DEF GoTo, LeftInv, LocShape
<1> QED
  BY <1>1, WalksBound DEF Walks, EarlySteps, CleanupNames, LastSteps, UnboundSteps

LEMMA DeploysBound ==
    ASSUME LeftInv, BoundInv, NEW pc \in FollowedSteps \ {"remove targets"}, NEW wanted, NEW new,
           Deploy(pc, wanted, new) \/ Remove(pc, wanted, new)
    PROVE  BoundInv'
  BY GoesOnBound DEF Deploy, Remove, At

LEMMA LacksBound ==
    ASSUME LeftInv, BoundInv, NEW pc \in FollowedSteps, NEW part, NEW wanted, Lacks(pc, part, wanted)
    PROVE  BoundInv'
<1>1. loc.pc # "idle" /\ loc.pc # "status"
  BY DEF Lacks, At, FollowedSteps, FirstSteps, LateSteps, LastSteps
<1> QED
  BY <1>1, GivesUpBound DEF Lacks

LEMMA GeneratesBound ==
    ASSUME LeftInv, BoundInv, NEW pc \in LateSteps, NEW s, NEW wanted, GenerateSecret(pc, s, wanted)
    PROVE  BoundInv'
<1>1. loc.pc = pc /\ UNCHANGED <<kab, bindVars>> /\ (Onward \/ GiveUp)
  BY DEF GenerateSecret, At
<1>2. loc.pc \in FollowedSteps \ {"remove targets"} /\ loc.pc # "idle" /\ loc.pc # "status"
  BY <1>1 DEF FollowedSteps, FirstSteps, LateSteps, LastSteps
<1> QED
  BY <1>1, <1>2, GoesOnBound, GivesUpBound

\* The steps of the installation with their names.
LEMMA InstallSteppings ==
    /\ {"webhook", "webhook config", "await webhook", "stack controller", "stack binding"} \cup LateSteps
         \subseteq FollowedSteps \ {"remove targets"}
    /\ Links \subseteq LateSteps
  BY DEF FollowedSteps, FirstSteps, LateSteps, Links

LEMMA ComponentsBound ==
    ASSUME LeftInv, BoundInv,
           \/ ReconcileAdmissionControllerWebhook \/ AwaitAdmissionControllerWebhook
           \/ ReconcileStackController \/ DeployLandingPage \/ ReconcileKabaneroCli \/ ReconcileCRW
    PROVE  BoundInv'
<1>1. CASE ReconcileAdmissionControllerWebhook
  BY <1>1, InstallSteppings, DeploysBound, LacksBound DEF ReconcileAdmissionControllerWebhook
<1>2. CASE AwaitAdmissionControllerWebhook
  <2>1. loc.pc = "await webhook" /\ UNCHANGED <<kab, bindVars>> /\ (Onward \/ GoTo("status"))
    BY <1>2 DEF AwaitAdmissionControllerWebhook, At
  <2> QED
    BY <2>1, InstallSteppings, GoesOnBound, SkipsBound
<1>3. CASE ReconcileStackController
  BY <1>3, InstallSteppings, DeploysBound DEF ReconcileStackController
<1>4. CASE DeployLandingPage
  <2>1. CASE CleanupLandingPage
    <3>1. loc.pc = "landing" /\ UNCHANGED <<kab, bindVars>> /\ GoTo("cli secret")
      BY <2>1 DEF CleanupLandingPage, At
    <3> QED
      BY <3>1, SkipsBound
  <2>2. CASE CustomizeWebConsole
    BY <2>2, InstallSteppings, DeploysBound DEF CustomizeWebConsole
  <2>3. "landing" \in LateSteps /\ "landing deployment" \in LateSteps
    BY DEF LateSteps
  <2> QED
    BY <1>4, <2>1, <2>2, <2>3, InstallSteppings, DeploysBound, LacksBound DEF DeployLandingPage
<1>5. CASE ReconcileKabaneroCli
  <2>1. "cli secret" \in LateSteps /\ "cli" \in LateSteps
    BY DEF LateSteps
  <2>2. CASE CreateEncryptionKeySecret
    BY <2>1, <2>2, GeneratesBound DEF CreateEncryptionKeySecret
  <2>3. CASE ~CreateEncryptionKeySecret
    <3>1. loc.pc = "cli" /\ Onward /\ UNCHANGED <<kab, bindVars>>
      BY <1>5, <2>3 DEF ReconcileKabaneroCli, At
    <3> QED
      BY <2>1, <3>1, InstallSteppings, GoesOnBound
  <2> QED
    BY <2>2, <2>3
<1>6. CASE ReconcileCRW
  <2>1. "codewind roles" \in LateSteps /\ "crw" \in LateSteps
    BY DEF LateSteps
  <2>2. CASE DeployCRWInstance \/ CleanupCRW
    <3>1. loc.pc = "crw" /\ Onward /\ UNCHANGED <<kab, bindVars>>
      BY <2>2 DEF DeployCRWInstance, CleanupCRW, At
    <3> QED
      BY <2>1, <3>1, InstallSteppings, GoesOnBound
  <2>3. CASE DeleteCRWInstance
    <3>1. loc.pc = "crw" /\ UNCHANGED <<kab, loc, bindVars>>
      BY <2>3 DEF DeleteCRWInstance, At
    <3> QED
      BY <3>1, WalksBound DEF Walks
  <2> QED
    BY <1>6, <2>1, <2>2, <2>3, InstallSteppings, DeploysBound, LacksBound DEF ReconcileCRW
<1> QED
  BY <1>1, <1>2, <1>3, <1>4, <1>5, <1>6

LEMMA MoreComponentsBound ==
    ASSUME LeftInv, BoundInv,
           ReconcileEvents \/ ReconcileSso \/ ReconcileDevfileRegistry \/ ReconcileFeaturedStacks
    PROVE  BoundInv'
<1>1. {"events", "events secret", "sso secret", "sso", "devfile registry", "featured stacks"} \subseteq LateSteps
  BY DEF LateSteps
<1>2. CASE ReconcileEvents
  <2>1. CASE CreateDefaultEventsSecret
    BY <1>1, <2>1, GeneratesBound DEF CreateDefaultEventsSecret
  <2>2. CASE CleanupEvents
    <3>1. loc.pc = "events" /\ UNCHANGED <<kab, bindVars>> /\ GoTo("sso secret")
      BY <2>2 DEF CleanupEvents, At
    <3> QED
      BY <3>1, SkipsBound
  <2> QED
    BY <1>1, <1>2, <2>1, <2>2, InstallSteppings, DeploysBound DEF ReconcileEvents
<1>3. CASE ReconcileSso
  <2>1. CASE CreateDbSecret
    BY <1>1, <2>1, GeneratesBound DEF CreateDbSecret
  <2>2. CASE DisableSso
    <3>1. loc.pc = "sso" /\ Onward /\ UNCHANGED <<kab, bindVars>>
      BY <2>2 DEF DisableSso, At
    <3> QED
      BY <1>1, <3>1, InstallSteppings, GoesOnBound
  <2> QED
    BY <1>1, <1>3, <2>1, <2>2, InstallSteppings, DeploysBound, LacksBound DEF ReconcileSso
<1>4. CASE ReconcileDevfileRegistry
  BY <1>1, <1>4, InstallSteppings, DeploysBound DEF ReconcileDevfileRegistry
<1>5. CASE ReconcileFeaturedStacks
  <2>1. loc.pc = "featured stacks" /\ Onward /\ UNCHANGED <<kab, bindVars>>
    BY <1>5 DEF ReconcileFeaturedStacks, At
  <2> QED
    BY <1>1, <2>1, InstallSteppings, GoesOnBound
<1> QED
  BY <1>2, <1>3, <1>4, <1>5

\* What gets bindings is on record, and what loses them, or keeps them against
\* the operator's will, is struck out.
LEMMA TargetsBound ==
    ASSUME LeftInv, BoundInv, ReconcileTargetNamespaces
    PROVE  BoundInv'
<1>1. loc.pc = "targets" /\ UNCHANGED kab /\ kab.phase # "gone"
  BY DEF ReconcileTargetNamespaces, At, LeftInv, SecretsInv
<1> DEFINE wanted == TargetNamespaces(loc.spec.targets)
           had == TargetNamespaces(loc.recorded)
<1>2. PICK missed \in SUBSET (wanted \cap exists) :
        LET found == Found(wanted, missed)
            old == had \ found
            new == found \ had
        IN  \E left \in SUBSET old, lost \in SUBSET new :
              /\ IF missed \cup left \cup lost = {} THEN UNCHANGED faults ELSE Fault
              /\ bound' = (bound \ (old \ left)) \cup (new \ lost)
              /\ forgotten' = (forgotten \ old) \cup left
              /\ supposed' = (supposed \ new) \cup lost
              /\ loc' = [loc EXCEPT !.recorded = Recorded(found),
                                    !.pc = IF found = wanted THEN "devfile registry" ELSE "status"]
  BY Zenon DEF ReconcileTargetNamespaces
<1> DEFINE found == Found(wanted, missed)
           old == had \ found
           new == found \ had
<1>3. PICK left \in SUBSET old, lost \in SUBSET new :
        /\ bound' = (bound \ (old \ left)) \cup (new \ lost)
        /\ forgotten' = (forgotten \ old) \cup left
        /\ loc' = [loc EXCEPT !.recorded = Recorded(found),
                              !.pc = IF found = wanted THEN "devfile registry" ELSE "status"]
  BY <1>2
<1>4. loc'.recorded = Recorded(found) /\ loc'.pc \in {"devfile registry", "status"}
  BY <1>3, Zenon DEF LeftInv, LocShape
<1>5. loc.recorded \subseteq had
  BY DEF TargetNamespaces
<1>6. found \ {Own} \subseteq Recorded(found)
  BY DEF Found, Recorded, TargetNamespaces
<1>7. bound \ {Own} \subseteq loc.recorded \cup forgotten
  BY <1>1 DEF BoundInv
<1> HIDE DEF wanted, had, found
<1>8. bound' \ {Own} \subseteq loc'.recorded \cup forgotten'
  BY <1>3, <1>4, <1>5, <1>6, <1>7
<1> QED
  BY <1>1, <1>4, <1>8 DEF BoundInv, EarlySteps, CleanupNames, LastSteps, UnboundSteps

LEMMA BeginsBound ==
    ASSUME LeftInv, BoundInv, Begin \/ BeginCleanup
    PROVE  BoundInv'
<1>1. /\ loc.pc = "idle" /\ UNCHANGED <<kab, bindVars>> /\ kab.phase # "gone"
      /\ loc'.pc \in {"webhook", "remove links"} /\ loc'.recorded = kab.recorded
  <2>1. CASE Begin
    <3>1. loc' = [pc |-> "webhook", spec |-> kab.spec, recorded |-> kab.recorded]
      BY <2>1 DEF Begin
    <3> QED
      BY <2>1, <3>1 DEF Begin, At
  <2>2. CASE BeginCleanup
    <3>1. loc' = [pc |-> "remove links", spec |-> kab.spec, recorded |-> kab.recorded]
      BY <2>2 DEF BeginCleanup
    <3>2. loc.pc = "idle" /\ UNCHANGED <<kab, bindVars>> /\ kab.phase = "deleting"
      BY <2>2, Zenon DEF BeginCleanup, At
    <3> QED
      BY <3>1, <3>2
  <2> QED
    BY <2>1, <2>2
<1> QED
  BY <1>1 DEF BoundInv, bindVars, EarlySteps, CleanupNames, LastSteps, UnboundSteps

LEMMA ProcessStatusBound ==
    ASSUME LeftInv, BoundInv, ProcessStatus
    PROVE  BoundInv'
<1>1. loc.pc = "status" /\ EndReconcile /\ UNCHANGED bound /\ kab.phase # "gone"
  BY DEF ProcessStatus, At, LeftInv, SecretsInv
<1>2. CASE fresh
  <2>1. /\ kab'.recorded = loc.recorded /\ kab'.phase = kab.phase /\ loc'.pc = "idle"
        /\ forgotten' = forgotten \ loc.recorded
    BY <1>2 DEF ProcessStatus, EndReconcile, IdleState, LeftInv, SecretsInv, KabShape
  <2> QED
    BY <1>1, <2>1 DEF BoundInv, EarlySteps, CleanupNames, LastSteps, UnboundSteps
<1>3. CASE ~fresh
  BY <1>1, <1>3, LosesBound DEF ProcessStatus
<1> QED
  BY <1>2, <1>3

\* What is on record loses its bindings, or is forgotten.
LEMMA CleanupTargetsBound ==
    ASSUME LeftInv, BoundInv, CleanupTargetNamespaces
    PROVE  BoundInv'
<1>1. loc.pc = "remove targets" /\ Onward /\ UNCHANGED kab /\ LocShape
  BY DEF CleanupTargetNamespaces, At, LeftInv
<1>2. loc'.pc = "remove devfile registry" /\ loc'.recorded = loc.recorded
  <2>1. loc'.pc = "remove devfile registry"
    BY <1>1, GoesOnExactly
  <2> QED
    BY <1>1, <2>1 DEF Onward, GoTo, LocShape
<1> DEFINE had == TargetNamespaces(loc.recorded)
<1>3. PICK left \in SUBSET had :
         /\ bound' = bound \ (had \ left)
         /\ forgotten' = (forgotten \ had) \cup left
  BY Zenon DEF CleanupTargetNamespaces
<1>4. loc.recorded \subseteq had
  BY DEF TargetNamespaces
<1>5. /\ bound \ {Own} \subseteq loc.recorded \cup forgotten
      /\ loc.recorded = kab.recorded
  BY <1>1 DEF BoundInv, EarlySteps, CleanupNames, LastSteps
<1> HIDE DEF had
<1>6. bound' \ {Own} \subseteq forgotten'
  BY <1>3, <1>4, <1>5
<1> QED
  BY <1>1, <1>2, <1>5, <1>6 DEF BoundInv

LEMMA CleanupBound ==
    ASSUME LeftInv, BoundInv, Cleanup
    PROVE  BoundInv'
<1>1. {"remove links", "remove webhook", "remove stacks", "remove binding", "remove crw",
       "remove devfile registry"} \subseteq FollowedSteps \ {"remove targets"}
  BY DEF FollowedSteps, FirstSteps, LastSteps
<1>2. CASE RemoveWebConsoleCustomization
  <2>1. loc.pc = "remove links" /\ Onward /\ UNCHANGED <<kab, bindVars>>
    BY <1>2 DEF RemoveWebConsoleCustomization, At
  <2> QED
    BY <1>1, <2>1, GoesOnBound
<1>3. CASE CleanupStacks
  <2>1. loc.pc = "remove stacks" /\ UNCHANGED <<kab, bindVars>> /\ (Onward \/ GiveUp)
    BY <1>3 DEF CleanupStacks, At
  <2> QED
    BY <1>1, <2>1, GoesOnBound, GivesUpBound
<1>4. CASE \/ CleanupAdmissionControllerWebhook \/ DeleteCRWOperatorResources
           \/ CleanupDevfileRegistry \/ Remove("remove binding", TRUE, {"stack binding"})
  BY <1>1, <1>4, DeploysBound
  DEF CleanupAdmissionControllerWebhook, DeleteCRWOperatorResources, CleanupDevfileRegistry
<1>5. CASE RemoveFinalizer
  <2>1. /\ loc.pc = "remove finalizer" /\ loc'.pc = "idle" /\ UNCHANGED bindVars
        /\ kab'.recorded = kab.recorded
    BY <1>5 DEF RemoveFinalizer, At, EndReconcile, IdleState, LeftInv, SecretsInv, KabShape
  <2>2. bound \ {Own} \subseteq forgotten
    BY <2>1 DEF BoundInv, UnboundSteps
  <2> QED
    BY <2>1, <2>2 DEF BoundInv, bindVars, EarlySteps, CleanupNames, LastSteps, UnboundSteps
<1> QED
  BY <1>2, <1>3, <1>4, <1>5, BeginsBound, CleanupTargetsBound DEF Cleanup, CleanupStackController

LEMMA FaultsBound ==
    ASSUME LeftInv, BoundInv, CallFails \/ Restart
    PROVE  BoundInv'
<1>1. CASE CallFails /\ loc.pc = "status"
  <2>1. EndReconcile /\ LoseStatus /\ UNCHANGED <<kab, bound>>
    BY <1>1 DEF CallFails, GiveUp, At
  <2> QED
    BY <1>1, <2>1, LosesBound
<1>2. CASE CallFails /\ loc.pc # "status"
  <2>1. loc.pc # "idle" /\ GiveUp /\ UNCHANGED <<kab, bindVars>>
    BY <1>2 DEF CallFails, At, bindVars
  <2> QED
    BY <1>2, <2>1, GivesUpBound
<1>3. CASE Restart
  BY <1>3, LosesBound DEF Restart
<1> QED
  BY <1>1, <1>2, <1>3

LEMMA EnvironmentBound ==
    ASSUME LeftInv, BoundInv, Environment
    PROVE  BoundInv'
<1>1. UNCHANGED <<loc, forgotten>> /\ bound' \subseteq bound
  BY DEF Environment, EditKabanero, EditChe, ChangeWorld, DeliverSecrets, DeliverStacks, CheGone,
         FinishStacks, CollectGarbage, DeleteNamespace, CreateNamespace, bindVars
<1>2. kab'.recorded = kab.recorded /\ (kab'.phase = "gone" => kab.phase = "gone")
  <2>1. CASE EditKabanero
    BY <2>1 DEF EditKabanero, LeftInv, SecretsInv, KabShape
  <2>2. CASE ~EditKabanero
    BY <2>2 DEF Environment, EditChe, ChangeWorld, DeliverSecrets, DeliverStacks, CheGone,
         FinishStacks, CollectGarbage, DeleteNamespace, CreateNamespace
  <2> QED
    BY <2>1, <2>2
<1> QED
  BY <1>1, <1>2 DEF BoundInv

LEMMA NextBound ==
    ASSUME LeftInv, BoundInv, [Next]_vars
    PROVE  BoundInv'
<1>1. CASE Install
  BY <1>1, BeginsBound, ComponentsBound, MoreComponentsBound, TargetsBound, ProcessStatusBound
  DEF Install
<1>2. CASE UNCHANGED vars
  BY <1>2 DEF vars, BoundInv
<1> QED
  BY <1>1, <1>2, CleanupBound, FaultsBound, EnvironmentBound DEF Next

\* A Kabanero that is gone leaves what NothingLeftBehind names and nothing else
\* that the garbage collector cannot see, whatever was edited and failed before
\* its clean-up came through, and however often that began.
THEOREM NothingIsLeftBehind == Spec => []NothingLeftBehind
<1>1. LeftInv /\ BoundInv => NothingLeftBehind
  BY DEF LeftInv, BoundInv, NothingLeftBehind, Unowned
<1>2. LeftInv /\ BoundInv /\ [Next]_vars => LeftInv' /\ BoundInv'
  BY NextLeft, NextBound
<1> QED
  BY <1>1, <1>2, InitLeft, InitBound, PTL DEF Spec

-----------------------------------------------------------------------------
(* Types *)

Objects == Owned \cup Unowned \cup Legacy

\* TypeOK but for the numbers of secrets.
Types ==
    /\ kab \in Resource /\ loc \in Local /\ fresh \in BOOLEAN
    /\ objs \subseteq Objects
    /\ kept \subseteq Secrets /\ seen \subseteq Secrets
    /\ bound \subseteq exists /\ exists \subseteq Namespaces
    /\ forgotten \subseteq Namespaces /\ supposed \subseteq Namespaces
    /\ stacks \in {"none", "some", "leaving"} /\ shown \in BOOLEAN /\ overlooked \in BOOLEAN
    /\ world \subseteq Parts
    /\ edits \in 0..MaxEdits /\ changes \in Nat /\ faults \in Nat /\ changes + faults <= MaxMishaps

\* It is only made if events are asked for.
EventsAsked == loc.pc = "events secret" => loc.spec.events

\* The secret of the events is removed when events are switched off and made
\* anew when they are switched on: as often as there are edits, and once more.
\* Unless it is there, another edit has to come before it is made, or came since
\* it was made: when the Kabanero, or the copy that is worked from, asks for events.
EventsInv ==
    /\ EventsAsked
    /\ generated["events"] <= edits + 1
    /\ kab.phase # "gone" /\ "events" \notin kept =>
          /\ kab.spec.events => generated["events"] <= edits
          /\ loc.pc # "idle" /\ loc.spec.events => generated["events"] <= edits
    /\ loc.pc # "idle" /\ ~loc.spec.events /\ kab.spec.events => generated["events"] <= edits

TypeInv == SecretsInv /\ Types /\ EventsInv

\* The fields of the records.
LEMMA Fields ==
    /\ \A r \in Resource :
          r.phase \in {"live", "deleting", "gone"} /\ r.spec \in Specs /\ r.recorded \in SUBSET Namespaces
    /\ \A l \in Local :
          /\ l.pc \in {"idle"} \cup StepNames /\ l.spec \in Specs /\ l.recorded \in SUBSET Namespaces
          /\ l = [pc |-> l.pc, spec |-> l.spec, recorded |-> l.recorded]
    /\ \A s \in Specs : s.targets \in SUBSET Namespaces
  BY InstallsAssumption DEF Resource, Local, KabaneroSpec

\* The steps that are named in the code.
LEMMA NamedSteps ==
    /\ \A i \in 1..29 : AllSteps[i] \in StepNames
    /\ {"webhook", "remove links", "status", "cli secret", "sso secret", "devfile registry"}
          \subseteq StepNames
<1>1. \A i \in 1..29 : AllSteps[i] \in StepNames
  BY StepsInOrder DEF StepNames
<1>2. /\ AllSteps[1] \in StepNames /\ AllSteps[22] \in StepNames /\ AllSteps[21] \in StepNames
      /\ AllSteps[10] \in StepNames /\ AllSteps[16] \in StepNames /\ AllSteps[19] \in StepNames
  BY <1>1
<1>3. /\ "webhook" \in StepNames /\ "remove links" \in StepNames /\ "status" \in StepNames
      /\ "cli secret" \in StepNames /\ "sso secret" \in StepNames /\ "devfile registry" \in StepNames
  <2>1. AllSteps[22] = "remove links"
    BY CleanupNumbers
  <2> QED
    BY <1>2, <2>1, InstallNumbers, Zenon
<1> QED
  BY <1>1, <1>3, Zenon

\* The worker is idle in the beginning, and again at the end.
LEMMA IdleType == IdleState \in Local /\ IdleState.pc = "idle"
<1>1. (CHOOSE s \in Specs : TRUE) \in Specs
  BY InstallsAssumption
<1> QED
  BY <1>1 DEF IdleState, Local

\* Nothing has been made in the beginning.
LEMMA InitTypes == Init => TypeInv
<1> SUFFICES ASSUME Init PROVE TypeInv
  OBVIOUS
<1>1. kab \in Resource /\ kab.spec \in Specs
  BY DEF Init, Resource
<1>2. Own \in Namespaces /\ 0 \in 0..MaxEdits /\ 0 + 0 <= MaxMishaps
  BY InstallsAssumption
<1>3. generated["events"] = 0
  BY DEF Init, Secrets
<1>4. world \subseteq Parts
  BY InstallsAssumption DEF Init
<1>5. Types
  BY <1>1, <1>2, <1>4, IdleType DEF Init, Types, Objects
<1>6. EventsInv
  BY <1>2, <1>3, IdleType DEF Init, EventsInv, EventsAsked
<1> QED
  BY <1>5, <1>6, InitSecrets DEF TypeInv

-----------------------------------------------------------------------------
(* Where a step leads *)

\* The reconcile goes on, with the same spec, or ends.
Moves ==
    /\ loc' \in Local /\ fresh' \in BOOLEAN
    /\ loc.pc # "idle"
    /\ loc'.pc = "idle" \/ (loc'.spec = loc.spec /\ (loc'.pc = "events secret" => loc.spec.events))

\* The secret of the events only comes after them.
LEMMA BeforeEventsSecret ==
    \A i \in 1..28 : AllSteps[i + 1] = "events secret" => AllSteps[i] = "events"
<1>1. \A j \in 1..29 : AllSteps[j] = "events secret" => j = 15
  BY Numbers, InstallNumbers, CleanupNumbers
<1>2. \A i \in 1..28 : i + 1 \in 1..29 /\ (i + 1 = 15 => i = 14)
  OBVIOUS
<1> QED
  BY <1>1, <1>2, InstallNumbers

\* A step that goes on to the next one ...
LEMMA OnwardMoves ==
    ASSUME Types, Onward, loc.pc \in FollowedSteps, loc.pc = "events" => loc.spec.events,
           UNCHANGED fresh
    PROVE  Moves
<1>1. PICK i \in 1..28 : AllSteps[i] = loc.pc /\ loc' = [loc EXCEPT !.pc = AllSteps[i + 1]]
  BY Follower
<1>2. i + 1 \in 1..29
  OBVIOUS
<1>3. AllSteps[i + 1] \in StepNames
  BY <1>2, NamedSteps
<1> DEFINE pc == AllSteps[i + 1]
<1>4. pc = "events secret" => loc.spec.events
  BY <1>1, BeforeEventsSecret
<1>5. loc' = [loc EXCEPT !.pc = pc] /\ pc \in StepNames
  BY <1>1, <1>3
<1> HIDE DEF pc
<1>6. loc' \in Local /\ loc'.pc = pc /\ loc'.spec = loc.spec
  BY <1>5 DEF Types, Local
<1>7. loc.pc # "idle"
  BY DEF FollowedSteps, FirstSteps, LateSteps, LastSteps
<1> QED
  BY <1>4, <1>6, <1>7 DEF Moves, Types

\* ... one that goes somewhere else ...
LEMMA GoToMoves ==
    ASSUME Types, NEW pc \in {"status", "cli secret", "sso secret"}, GoTo(pc),
           loc.pc # "idle", UNCHANGED fresh
    PROVE  Moves
<1>1. loc' = [loc EXCEPT !.pc = pc] /\ pc \in StepNames /\ pc # "events secret"
  BY NamedSteps DEF GoTo
<1>2. loc' \in Local /\ loc'.pc = pc /\ loc'.spec = loc.spec
  BY <1>1 DEF Types, Local
<1> QED
  BY <1>1, <1>2 DEF Moves, Types

\* ... and one that gives up.
LEMMA GiveUpMoves ==
    ASSUME Types, GiveUp, loc.pc # "idle"
    PROVE  Moves
<1>1. CASE EndReconcile
  BY <1>1, IdleType DEF EndReconcile, Moves
<1>2. CASE GoTo("status") /\ UNCHANGED fresh
  BY <1>2, GoToMoves
<1> QED
  BY <1>1, <1>2 DEF GiveUp
-----------------------------------------------------------------------------
(* Steps that keep the types *)

\* Only what is installed changes, maybe by a fault.
LEMMA ObjectsTypes ==
    ASSUME TypeInv, Moves, objs' \subseteq Objects, SecretsInv',
           UNCHANGED <<kab, secretVars, bindVars, stackVars, worldVars, edits>>,
           UNCHANGED faults \/ Fault
    PROVE  TypeInv'
<1>1. faults' \in Nat /\ changes + faults' <= MaxMishaps
  BY InstallsAssumption DEF Fault, MayHappen, TypeInv, Types
<1>2. Types'
  BY <1>1 DEF TypeInv, Types, Moves, secretVars, bindVars, stackVars, worldVars
<1>3. EventsInv'
  BY DEF TypeInv, EventsInv, EventsAsked, Moves, secretVars
<1> QED
  BY <1>2, <1>3 DEF TypeInv

\* Something is installed, if it is wanted.
LEMMA DeployTypes ==
    ASSUME TypeInv, SecretsInv', NEW pc \in FollowedSteps, NEW wanted, NEW new \in SUBSET Objects,
           Deploy(pc, wanted, new), pc = "events" => loc.spec.events
    PROVE  TypeInv'
<1>1. Moves
  BY OnwardMoves DEF Deploy, At, TypeInv
<1>2. objs' \subseteq Objects
  BY DEF Deploy, TypeInv, Types
<1>3. changes' = changes /\ faults' = faults
  BY DEF Deploy, worldVars
<1> QED
  BY <1>1, <1>2, <1>3, ObjectsTypes DEF Deploy

\* Something is removed.
LEMMA RemoveTypes ==
    ASSUME TypeInv, SecretsInv', NEW pc \in FollowedSteps, NEW wanted, NEW old,
           Remove(pc, wanted, old), pc # "events"
    PROVE  TypeInv'
<1>1. Moves
  BY OnwardMoves DEF Remove, At, TypeInv
<1>2. objs' \subseteq Objects
  BY DEF Remove, TypeInv, Types
<1> QED
  BY <1>1, <1>2, ObjectsTypes DEF Remove

\* Something is missing that is needed.
LEMMA LacksTypes ==
    ASSUME TypeInv, SecretsInv', NEW pc, pc # "idle", NEW part, NEW wanted, Lacks(pc, part, wanted)
    PROVE  TypeInv'
<1>1. Moves
  BY GiveUpMoves DEF Lacks, At, TypeInv
<1> QED
  BY <1>1, ObjectsTypes DEF Lacks, TypeInv, Types

\* A secret is made for the first time, or it is that of the events.
LEMMA GenerateTypes ==
    ASSUME TypeInv, SecretsInv', NEW pc \in FollowedSteps, pc # "events", NEW s \in Secrets, NEW wanted,
           GenerateSecret(pc, s, wanted), s = "events" => loc.spec.events
    PROVE  TypeInv'
<1>1. /\ loc.pc = pc /\ UNCHANGED <<kab, objs, seen, bindVars, stackVars, worldVars, edits, faults>>
      /\ loc.pc # "idle"
  BY DEF GenerateSecret, At, FollowedSteps, FirstSteps, LateSteps, LastSteps
<1>2. Moves
  <2>1. (Onward /\ UNCHANGED fresh) \/ GiveUp
    BY DEF GenerateSecret
  <2> QED
    BY <1>1, <2>1, OnwardMoves, GiveUpMoves DEF TypeInv
<1>3. CASE UNCHANGED <<kept, generated>>
  BY <1>1, <1>2, <1>3, ObjectsTypes DEF TypeInv, Types, secretVars
<1>4. CASE /\ s \notin kept /\ kept' = kept \cup {s}
           /\ generated' = [generated EXCEPT ![s] = @ + 1]
  <2>1. Types'
    BY <1>1, <1>2, <1>4 DEF TypeInv, Types, Moves, bindVars, stackVars, worldVars
  <2>2. /\ generated'["events"] = IF s = "events" THEN generated["events"] + 1 ELSE generated["events"]
        /\ generated["events"] \in Nat
    BY <1>4 DEF TypeInv, SecretsInv, Secrets
  <2>3. kab.phase # "gone"
    BY <1>1 DEF TypeInv, SecretsInv
  <2>4. CASE s = "events"
    <3>1. loc.spec.events /\ generated["events"] <= edits
      BY <1>1, <1>4, <2>3, <2>4 DEF TypeInv, EventsInv, EventsAsked
    <3>2. "events" \in kept' /\ (loc'.pc = "idle" \/ loc'.spec.events)
      BY <1>2, <1>4, <2>4, <3>1 DEF Moves
    <3>3. generated'["events"] <= edits + 1 /\ edits' = edits
      BY <1>1, <2>2, <2>4, <3>1 DEF TypeInv, Types
    <3>4. EventsInv'
      BY <3>2, <3>3, <3>1, <1>2 DEF EventsInv, EventsAsked, Moves
    <3> QED
      BY <2>1, <3>4 DEF TypeInv
  <2>5. CASE s # "events"
    <3>1. generated'["events"] = generated["events"] /\ ("events" \in kept' <=> "events" \in kept)
      BY <1>4, <2>2, <2>5
    <3>2. EventsInv'
      BY <1>1, <1>2, <3>1 DEF EventsInv, EventsAsked, TypeInv, Moves
    <3> QED
      BY <2>1, <3>2 DEF TypeInv
  <2> QED
    BY <2>4, <2>5
<1> QED
  BY <1>3, <1>4 DEF GenerateSecret, MayCreate

\* The removal of the events takes their secret along, if events are not wanted.
LEMMA CleanupEventsTypes ==
    ASSUME TypeInv, SecretsInv', CleanupEvents
    PROVE  TypeInv'
<1>0. /\ loc.pc = "events" /\ ~loc.spec.events
      /\ UNCHANGED <<kab, fresh, seen, generated, bindVars, stackVars, worldVars, edits>>
      /\ \/ objs' = objs \ {"events"} /\ kept' = kept \ (seen \cap {"events"}) /\ UNCHANGED faults
         \/ Fault /\ UNCHANGED <<objs, kept>>
  BY Zenon DEF CleanupEvents, At
<1>1. /\ loc.pc # "idle" /\ ~loc.spec.events /\ kab.phase # "gone"
      /\ UNCHANGED <<kab, fresh, seen, generated, bindVars, stackVars, worldVars, edits>>
      /\ objs' \subseteq objs /\ kept' \subseteq kept
  BY <1>0 DEF TypeInv, SecretsInv
<1>2. Moves
  BY <1>1, GoToMoves DEF CleanupEvents, TypeInv
<1>3. faults' \in Nat /\ changes + faults' <= MaxMishaps
  BY <1>0, InstallsAssumption DEF Fault, MayHappen, TypeInv, Types, worldVars
<1>4. Types'
  BY <1>1, <1>2, <1>3 DEF TypeInv, Types, Moves, bindVars, stackVars, worldVars
<1>5. EventsInv'
  BY <1>1, <1>2 DEF TypeInv, EventsInv, EventsAsked, Moves
<1> QED
  BY <1>4, <1>5 DEF TypeInv

\* Whatever happens to the bindings and the Stacks.
OthersTyped ==
    /\ bound \subseteq exists
    /\ forgotten \subseteq Namespaces /\ supposed \subseteq Namespaces
    /\ stacks \in {"none", "some", "leaving"} /\ shown \in BOOLEAN /\ overlooked \in BOOLEAN

\* Neither what is installed nor the secrets change, maybe by a fault.
LEMMA ElsewhereTypes ==
    ASSUME TypeInv, Moves, SecretsInv', UNCHANGED <<kab, objs, secretVars, worldVars, edits>>,
           UNCHANGED faults \/ Fault, OthersTyped'
    PROVE  TypeInv'
<1>1. faults' \in Nat /\ changes + faults' <= MaxMishaps
  BY InstallsAssumption DEF Fault, MayHappen, TypeInv, Types
<1>2. Types'
  BY <1>1 DEF TypeInv, Types, OthersTyped, Moves, secretVars, worldVars
<1>3. EventsInv'
  BY DEF TypeInv, EventsInv, EventsAsked, Moves, secretVars
<1> QED
  BY <1>2, <1>3 DEF TypeInv

\* A reconcile starts, with the Kabanero as it is.
LEMMA BeginsTypes ==
    ASSUME TypeInv, SecretsInv', Begin \/ BeginCleanup
    PROVE  TypeInv'
<1>1. /\ UNCHANGED <<kab, objs, secretVars, bindVars, stackVars, worldVars, edits, faults>>
      /\ fresh' = TRUE
  BY DEF Begin, BeginCleanup
<1>2. PICK pc \in {"webhook", "remove links"} :
        loc' = [pc |-> pc, spec |-> kab.spec, recorded |-> kab.recorded]
  BY DEF Begin, BeginCleanup
<1>3. pc \in StepNames /\ pc # "events secret"
  BY NamedSteps
<1>4. loc' \in Local /\ loc'.pc # "events secret" /\ loc'.spec = kab.spec
  BY <1>2, <1>3, Fields DEF Local, TypeInv, Types
<1>5. Types'
  BY <1>1, <1>4 DEF TypeInv, Types, secretVars, bindVars, stackVars, worldVars
<1>6. EventsInv'
  BY <1>1, <1>4 DEF TypeInv, EventsInv, EventsAsked, secretVars
<1> QED
  BY <1>5, <1>6 DEF TypeInv

\* What the end of a reconcile makes of its record.
LEMMA LoseStatusTypes ==
    ASSUME Types, LoseStatus
    PROVE  forgotten' \subseteq Namespaces /\ supposed' \subseteq Namespaces
<1>1. loc.recorded \subseteq Namespaces /\ kab.recorded \subseteq Namespaces
  BY Fields DEF Types
<1> QED
  BY <1>1 DEF Types, LoseStatus

\* The end of a reconcile: the spec of the Kabanero does not change.
LEMMA EndsTypes ==
    ASSUME TypeInv, SecretsInv', ProcessStatus \/ RemoveFinalizer
    PROVE  TypeInv'
<1>1. /\ UNCHANGED <<objs, secretVars, bound, stackVars, worldVars, edits, faults>>
      /\ loc' \in Local /\ loc'.pc = "idle" /\ fresh' = FALSE
  BY IdleType DEF ProcessStatus, RemoveFinalizer, EndReconcile, bindVars
<1>2. /\ kab' \in Resource /\ kab'.spec = kab.spec
      /\ kab'.phase = kab.phase \/ kab'.phase = "gone"
  <2>1. loc.recorded \in SUBSET Namespaces
    BY Fields DEF TypeInv, Types
  <2>2. CASE ProcessStatus
    BY <2>1, <2>2 DEF ProcessStatus, TypeInv, Types, Resource
  <2>3. CASE RemoveFinalizer
    BY <2>3 DEF RemoveFinalizer, TypeInv, Types, Resource
  <2> QED
    BY <2>2, <2>3
<1>3. forgotten' \subseteq Namespaces /\ supposed' \subseteq Namespaces
  <2>1. \/ LoseStatus
        \/ UNCHANGED <<forgotten, supposed>>
        \/ forgotten' = forgotten \ loc.recorded /\ supposed' = supposed \cap loc.recorded
    BY DEF ProcessStatus, RemoveFinalizer, bindVars
  <2> QED
    BY <2>1, LoseStatusTypes DEF TypeInv, Types
<1>4. Types'
  BY <1>1, <1>2, <1>3 DEF TypeInv, Types, secretVars, stackVars, worldVars
<1>5. EventsInv'
  BY <1>1, <1>2 DEF TypeInv, EventsInv, EventsAsked, secretVars
<1> QED
  BY <1>4, <1>5 DEF TypeInv

-----------------------------------------------------------------------------

\* What the steps install.
LEMMA NamedObjects ==
    /\ "webhook" \in Objects /\ "webhook config" \in Objects /\ "stack controller" \in Objects
    /\ "stack binding" \in Objects /\ "landing" \in Objects /\ "landing deployment" \in Objects
    /\ "cli" \in Objects /\ "codewind roles" \in Objects /\ "che" \in Objects
    /\ "edited che" \in Objects /\ "leaving che" \in Objects /\ "events" \in Objects
    /\ "sso" \in Objects /\ "devfile registry" \in Objects /\ Links \subseteq Objects
    /\ "landing roles" \in Objects /\ "cli roles" \in Objects
  BY Zenon DEF Objects, Owned, Unowned, Roles

\* The steps of the components.
LEMMA ComponentSteps ==
    /\ "webhook" \in FollowedSteps /\ "webhook config" \in FollowedSteps /\ "await webhook" \in FollowedSteps
    /\ "stack controller" \in FollowedSteps /\ "stack binding" \in FollowedSteps
    /\ "landing" \in FollowedSteps /\ "landing deployment" \in FollowedSteps
    /\ Links \subseteq FollowedSteps /\ "events" \notin Links
    /\ "cli secret" \in FollowedSteps /\ "cli" \in FollowedSteps
    /\ "codewind roles" \in FollowedSteps /\ "crw" \in FollowedSteps
    /\ "events" \in FollowedSteps /\ "events secret" \in FollowedSteps
    /\ "sso secret" \in FollowedSteps /\ "sso" \in FollowedSteps
    /\ "devfile registry" \in FollowedSteps /\ "featured stacks" \in FollowedSteps
  BY Zenon DEF FollowedSteps, FirstSteps, LateSteps, Links

\* ... and of the clean-up.
LEMMA CleanupStepNames ==
    /\ "remove links" \in FollowedSteps /\ "remove webhook" \in FollowedSteps
    /\ "remove stacks" \in FollowedSteps /\ "remove binding" \in FollowedSteps
    /\ "remove crw" \in FollowedSteps /\ "remove targets" \in FollowedSteps
    /\ "remove devfile registry" \in FollowedSteps
  BY Zenon DEF FollowedSteps, FirstSteps, LastSteps

\* A step that goes on and installs or removes something, maybe with a fault.
Works(pc) ==
    /\ loc.pc = pc /\ Onward
    /\ UNCHANGED <<kab, fresh, secretVars, bindVars, stackVars, worldVars, edits>>
    /\ UNCHANGED faults \/ Fault
    /\ objs' \subseteq Objects

\* That keeps the types as well.
LEMMA WorksTypes ==
    ASSUME TypeInv, SecretsInv', NEW pc \in FollowedSteps, pc # "events", Works(pc)
    PROVE  TypeInv'
<1>1. Moves
  BY OnwardMoves DEF Works, TypeInv
<1> QED
  BY <1>1, ObjectsTypes DEF Works

\* One that goes somewhere else.
Skips(pc) ==
    /\ loc.pc # "idle" /\ GoTo(pc)
    /\ UNCHANGED <<kab, fresh, secretVars, bindVars, stackVars, worldVars, edits>>
    /\ UNCHANGED faults \/ Fault
    /\ objs' \subseteq Objects

\* That keeps the types, too.
LEMMA SkipsTypes ==
    ASSUME TypeInv, SecretsInv', NEW pc \in {"status", "cli secret", "sso secret"}, Skips(pc)
    PROVE  TypeInv'
<1>1. Moves
  BY GoToMoves, Zenon DEF Skips, TypeInv
<1> QED
  BY <1>1, ObjectsTypes DEF Skips

\* The webhook, the stack controller and the landing page.
LEMMA FirstComponentsTypes ==
    ASSUME TypeInv, SecretsInv',
           \/ ReconcileAdmissionControllerWebhook \/ AwaitAdmissionControllerWebhook
           \/ ReconcileStackController \/ DeployLandingPage
    PROVE  TypeInv'
<1>0. objs \subseteq Objects
  BY DEF TypeInv, Types
<1>1. CASE ReconcileAdmissionControllerWebhook
  <2>1. {"webhook"} \in SUBSET Objects /\ {"webhook config"} \in SUBSET Objects
    BY NamedObjects, Zenon
  <2> QED
    BY <1>1, <2>1, ComponentSteps, DeployTypes, LacksTypes, Zenon DEF ReconcileAdmissionControllerWebhook
<1>2. CASE AwaitAdmissionControllerWebhook
  <2>1. /\ loc.pc = "await webhook" /\ loc.pc # "idle" /\ (Onward \/ GoTo("status"))
        /\ UNCHANGED <<kab, fresh, secretVars, bindVars, stackVars, worldVars, edits>>
        /\ UNCHANGED faults \/ Fault
        /\ objs' \subseteq objs
    BY <1>2, Zenon DEF AwaitAdmissionControllerWebhook, CleanupCollectionController, At
  <2>2. Works("await webhook") \/ Skips("status")
    BY <1>0, <2>1, Zenon DEF Works, Skips
  <2> QED
    BY <2>2, ComponentSteps, WorksTypes, SkipsTypes, Zenon
<1>3. CASE ReconcileStackController
  <2>1. {"stack controller"} \in SUBSET Objects /\ {"stack binding"} \in SUBSET Objects
    BY NamedObjects, Zenon
  <2> QED
    BY <1>3, <2>1, ComponentSteps, DeployTypes, Zenon DEF ReconcileStackController
<1>4. CASE DeployLandingPage
  <2>1. {"landing", "landing roles"} \in SUBSET Objects /\ {"landing deployment"} \in SUBSET Objects
    BY NamedObjects, Zenon
  <2>2. ASSUME NEW l \in Links, Deploy(l, TRUE, {l}) PROVE TypeInv'
    <3>1. l \in FollowedSteps /\ {l} \in SUBSET Objects /\ l # "events"
      BY ComponentSteps, NamedObjects, Zenon
    <3> QED
      BY <2>2, <3>1, DeployTypes, Zenon
  <2>3. CASE CleanupLandingPage
    <3>1. /\ loc.pc # "idle" /\ GoTo("cli secret")
          /\ UNCHANGED <<kab, fresh, secretVars, bindVars, stackVars, worldVars, edits>>
          /\ UNCHANGED faults \/ Fault
          /\ objs' \subseteq objs
      BY <2>3, Zenon DEF CleanupLandingPage, At
    <3>2. Skips("cli secret")
      BY <1>0, <3>1, Zenon DEF Skips
    <3> QED
      BY <3>2, SkipsTypes, Zenon
  <2> QED
    BY <1>4, <2>1, <2>2, <2>3, ComponentSteps, DeployTypes, LacksTypes, Zenon
       DEF DeployLandingPage, CustomizeWebConsole
<1> QED
  BY <1>1, <1>2, <1>3, <1>4

\* The CLI and CodeReady Workspaces.
LEMMA SecondComponentsTypes ==
    ASSUME TypeInv, SecretsInv', ReconcileKabaneroCli \/ ReconcileCRW
    PROVE  TypeInv'
<1>0. objs \subseteq Objects
  BY DEF TypeInv, Types
<1>1. CASE ReconcileKabaneroCli
  <2>1. CASE CreateEncryptionKeySecret
    <3>1. "cli" \in Secrets /\ "cli" # "events"
      BY DEF Secrets
    <3> QED
      BY <2>1, <3>1, ComponentSteps, GenerateTypes, Zenon DEF CreateEncryptionKeySecret
  <2>2. CASE ~CreateEncryptionKeySecret
    <3>1. /\ loc.pc = "cli" /\ Onward
          /\ UNCHANGED <<kab, fresh, secretVars, bindVars, stackVars, worldVars, edits, faults>>
          /\ objs' \subseteq objs \cup {"cli", "cli roles"}
      BY <1>1, <2>2, Zenon DEF ReconcileKabaneroCli, DestroyRoleBindingConfigMap, At
    <3>2. Works("cli")
      BY <1>0, <3>1, NamedObjects, Zenon DEF Works
    <3> QED
      BY <3>2, ComponentSteps, WorksTypes, Zenon
  <2> QED
    BY <2>1, <2>2
<1>2. CASE ReconcileCRW
  <2>1. CASE DeployCRWInstance \/ CleanupCRW
    <3>1. /\ loc.pc = "crw" /\ Onward
          /\ UNCHANGED <<kab, fresh, secretVars, bindVars, stackVars, worldVars, edits>>
          /\ UNCHANGED faults \/ Fault
          /\ objs' \subseteq objs \cup {"che"}
      BY <2>1, Zenon DEF DeployCRWInstance, ValidateCRWInstance, CleanupCRW, At
    <3>2. Works("crw")
      BY <1>0, <3>1, NamedObjects, Zenon DEF Works
    <3> QED
      BY <3>2, ComponentSteps, WorksTypes, Zenon
  <2>2. CASE DeleteCRWInstance
    <3>1. /\ loc.pc = "crw"
          /\ UNCHANGED <<kab, loc, fresh, secretVars, bindVars, stackVars, worldVars, edits, faults>>
          /\ objs' \subseteq objs \cup {"leaving che"}
      BY <2>2, Zenon DEF DeleteCRWInstance, At
    <3>2. objs' \subseteq Objects
      BY <1>0, <3>1, NamedObjects, Zenon
    <3>3. loc.pc # "idle" /\ loc.pc # "events secret" /\ loc' = loc /\ fresh' = fresh
      BY <3>1, Zenon
    <3>4. Moves
      BY <3>3, Zenon DEF TypeInv, Types, Moves
    <3> QED
      BY <3>1, <3>2, <3>4, ObjectsTypes, Zenon
  <2>3. {"codewind roles"} \in SUBSET Objects
    BY NamedObjects, Zenon
  <2> QED
    BY <1>2, <2>1, <2>2, <2>3, ComponentSteps, DeployTypes, LacksTypes, Zenon DEF ReconcileCRW
<1> QED
  BY <1>1, <1>2

\* The namespaces that get bindings are there.
LEMMA TargetsTypes ==
    ASSUME TypeInv, SecretsInv', ReconcileTargetNamespaces
    PROVE  TypeInv'
<1>1. /\ loc.pc # "idle"
      /\ UNCHANGED <<kab, fresh, objs, secretVars, stackVars, worldVars, edits>>
  BY DEF ReconcileTargetNamespaces, At
<1> DEFINE wanted == TargetNamespaces(loc.spec.targets)
           had == TargetNamespaces(loc.recorded)
<1>2. PICK missed \in SUBSET (wanted \cap exists) :
        LET found == Found(wanted, missed)
            old == had \ found
            new == found \ had
        IN  \E left \in SUBSET old, lost \in SUBSET new :
              /\ IF missed \cup left \cup lost = {} THEN UNCHANGED faults ELSE Fault
              /\ bound' = (bound \ (old \ left)) \cup (new \ lost)
              /\ forgotten' = (forgotten \ old) \cup left
              /\ supposed' = (supposed \ new) \cup lost
              /\ loc' = [loc EXCEPT !.recorded = Recorded(found),
                                    !.pc = IF found = wanted THEN "devfile registry" ELSE "status"]
  BY Zenon DEF ReconcileTargetNamespaces
<1> DEFINE found == Found(wanted, missed)
           old == had \ found
           new == found \ had
<1>3. PICK left \in SUBSET old, lost \in SUBSET new :
        /\ IF missed \cup left \cup lost = {} THEN UNCHANGED faults ELSE Fault
        /\ bound' = (bound \ (old \ left)) \cup (new \ lost)
        /\ forgotten' = (forgotten \ old) \cup left
        /\ supposed' = (supposed \ new) \cup lost
        /\ loc' = [loc EXCEPT !.recorded = Recorded(found),
                              !.pc = IF found = wanted THEN "devfile registry" ELSE "status"]
  BY <1>2
<1>4. loc.recorded \subseteq Namespaces /\ loc.spec.targets \subseteq Namespaces /\ Own \in Namespaces
  BY Fields, InstallsAssumption DEF TypeInv, Types
<1>5. had \subseteq Namespaces /\ found \subseteq exists /\ Recorded(found) \subseteq Namespaces
  BY <1>4 DEF TargetNamespaces, Found, Recorded
<1>6. /\ "devfile registry" \in StepNames /\ "status" \in StepNames
      /\ "devfile registry" # "events secret" /\ "status" # "events secret"
  BY NamedSteps, Zenon
<1> HIDE DEF had, found, wanted
<1>7. OthersTyped'
  <2>1. bound' \subseteq exists /\ exists \subseteq Namespaces /\ UNCHANGED exists
    BY <1>1, <1>3, <1>5 DEF TypeInv, Types, worldVars
  <2>2. forgotten' \subseteq Namespaces /\ supposed' \subseteq Namespaces
    BY <1>3, <1>5, <2>1 DEF TypeInv, Types
  <2> QED
    BY <1>1, <2>1, <2>2 DEF OthersTyped, TypeInv, Types, stackVars
<1>8. Moves
  <2>1. PICK r \in SUBSET Namespaces, pc \in {"devfile registry", "status"} :
          loc' = [loc EXCEPT !.recorded = r, !.pc = pc]
    BY <1>3, <1>5, Zenon
  <2>2. loc' \in Local /\ loc'.pc = pc /\ loc'.spec = loc.spec
    BY <1>6, <2>1 DEF TypeInv, Types, Local
  <2> QED
    BY <1>1, <1>6, <2>2 DEF TypeInv, Types, Moves
<1>9. UNCHANGED faults \/ Fault
  BY <1>3, Zenon
<1> QED
  BY <1>1, <1>7, <1>8, <1>9, ElsewhereTypes

\* The events and single sign-on.
LEMMA ThirdComponentsTypes ==
    ASSUME TypeInv, SecretsInv', ReconcileEvents \/ ReconcileSso
    PROVE  TypeInv'
<1>0. objs \subseteq Objects
  BY DEF TypeInv, Types
<1>1. CASE ReconcileEvents
  <2>1. CASE CreateDefaultEventsSecret
    <3>1. "events" \in Secrets /\ (loc.pc = "events secret" => loc.spec.events)
      BY Zenon DEF Secrets, TypeInv, EventsInv, EventsAsked
    <3>2. loc.pc = "events secret"
      BY <2>1, Zenon DEF CreateDefaultEventsSecret, GenerateSecret, At
    <3> QED
      BY <2>1, <3>1, <3>2, ComponentSteps, GenerateTypes, Zenon DEF CreateDefaultEventsSecret
  <2>2. {"events"} \in SUBSET Objects
    BY NamedObjects, Zenon
  <2> QED
    BY <1>1, <2>1, <2>2, ComponentSteps, DeployTypes, CleanupEventsTypes, Zenon DEF ReconcileEvents
<1>2. CASE ReconcileSso
  <2>1. CASE CreateDbSecret
    <3>1. "sso" \in Secrets /\ "sso" # "events"
      BY DEF Secrets
    <3> QED
      BY <2>1, <3>1, ComponentSteps, GenerateTypes, Zenon DEF CreateDbSecret
  <2>2. CASE DisableSso
    <3>1. /\ loc.pc = "sso" /\ Onward
          /\ UNCHANGED <<kab, fresh, secretVars, bindVars, stackVars, worldVars, edits>>
          /\ UNCHANGED faults \/ Fault
          /\ objs' \subseteq objs
      BY <2>2, Zenon DEF DisableSso, At
    <3>2. Works("sso")
      BY <1>0, <3>1, Zenon DEF Works
    <3> QED
      BY <3>2, ComponentSteps, WorksTypes, Zenon
  <2>3. {"sso"} \in SUBSET Objects
    BY NamedObjects, Zenon
  <2> QED
    BY <1>2, <2>1, <2>2, <2>3, ComponentSteps, DeployTypes, LacksTypes, Zenon DEF ReconcileSso
<1> QED
  BY <1>1, <1>2

\* The devfile registry and the Stacks.
LEMMA LastComponentsTypes ==
    ASSUME TypeInv, SecretsInv', ReconcileDevfileRegistry \/ ReconcileFeaturedStacks
    PROVE  TypeInv'
<1>1. CASE ReconcileDevfileRegistry
  <2>1. {"devfile registry"} \in SUBSET Objects
    BY NamedObjects, Zenon
  <2> QED
    BY <1>1, <2>1, ComponentSteps, DeployTypes, RemoveTypes, Zenon DEF ReconcileDevfileRegistry
<1>2. CASE ReconcileFeaturedStacks
  <2>1. /\ loc.pc = "featured stacks" /\ Onward
        /\ UNCHANGED <<kab, fresh, objs, secretVars, bindVars, shown, overlooked, worldVars, edits, faults>>
    BY <1>2, Zenon DEF ReconcileFeaturedStacks, At
  <2>2. loc.pc \in FollowedSteps /\ loc.pc # "events"
    BY <2>1, ComponentSteps, Zenon
  <2>3. stacks' \in {"none", "some", "leaving"}
    <3>1. stacks' = "some" \/ stacks' = stacks
      BY <1>2, Zenon DEF ReconcileFeaturedStacks
    <3> QED
      BY <3>1 DEF TypeInv, Types
  <2>4. Moves
    BY <2>1, <2>2, OnwardMoves DEF TypeInv
  <2>5. OthersTyped'
    BY <2>1, <2>3 DEF OthersTyped, TypeInv, Types, bindVars, worldVars
  <2> QED
    BY <2>1, <2>4, <2>5, ElsewhereTypes
<1> QED
  BY <1>1, <1>2

\* The clean-up.
LEMMA CleanupTypes ==
    ASSUME TypeInv, SecretsInv', Cleanup
    PROVE  TypeInv'
<1>0. objs \subseteq Objects
  BY DEF TypeInv, Types
<1>1. CASE RemoveWebConsoleCustomization
  <2>1. /\ loc.pc = "remove links" /\ Onward
        /\ UNCHANGED <<kab, fresh, secretVars, bindVars, stackVars, worldVars, edits>>
        /\ UNCHANGED faults \/ Fault
        /\ objs' \subseteq objs
    BY <1>1, Zenon DEF RemoveWebConsoleCustomization, At
  <2>2. Works("remove links")
    BY <1>0, <2>1, Zenon DEF Works
  <2> QED
    BY <2>2, CleanupStepNames, WorksTypes, Zenon
<1>2. CASE CleanupAdmissionControllerWebhook
  BY <1>2, CleanupStepNames, RemoveTypes, Zenon DEF CleanupAdmissionControllerWebhook
<1>3. CASE CleanupStacks
  <2>1. /\ loc.pc = "remove stacks" /\ (GiveUp \/ (Onward /\ UNCHANGED fresh))
        /\ UNCHANGED <<kab, objs, secretVars, bindVars, shown, worldVars, edits, faults>>
        /\ stacks' = "leaving" \/ stacks' = stacks
        /\ overlooked' = (overlooked \/ (~shown /\ stacks # "none"))
    BY <1>3, Zenon DEF CleanupStacks, At
  <2>2. loc.pc \in FollowedSteps /\ loc.pc # "events" /\ loc.pc # "idle"
    BY <2>1, CleanupStepNames, Zenon
  <2>3. Moves
    BY <2>1, <2>2, OnwardMoves, GiveUpMoves, Zenon DEF TypeInv
  <2>4. OthersTyped'
    BY <2>1 DEF OthersTyped, TypeInv, Types, bindVars, worldVars
  <2> QED
    BY <2>1, <2>3, <2>4, ElsewhereTypes
<1>4. CASE \/ DeleteCRWOperatorResources \/ CleanupDevfileRegistry
           \/ Remove("remove binding", TRUE, {"stack binding"})
  BY <1>4, CleanupStepNames, RemoveTypes, Zenon DEF DeleteCRWOperatorResources, CleanupDevfileRegistry
<1>5. CASE CleanupTargetNamespaces
  <2>1. /\ loc.pc = "remove targets" /\ Onward
        /\ UNCHANGED <<kab, fresh, objs, secretVars, supposed, stackVars, worldVars, edits>>
    BY <1>5, Zenon DEF CleanupTargetNamespaces, At
  <2> DEFINE had == TargetNamespaces(loc.recorded)
  <2>2. PICK left \in SUBSET had :
           /\ IF left = {} THEN UNCHANGED faults ELSE Fault
           /\ bound' = bound \ (had \ left)
           /\ forgotten' = (forgotten \ had) \cup left
    BY <1>5, Zenon DEF CleanupTargetNamespaces
  <2>3. loc.pc \in FollowedSteps /\ loc.pc # "events"
    BY <2>1, CleanupStepNames, Zenon
  <2>4. Moves
    BY <2>1, <2>3, OnwardMoves, Zenon DEF TypeInv
  <2>5. had \subseteq Namespaces
    BY Fields, InstallsAssumption DEF TargetNamespaces, TypeInv, Types
  <2> HIDE DEF had
  <2>6. OthersTyped'
    BY <2>1, <2>2, <2>5 DEF OthersTyped, TypeInv, Types, stackVars, worldVars
  <2>7. UNCHANGED faults \/ Fault
    BY <2>2, Zenon
  <2> QED
    BY <2>1, <2>4, <2>6, <2>7, ElsewhereTypes
<1> QED
  BY <1>1, <1>2, <1>3, <1>4, <1>5, BeginsTypes, EndsTypes, Zenon DEF Cleanup, CleanupStackController

\* Calls fail and the operator restarts.
LEMMA FaultsTypes ==
    ASSUME TypeInv, SecretsInv', CallFails \/ Restart
    PROVE  TypeInv'
<1>1. CASE CallFails
  <2>1. /\ loc.pc # "idle" /\ Fault /\ GiveUp
        /\ LoseStatus \/ UNCHANGED <<forgotten, supposed>>
        /\ UNCHANGED <<kab, objs, secretVars, bound, stackVars, worldVars, edits>>
    BY <1>1, Zenon DEF CallFails
  <2>2. Moves
    BY <2>1, GiveUpMoves DEF TypeInv
  <2>3. OthersTyped'
    BY <2>1, LoseStatusTypes DEF OthersTyped, TypeInv, Types, stackVars, worldVars
  <2> QED
    BY <2>1, <2>2, <2>3, ElsewhereTypes
<1>2. CASE Restart
  <2>1. /\ Fault /\ LoseStatus
        /\ UNCHANGED <<kab, objs, kept, generated, bound, stacks, overlooked, worldVars, edits>>
        /\ seen' = kept /\ shown' = (stacks # "none")
        /\ loc' \in Local /\ loc'.pc = "idle" /\ fresh' = FALSE
    BY <1>2, IdleType DEF Restart, EndReconcile
  <2>2. faults' \in Nat /\ changes + faults' <= MaxMishaps
    BY <2>1, InstallsAssumption DEF Fault, MayHappen, TypeInv, Types
  <2>3. Types'
    BY <2>1, <2>2, LoseStatusTypes DEF TypeInv, Types, worldVars
  <2>4. EventsInv'
    BY <2>1 DEF TypeInv, EventsInv, EventsAsked
  <2> QED
    BY <2>3, <2>4 DEF TypeInv
<1> QED
  BY <1>1, <1>2

\* With another edit the secret of the events may be made once more.
LEMMA EditKabaneroTypes ==
    ASSUME TypeInv, SecretsInv', EditKabanero
    PROVE  TypeInv'
<1>1. /\ edits < MaxEdits /\ edits' = edits + 1 /\ fresh' = FALSE
      /\ UNCHANGED <<loc, objs, secretVars, bindVars, stackVars, worldVars, faults>>
  BY DEF EditKabanero
<1>2. kab' \in Resource
  BY DEF EditKabanero, TypeInv, Types, Resource
<1>3. edits' \in 0..MaxEdits /\ edits \in Nat
  BY <1>1, InstallsAssumption DEF TypeInv, Types
<1>4. Types'
  BY <1>1, <1>2, <1>3 DEF TypeInv, Types, secretVars, bindVars, stackVars, worldVars
<1>5. generated["events"] \in Nat
  BY DEF TypeInv, SecretsInv, Secrets
<1>6. generated["events"] <= edits' /\ generated["events"] <= edits' + 1
  BY <1>1, <1>3, <1>5 DEF TypeInv, EventsInv
<1>7. EventsInv'
  BY <1>1, <1>6 DEF TypeInv, EventsInv, EventsAsked, secretVars
<1> QED
  BY <1>4, <1>7 DEF TypeInv

\* The others leave the Kabanero and the reconcile alone.
LEMMA EnvironmentTypes ==
    ASSUME TypeInv, SecretsInv', Environment
    PROVE  TypeInv'
<1>1. CASE EditChe
  <2>1. objs' \subseteq Objects
    <3>1. objs \subseteq Objects /\ objs' \subseteq objs \cup {"edited che"}
      BY <1>1, Zenon DEF EditChe, TypeInv, Types
    <3> QED
      BY <3>1, NamedObjects, Zenon
  <2>2. edits' \in 0..MaxEdits /\ edits \in Nat /\ edits' = edits + 1
    <3>1. edits < MaxEdits /\ edits' = edits + 1
      BY <1>1, Zenon DEF EditChe
    <3> QED
      BY <3>1, InstallsAssumption DEF TypeInv, Types
  <2>3. UNCHANGED <<kab, loc, fresh, secretVars, bindVars, stackVars, worldVars, faults>>
    BY <1>1 DEF EditChe
  <2>4. Types'
    BY <2>1, <2>2, <2>3 DEF TypeInv, Types, secretVars, bindVars, stackVars, worldVars
  <2>5. generated["events"] \in Nat
    BY DEF TypeInv, SecretsInv, Secrets
  <2>6. EventsInv'
    <3>1. EventsAsked'
      BY <2>3 DEF TypeInv, EventsInv, EventsAsked
    <3> QED
      BY <2>2, <2>3, <2>5, <3>1 DEF TypeInv, EventsInv, secretVars
  <2> QED
    BY <2>4, <2>6 DEF TypeInv
<1>2. CASE \/ ChangeWorld \/ DeliverSecrets \/ DeliverStacks \/ FinishStacks
           \/ \E n \in Namespaces : DeleteNamespace(n) \/ CreateNamespace(n)
  <2>1. UNCHANGED <<kab, loc, fresh, objs, kept, generated, edits, faults>>
    BY <1>2 DEF ChangeWorld, DeliverSecrets, DeliverStacks, FinishStacks, DeleteNamespace,
                CreateNamespace, secretVars, worldVars
  <2>2. /\ seen' \subseteq Secrets /\ world' \subseteq Parts
        /\ bound' \subseteq exists' /\ exists' \subseteq Namespaces
    BY <1>2 DEF ChangeWorld, DeliverSecrets, DeliverStacks, FinishStacks, DeleteNamespace,
                CreateNamespace, secretVars, bindVars, worldVars, TypeInv, Types
  <2>3. /\ stacks' \in {"none", "some", "leaving"} /\ shown' \in BOOLEAN /\ overlooked' \in BOOLEAN
        /\ forgotten' \subseteq Namespaces /\ supposed' \subseteq Namespaces
    BY <1>2 DEF ChangeWorld, DeliverSecrets, DeliverStacks, FinishStacks, DeleteNamespace,
                CreateNamespace, bindVars, stackVars, TypeInv, Types
  <2>4. changes' \in Nat /\ changes' + faults <= MaxMishaps
    <3>1. changes' = changes \/ (MayHappen /\ changes' = changes + 1)
      BY <1>2 DEF ChangeWorld, DeliverSecrets, DeliverStacks, FinishStacks, DeleteNamespace,
                  CreateNamespace, worldVars
    <3> QED
      BY <3>1, InstallsAssumption DEF MayHappen, TypeInv, Types
  <2>5. Types'
    BY <2>1, <2>2, <2>3, <2>4 DEF TypeInv, Types
  <2>6. EventsInv'
    BY <2>1 DEF TypeInv, EventsInv, EventsAsked
  <2> QED
    BY <2>5, <2>6 DEF TypeInv
<1>3. CASE CheGone
  <2>1. /\ UNCHANGED <<kab, loc, fresh, secretVars, bindVars, stackVars, worldVars, edits, faults>>
        /\ objs' \subseteq objs
    BY <1>3, Zenon DEF CheGone
  <2>2. Types'
    BY <2>1 DEF TypeInv, Types, secretVars, bindVars, stackVars, worldVars
  <2>3. EventsInv'
    BY <2>1 DEF TypeInv, EventsInv, EventsAsked, secretVars
  <2> QED
    BY <2>2, <2>3 DEF TypeInv
<1>4. CASE CollectGarbage
  <2>1. /\ UNCHANGED <<kab, loc, fresh, seen, generated, forgotten, supposed, shown, overlooked,
                        worldVars, edits, faults>>
        /\ kab.phase = "gone" /\ objs' \subseteq objs /\ kept' = {} /\ bound' \subseteq bound
        /\ stacks' = "leaving" \/ stacks' = stacks
    BY <1>4, Zenon DEF CollectGarbage
  <2>2. loc.pc = "idle"
    BY <2>1 DEF TypeInv, SecretsInv
  <2>3. Types'
    BY <2>1 DEF TypeInv, Types, worldVars
  <2>4. EventsInv'
    BY <2>1, <2>2 DEF TypeInv, EventsInv, EventsAsked
  <2> QED
    BY <2>3, <2>4 DEF TypeInv
<1> QED
  BY <1>1, <1>2, <1>3, <1>4, EditKabaneroTypes DEF Environment

\* Every step does.
LEMMA NextTypes == TypeInv /\ [Next]_vars => TypeInv'
<1> SUFFICES ASSUME TypeInv, [Next]_vars PROVE TypeInv'
  OBVIOUS
<1>1. SecretsInv'
  BY NextSecrets DEF TypeInv
<1>2. CASE Install
  BY <1>1, <1>2, BeginsTypes, FirstComponentsTypes, SecondComponentsTypes, ThirdComponentsTypes,
     TargetsTypes, LastComponentsTypes, EndsTypes DEF Install
<1>3. CASE UNCHANGED vars
  <2>1. Types'
    BY <1>3 DEF vars, TypeInv, Types
  <2>2. EventsInv'
    BY <1>3 DEF vars, TypeInv, EventsInv, EventsAsked
  <2> QED
    BY <1>1, <2>1, <2>2 DEF TypeInv
<1> QED
  BY <1>1, <1>2, <1>3, CleanupTypes, FaultsTypes, EnvironmentTypes DEF Next

\* The types of what is installed hold for any namespaces, specs, edits and
\* mishaps.  They include that bindings are only in namespaces that exist, and how
\* often a secret may be made: that of the events once more than there are edits.
THEOREM TypeCorrect == Spec => []TypeOK
<1>1. TypeInv => TypeOK
  <2> SUFFICES ASSUME TypeInv PROVE TypeOK
    OBVIOUS
  <2>1. ASSUME NEW s \in Secrets PROVE generated[s] \in 0..(MaxEdits + 1)
    <3>1. generated[s] \in Nat /\ edits \in 0..MaxEdits /\ MaxEdits \in Nat
      BY InstallsAssumption DEF TypeInv, SecretsInv, Types
    <3>2. CASE s = "events"
      BY <3>1, <3>2 DEF TypeInv, EventsInv
    <3>3. CASE s \in Sealing
      <4>1. generated[s] = 0 \/ generated[s] = 1
        BY <3>3 DEF TypeInv, SecretsInv
      <4> QED
        BY <3>1, <4>1
    <3> QED
      BY <3>2, <3>3 DEF Secrets, Sealing
  <2>2. generated \in [Secrets -> 0..(MaxEdits + 1)]
    BY <2>1 DEF TypeInv, SecretsInv
  <2> QED
    BY <2>2, Zenon DEF TypeInv, Types, TypeOK, Objects
<1> QED
  BY <1>1, InitTypes, NextTypes, PTL DEF Spec
=============================================================================
