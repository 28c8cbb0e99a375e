----------------------------- MODULE ComponentStatus -----------------------------
(****************************************************************************)
(* How the Kabanero operator finds out whether a Kabanero is ready.  After  *)
(* the components have been installed, or have failed to be, processStatus  *)
(* asks one readiness function after the other; each makes its reads in its *)
(* own order and ends with the first one that is not as it should be.  What *)
(* they read changes meanwhile, and so may the Kabanero: then the status    *)
(* that was found out is lost.  Only a Kabanero that is not ready, or that  *)
(* has changed, is looked at again.                                         *)
(*                                                                          *)
(* The delays, failing writes of the status and the deletion are the        *)
(* subject of KabaneroReconcile, what is installed that of                  *)
(* ComponentInstalls.                                                       *)
(****************************************************************************)
EXTENDS Integers, Sequences, FiniteSets

CONSTANTS
    FirstAmiss,      \* what may be amiss at the start
    FirstDisabled,   \* the components that may be switched off at the start
    MaxMishaps       \* edits, changes of the cluster and restarts, together

-----------------------------------------------------------------------------
(* What the readiness functions read, in their order *)

\* GetInstalledCSVName, GetCSVSpecVersion; getDeploymentStatus
InstalledCSV(subscription, csv) == <<subscription, csv>>
DeploymentStatus(deployment, available) == <<deployment, available>>

StackController == <<"controller version", "controller deployment", "controller available">>

Appsody == InstalledCSV("appsody subscription", "appsody csv")
             \o <<"appsody deployment", "appsody conditions", "appsody condition", "appsody available">>

Tekton == <<"tekton config", "tekton conditions", "tekton installed">>

KnativeServing == <<"knative serving", "knative ready">>

Serverless == InstalledCSV("serverless subscription", "serverless csv") \o KnativeServing

CliRoute == <<"cli route", "cli route admitted">>

LandingPage == <<"landing client", "landing version", "landing pods", "landing pods ready">>

KappnavRoutes == <<"kappnav ui route", "ui route admitted", "kappnav api route", "api route admitted">>

Kappnav == <<"kappnav", "kappnav pods", "kappnav pod ready">> \o KappnavRoutes

CRW == InstalledCSV("crw subscription", "crw csv") \o <<"che", "che status", "crw version", "che available">>

Events == <<"events version">> \o DeploymentStatus("events deployment", "events available")

Webhook == DeploymentStatus("webhook deployment", "webhook available")
             \o <<"mutating webhook", "validating webhook">>

AdminSecret == <<"admin secret", "admin secret keys">>

Sso == AdminSecret \o <<"postgres scheduled", "postgres available", "sso available">>

\* In the order of processStatus.  The last two only look at what was said in
\* the status when the pipelines and the bindings were made.
Order == <<"stack controller", "appsody", "tekton", "serverless", "cli", "landing", "kappnav",
           "crw", "events", "webhook", "sso", "gitops", "targets">>

Reads == <<StackController, Appsody, Tekton, Serverless, CliRoute, LandingPage, Kappnav,
           CRW, Events, Webhook, Sso, <<"gitops">>, <<"targets">>>>

Components == {Order[i] : i \in DOMAIN Order}
ReadsOf(c) == Reads[CHOOSE i \in DOMAIN Order : Order[i] = c]

Reported == {"gitops", "targets"}

\* What the components are installed with.
Parts == UNION {{r[i] : i \in DOMAIN r} : r \in {ReadsOf(c) : c \in Components}} \cup {"installs"}

\* Where they read a version that the spec asks for, which the installation needs too.
Versions == {"controller version", "landing version", "crw version", "events version"}

\* Components that a spec may switch off, and one that nobody has to install.
Switched == {"landing", "crw", "events", "sso"}
Optional == Switched \cup {"kappnav"}

\* (A variant with a fault: the status of serverless is not reset either.)
KeepsMore == {"appsody conditions", "appsody condition", "events version", "serverless subscription"}

\* With these amiss the status goes on to say what it has said: Appsody's conditions,
\* or the one that says "Available", and the version of the events.
Keeps == {"appsody conditions", "appsody condition", "events version"}

\* An index out of range.
Panics == {"tekton conditions"}

\* (A variant with a fault: what is not there is taken for not configured.)
AbsentIfFirst == {ReadsOf(c)[1] : c \in Components}

\* What is amiss here means that the component is not there at all.
Absent == {"kappnav"}

ASSUME StatusAssumption ==
    /\ FirstAmiss \subseteq SUBSET Parts
    /\ FirstDisabled \subseteq SUBSET Switched
    /\ MaxMishaps \in Nat

VARIABLES
    kab,      \* the Kabanero, as the API server stores it
    loc,      \* the local state of the reconcile
    fresh,    \* its copy of the Kabanero is the latest version
    queued,   \* the Kabanero is in the workqueue
    amiss,    \* the parts that are not as they should be
    mishaps

vars == <<kab, loc, fresh, queued, amiss, mishaps>>

\* A component that is "off" has no status, or one that says so.
Status == [Components -> {"", "True", "False", "off"}]

Resource == [disabled : SUBSET Switched, status : Status, ready : {"", "True", "False"}]

Local == [pc : {"idle", "install", "read", "write"},
          at : DOMAIN Order, read : 1..7,      \* the function, and its next read
          disabled : SUBSET Switched, status : Status,
          ready : BOOLEAN,                     \* all functions have said so
          failed : BOOLEAN]                    \* something could not be installed

NoStatus == [c \in Components |-> ""]

IdleState == [pc |-> "idle", at |-> 1, read |-> 1, disabled |-> {}, status |-> NoStatus,
              ready |-> TRUE, failed |-> FALSE]

Init ==
    /\ kab \in [disabled : FirstDisabled, status : {NoStatus}, ready : {""}]
    /\ loc = IdleState /\ fresh = FALSE /\ queued = TRUE
    /\ amiss \in FirstAmiss
    /\ mishaps = 0

-----------------------------------------------------------------------------
(* Reconcile, as far as the status is concerned *)

Begin ==
    /\ loc.pc = "idle" /\ queued
    /\ loc' = [IdleState EXCEPT !.pc = "install", !.disabled = kab.disabled, !.status = kab.status]
    /\ fresh' = TRUE /\ queued' = FALSE
    /\ UNCHANGED <<kab, amiss, mishaps>>

\* Nothing is installed before the webhook is ready, and the first error ends it.
\* The pipelines, and then the target namespaces, report on the way.
Reconcile ==
    /\ loc.pc = "install"
    /\ LET waits == amiss \cap {Webhook[i] : i \in DOMAIN Webhook} # {}
           fails == waits \/ amiss \cap (Reported \cup Versions \cup {"installs"}) # {}
       IN  \E reached \in (IF waits THEN {{}} ELSE IF fails THEN {{}, {"gitops"}, Reported} ELSE {Reported}) :
             loc' = [loc EXCEPT !.pc = "read", !.failed = fails,
                                !.status = [c \in Components |->
                                   IF c \notin reached THEN @[c]
                                   ELSE IF c \in amiss THEN "False" ELSE "True"]]
    /\ UNCHANGED <<kab, fresh, queued, amiss, mishaps>>

This == Order[loc.at]
Next1 == ReadsOf(This)[loc.read]
IsLast == loc.read = Len(ReadsOf(This))

\* (A variant with a fault: what was only reported is forgotten.)
AndAlsoRead(all, c, ready) == all /\ (ready \/ c \in Reported)

\* isKabaneroReady
AndAlso(all, c, ready) == all /\ ready

\* The function ends with its result, and the status it has set.
Verdict(ready, said) ==
    /\ loc' = [loc EXCEPT !.status[This] = said,
                          !.ready = AndAlso(@, This, ready),
                          !.at = IF @ = Len(Order) THEN @ ELSE @ + 1,
                          !.read = 1,
                          !.pc = IF loc.at = Len(Order) THEN "write" ELSE "read"]
    /\ UNCHANGED <<kab, fresh, queued, amiss, mishaps>>

Reading == loc.pc = "read" /\ This \notin Reported

\* The switch is looked at first, but the events' version comes before it.
OffHere == This \in loc.disabled /\ loc.read = (IF This = "events" THEN 2 ELSE 1)

SwitchedOff == Reading /\ OffHere /\ Verdict(TRUE, "off")

ReadNext ==
    /\ Reading /\ ~OffHere
    /\ Next1 \notin amiss /\ ~IsLast
    /\ loc' = [loc EXCEPT !.read = @ + 1]
    /\ UNCHANGED <<kab, fresh, queued, amiss, mishaps>>

FoundReady ==
    /\ Reading /\ ~OffHere
    /\ Next1 \notin amiss /\ IsLast
    /\ Verdict(TRUE, "True")

FoundAmiss ==
    /\ Reading /\ ~OffHere
    /\ Next1 \in amiss \ Panics
    /\ Verdict(Next1 \in Absent,
               IF Next1 \in Absent THEN "off"
               ELSE IF Next1 \in Keeps THEN loc.status[This] ELSE "False")

\* getGitopsStatus, getTargetNamespacesStatus
ReportStatus ==
    /\ loc.pc = "read" /\ This \in Reported
    /\ Verdict(loc.status[This] = "True", loc.status[This])

\* Reconcile panics, and the operator starts anew.
Panic ==
    /\ Reading
    /\ Next1 \in amiss \cap Panics
    /\ loc' = IdleState /\ fresh' = FALSE /\ queued' = TRUE
    /\ UNCHANGED <<kab, amiss, mishaps>>

\* (A variant with a fault: what is not ready is not looked at again.)
IsCalledAgainOnErrors == loc.failed

\* Of what may fail to be installed, "installs" stands for the components: their
\* errors end the reconcile and are retried.  (The featured stacks' error is not
\* always; that is KabaneroReconcile's subject.)
IsCalledAgain == loc.failed \/ ~loc.ready

\* A conflict: what was found out is dropped, and what was read anew is stored.
\* Each new version of the Kabanero is an event.
ProcessStatus ==
    /\ loc.pc = "write"
    /\ kab' = IF fresh
              THEN [kab EXCEPT !.status = loc.status, !.ready = IF loc.ready THEN "True" ELSE "False"]
              ELSE kab
    /\ queued' = (queued \/ kab' # kab \/ IsCalledAgain)
    /\ loc' = IdleState /\ fresh' = FALSE
    /\ UNCHANGED <<amiss, mishaps>>

-----------------------------------------------------------------------------
(* Users, the cluster *)

Mishap == mishaps < MaxMishaps /\ mishaps' = mishaps + 1

EditKabanero ==
    /\ Mishap
    /\ \E c \in Switched :
         kab' = [kab EXCEPT !.disabled = IF c \in @ THEN @ \ {c} ELSE @ \cup {c}]
    /\ fresh' = FALSE /\ queued' = TRUE
    /\ UNCHANGED <<loc, amiss>>

\* No watch tells of it.
ChangeWorld ==
    /\ Mishap
    /\ \E p \in Parts : amiss' = IF p \in amiss THEN amiss \ {p} ELSE amiss \cup {p}
    /\ UNCHANGED <<kab, loc, fresh, queued>>

Restart ==
    /\ loc.pc # "idle" /\ Mishap
    /\ loc' = IdleState /\ fresh' = FALSE /\ queued' = TRUE
    /\ UNCHANGED <<kab, amiss>>

-----------------------------------------------------------------------------

Operator ==
    \/ Begin \/ Reconcile
    \/ SwitchedOff \/ ReadNext \/ FoundReady \/ FoundAmiss \/ ReportStatus \/ Panic
    \/ ProcessStatus

Next == Operator \/ EditKabanero \/ ChangeWorld \/ Restart

\* The worker goes on, and takes the Kabanero from the queue.
Spec == Init /\ [][Next]_vars /\ WF_vars(Operator)

-----------------------------------------------------------------------------
(* Properties *)

\* Types, and: only a component that need not be there is ever said to be off.
TypeOK ==
    /\ kab \in Resource /\ loc \in Local
    /\ \A c \in Components \ Optional : "off" \notin {kab.status[c], loc.status[c]}
    /\ fresh \in BOOLEAN /\ queued \in BOOLEAN
    /\ amiss \subseteq Parts
    /\ mishaps \in 0..MaxMishaps

\* A Kabanero is only said to be ready together with each of its components,
\* whatever changed between their reads, and whoever wrote the Kabanero meanwhile.
ReadyMeansAll ==
    kab.ready = "True" => \A c \in Components : kab.status[c] \in {"True", "off"}

\* When nothing is amiss any more, the Kabanero becomes ready and stays so,
\* and the components that are switched off, and no others, are said to be
\* off: no conflict, restart or panic leaves it with an outdated status.
\* (KAppNav is not watched: it may come unnoticed.)
BecomesReady ==
    <>[](amiss = {}) =>
        <>[](/\ kab.ready = "True"
             /\ \A c \in Components \ {"kappnav"} : kab.status[c] = IF c \in kab.disabled THEN "off" ELSE "True")

\* What the status of a component should say.
Truth(c) ==
    IF c \in kab.disabled \/ (c = "kappnav" /\ c \in amiss) THEN "off"
    ELSE IF \E i \in DOMAIN ReadsOf(c) : ReadsOf(c)[i] \in amiss THEN "False" ELSE "True"

\* As long as the Kabanero is not ready, its status comes to tell which
\* components are amiss.  It does not tell of the two whose status may be kept, nor of what is only reported if something cannot be installed,
\* and it tells nothing if Tekton makes the operator panic.
TellsWhatIsAmiss ==
    <>[](kab.ready = "True" \/ amiss \cap Panics # {}
            \/ \A c \in Components \ (Reported \cup {"appsody", "events"}) : kab.status[c] = Truth(c))
=============================================================================
