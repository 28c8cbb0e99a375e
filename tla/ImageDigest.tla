------------------------------- MODULE ImageDigest -------------------------------
(****************************************************************************)
(* The activation digests of a Stack: when a version becomes active, the    *)
(* stack controller asks the registry for the digest of each of its images, *)
(* tagged with the version, and keeps it in the status for as long as the   *)
(* version stays active.  Images are pushed, registries and secrets come    *)
(* and go, and users edit the Stack meanwhile.                              *)
(****************************************************************************)
EXTENDS Integers, FiniteSets

CONSTANTS
    Versions,
    Images,
    Hosts,
    RegistryOf,   \* the registry of an image
    Public,       \* the registries that need no credentials
    Secrets,      \* what secrets there may be
    MaxEdits,     \* how often users edit the Stack
    MaxPushes,    \* how often an image is pushed
    MaxChanges    \* how often image streams, registries and secrets change

\* A secret is annotated with the host it is for, under a key kabanero.io/docker-n,
\* or under another key (n = 0).  What is in it: a password, a docker
\* configuration with or without an entry for the registry, or one that cannot
\* be read.
Secret == [host : Hosts, key : Nat,
           kind : {"basic", "docker config", "no entry", "unreadable"}, good : BOOLEAN]

ASSUME DigestAssumption ==
    /\ RegistryOf \in [Images -> Hosts]
    /\ Public \subseteq Hosts /\ Secrets \subseteq Secret
    /\ MaxEdits \in Nat /\ MaxPushes \in Nat /\ MaxChanges \in Nat

VARIABLES
    cr,        \* the Stack, as the API server stores it
    cache,     \* the same in the informer cache
    synced,    \* the cached version is the latest
    news,      \* the latest version is of a newer generation: its spec was edited
    queue,     \* the Stack is in the workqueue
    timer,     \* a requeue in 60 seconds is pending
    loc,       \* the local state of a reconcile
    fresh,     \* the copy that is worked on is the latest version
    pushed,    \* how often each tagged image was pushed
    streams,   \* the images of which the cluster has an image stream with the tag
    up,        \* the registries that can be reached
    secrets,
    edits, changes

vars == <<cr, cache, synced, news, queue, timer, loc, fresh, pushed, streams, up, secrets,
          edits, changes>>
worldVars == <<pushed, streams, up, secrets, changes>>

Tagged == Versions \X Images

\* A digest tells which image it is of.
Digest == [of : Tagged, push : 0..MaxPushes]
NoDigest == [of |-> <<>>, push |-> 0]

StackSpec == [Versions -> [state : {"absent", "active", "inactive"}, images : SUBSET Images]]
StackStatus == [state : [Versions -> {"absent", "active", "inactive", "error"}],
                digest : [Tagged -> Digest \cup {NoDigest}]]
Resource == [spec : StackSpec, status : StackStatus]

NewResource ==
    [spec |-> [v \in Versions |-> [state |-> "absent", images |-> {}]],
     status |-> [state |-> [v \in Versions |-> "absent"], digest |-> [t \in Tagged |-> NoDigest]]]

\* The images whose digests a status has to give.
Activated(spec) == {t \in Tagged : spec[t[1]].state = "active" /\ t[2] \in spec[t[1]].images}

Local == [pc : {"idle", "capture"}, read : Resource, new : StackStatus, todo : SUBSET Tagged]

IdleState == [pc |-> "idle", read |-> NewResource, new |-> NewResource.status, todo |-> {}]

Init ==
    /\ cr = NewResource /\ cache = cr
    /\ synced = TRUE /\ news = FALSE /\ queue = FALSE /\ timer = FALSE /\ fresh = FALSE
    /\ loc = IdleState
    /\ pushed = [t \in Tagged |-> 0]
    /\ streams = {} /\ secrets = {} /\ up = Hosts
    /\ edits = 0 /\ changes = 0

-----------------------------------------------------------------------------
(* The registry *)

\* SecretAnnotationFilter: of the secrets for the host the one with the lowest
\* key, or any of them if none has such a key.
Matching(host) == {s \in secrets : s.host = host}

MayBeChosen(s, host) ==
    /\ s \in Matching(host)
    /\ IF s.key = 0 THEN \A o \in Matching(host) : o.key = 0
       ELSE \A o \in Matching(host) : o.key = 0 \/ s.key <= o.key

\* Whether the registry accepts what the secret holds; without an entry the
\* request is anonymous, and a configuration that cannot be read is an error.
Accepts(host, s) ==
    \/ s.kind \in {"basic", "docker config"} /\ s.good
    \/ s.kind = "no entry" /\ host \in Public

\* remote.Image, with the credentials that are found.
RegistryAnswers(host) ==
    /\ host \in up
    /\ IF Matching(host) = {} THEN host \in Public
       ELSE \E s \in Matching(host) : MayBeChosen(s, host) /\ Accepts(host, s)

RegistryRefuses(host) ==
    \/ host \notin up
    \/ Matching(host) = {} /\ host \notin Public
    \/ \E s \in Matching(host) : MayBeChosen(s, host) /\ ~Accepts(host, s)

\* retrieveImageDigest: an image stream of the cluster comes first.
Answers(t) == t \in streams \/ RegistryAnswers(RegistryOf[t[2]])
Refuses(t) == t \notin streams /\ RegistryRefuses(RegistryOf[t[2]])

CurrentDigest(t) == [of |-> t, push |-> pushed[t]]

-----------------------------------------------------------------------------
(* Users, registries, the watch *)

Store(r) ==
    /\ cr' = r
    /\ synced' = (synced /\ r = cr)
    /\ UNCHANGED cache

EditStack ==
    /\ edits < MaxEdits
    /\ \E v \in Versions, state \in {"absent", "active", "inactive"},
          images \in SUBSET Images \ {{}} :
         LET spec == [cr.spec EXCEPT ![v] = [state |-> state, images |->
                                              IF state = "absent" THEN {} ELSE images]]
         IN  spec # cr.spec /\ Store([cr EXCEPT !.spec = spec])
    /\ news' = TRUE /\ fresh' = FALSE
    /\ edits' = edits + 1
    /\ UNCHANGED <<queue, timer, loc, worldVars>>

Push(t) ==
    /\ pushed[t] < MaxPushes
    /\ pushed' = [pushed EXCEPT ![t] = @ + 1]
    /\ UNCHANGED <<cr, cache, synced, news, queue, timer, loc, fresh, streams, up, secrets, edits, changes>>

ChangeWorld ==
    /\ changes < MaxChanges
    /\ \/ \E t \in Tagged : streams' = (streams \cup {t}) \ (streams \cap {t})
            /\ UNCHANGED <<up, secrets>>
       \/ \E h \in Hosts : up' = (up \cup {h}) \ (up \cap {h}) /\ UNCHANGED <<streams, secrets>>
       \/ \E s \in Secrets : secrets' = (secrets \cup {s}) \ (secrets \cap {s})
            /\ UNCHANGED <<streams, up>>
    /\ changes' = changes + 1
    /\ UNCHANGED <<cr, cache, synced, news, queue, timer, loc, fresh, pushed, edits>>

\* Only a new generation of the Stack, that is of its spec, is an event.
DeliverEvent ==
    /\ ~synced
    /\ cache' = cr /\ synced' = TRUE /\ news' = FALSE
    /\ queue' = (queue \/ news)
    /\ UNCHANGED <<cr, timer, loc, fresh, edits, worldVars>>

\* Another event brings the Stack back, such as a change of its pipelines.
Wake ==
    /\ loc.pc = "idle" /\ ~queue
    /\ queue' = TRUE
    /\ UNCHANGED <<cr, cache, synced, news, timer, loc, fresh, edits, worldVars>>

\* 60 seconds are longer than the watch takes.
FireTimer ==
    /\ timer /\ synced
    /\ timer' = FALSE /\ queue' = TRUE
    /\ UNCHANGED <<cr, cache, synced, news, loc, fresh, edits, worldVars>>

-----------------------------------------------------------------------------
(* Reconcile, as far as reconcileActiveVersions goes *)

Begin ==
    /\ loc.pc = "idle" /\ queue
    /\ queue' = FALSE
    /\ loc' = [pc |-> "capture", read |-> cache, todo |-> Activated(cache.spec),
               new |-> [state |-> [v \in Versions |-> cache.spec[v].state],
                        digest |-> [t \in Tagged |-> NoDigest]]]
    /\ fresh' = synced
    /\ UNCHANGED <<cr, cache, synced, news, timer, edits, worldVars>>

\* (A variant with a fault: the digest of the image in any version will do.)
KnownDigestOfImage(t) ==
    IF \E u \in Tagged : u[2] = t[2] /\ loc.read.status.digest[u] # NoDigest
    THEN loc.read.status.digest[CHOOSE u \in Tagged :
             u[2] = t[2] /\ loc.read.status.digest[u] # NoDigest]
    ELSE NoDigest

\* The activation digest that the status has, of this version and image.
KnownDigest(t) == loc.read.status.digest[t]

KeepDigest(t) ==
    /\ loc.pc = "capture" /\ t \in loc.todo
    /\ KnownDigest(t) # NoDigest
    /\ loc' = [loc EXCEPT !.todo = @ \ {t}, !.new.digest[t] = KnownDigest(t)]
    /\ UNCHANGED <<cr, cache, synced, news, queue, timer, fresh, edits, worldVars>>

CaptureDigest(t) ==
    /\ loc.pc = "capture" /\ t \in loc.todo
    /\ KnownDigest(t) = NoDigest
    /\ Answers(t)
    /\ loc' = [loc EXCEPT !.todo = @ \ {t}, !.new.digest[t] = CurrentDigest(t)]
    /\ UNCHANGED <<cr, cache, synced, news, queue, timer, fresh, edits, worldVars>>

CaptureFails(t) ==
    /\ loc.pc = "capture" /\ t \in loc.todo
    /\ KnownDigest(t) = NoDigest
    /\ Refuses(t)
    /\ loc' = [loc EXCEPT !.todo = @ \ {t}, !.new.state[t[1]] = "error"]
    /\ UNCHANGED <<cr, cache, synced, news, queue, timer, fresh, edits, worldVars>>

\* (A variant with a fault: only a status that could be written asks for a retry.)
NeedsRetryIfStored == fresh /\ \A v \in Versions : loc.new.state[v] = "error"

\* stackSummary has errors.
NeedsRetry == \E v \in Versions : loc.new.state[v] = "error"

\* (A variant with a fault: the status is written whatever it was made from.)
MayStoreAny == TRUE

\* The version that the reconcile has read is the latest.
MayStore == fresh

\* The status is written, or the conflict is ignored.
EndReconcile ==
    /\ loc.pc = "capture" /\ loc.todo = {}
    /\ IF MayStore THEN Store([cr EXCEPT !.status = loc.new]) ELSE UNCHANGED <<cr, cache, synced>>
    /\ timer' = (timer \/ NeedsRetry)
    /\ loc' = IdleState /\ fresh' = FALSE
    /\ UNCHANGED <<news, queue, edits, worldVars>>

-----------------------------------------------------------------------------

Reconcile ==
    \/ Begin \/ EndReconcile
    \/ \E t \in Tagged : KeepDigest(t) \/ CaptureDigest(t) \/ CaptureFails(t)

Next ==
    \/ Reconcile
    \/ EditStack \/ ChangeWorld \/ DeliverEvent \/ Wake \/ FireTimer
    \/ \E t \in Tagged : Push(t)

\* The worker goes on, the watch delivers, the timer fires.  Which of several
\* secrets without a numbered key is taken is left open.
Spec == Init /\ [][Next]_vars /\ WF_vars(Reconcile) /\ WF_vars(DeliverEvent) /\ WF_vars(FireTimer)

-----------------------------------------------------------------------------
(* Properties *)

\* The types; and the digest that is on record for a version and an image is
\* one of that image with that tag.
TypeOK ==
    /\ cr \in Resource /\ cache \in Resource
    /\ synced \in BOOLEAN /\ news \in BOOLEAN /\ queue \in BOOLEAN
    /\ timer \in BOOLEAN /\ fresh \in BOOLEAN
    /\ loc \in Local
    /\ pushed \in [Tagged -> 0..MaxPushes] /\ streams \subseteq Tagged
    /\ up \subseteq Hosts /\ secrets \subseteq Secrets
    /\ edits \in 0..MaxEdits /\ changes \in 0..MaxChanges
    /\ \A t \in Tagged : cr.status.digest[t] # NoDigest => cr.status.digest[t].of = t

\* The digest is captured once during the activation: what the status gives is
\* never exchanged for another one, whatever is pushed, however old the status
\* is that a reconcile works from; it only goes with the activation.
CapturedOnce ==
    [][\A t \in Tagged :
          cr.status.digest[t] # NoDigest =>
              cr'.status.digest[t] \in {cr.status.digest[t], NoDigest}]_vars

\* A digest that can be had in the end is in the status in the end, although no
\* event tells that a registry is back or a secret is there, and although a
\* status may be lost in a conflict.
DigestsGetCaptured ==
    \A t \in Tagged :
        <>[](t \in Activated(cr.spec) /\ Answers(t) /\ ~Refuses(t))
            => <>[](cr.status.digest[t] # NoDigest)
=============================================================================
