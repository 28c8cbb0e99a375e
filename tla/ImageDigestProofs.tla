---------------------------- MODULE ImageDigestProofs ----------------------------
(****************************************************************************)
(* The activation digests, for any versions, images, registries and secrets *)
(* and any number of edits, pushes and changes.                             *)
(****************************************************************************)
EXTENDS ImageDigest, TLAPS

-----------------------------------------------------------------------------
(* Types *)

\* TypeOK but for what it says of the digests on record.
Types ==
    /\ cr \in Resource /\ cache \in Resource
    /\ synced \in BOOLEAN /\ news \in BOOLEAN /\ queue \in BOOLEAN
    /\ timer \in BOOLEAN /\ fresh \in BOOLEAN
    /\ loc \in Local
    /\ pushed \in [Tagged -> 0..MaxPushes] /\ streams \subseteq Tagged
    /\ up \subseteq Hosts /\ secrets \subseteq Secrets
    /\ edits \in 0..MaxEdits /\ changes \in 0..MaxChanges

\* The fields of a resource and of a status.
LEMMA ResourceFields ==
    /\ \A r \in Resource : r.spec \in StackSpec /\ r.status \in StackStatus
    /\ \A s \in StackStatus :
          /\ s.state \in [Versions -> {"absent", "active", "inactive", "error"}]
          /\ s.digest \in [Tagged -> Digest \cup {NoDigest}]
    /\ \A spec \in StackSpec, v \in Versions :
          spec[v].state \in {"absent", "active", "inactive"} /\ spec[v].images \subseteq Images
  BY DEF Resource, StackStatus, StackSpec

\* A new Stack, and the state of the controller between two reconciles.
LEMMA NewTypes == NewResource \in Resource /\ IdleState \in Local
<1>1. NewResource.spec \in StackSpec
  BY DEF NewResource, StackSpec
<1>2. NewResource.status \in StackStatus
  BY DEF NewResource, StackStatus
<1>3. NewResource \in Resource
  BY <1>1, <1>2 DEF NewResource, Resource
<1> QED
  BY <1>2, <1>3 DEF IdleState, Local

\* The types hold initially.
LEMMA InitTypes == Init => Types
<1> SUFFICES ASSUME Init PROVE Types
  OBVIOUS
<1>1. cr \in Resource /\ cache \in Resource /\ loc \in Local
  BY NewTypes DEF Init
<1>2. 0 \in 0..MaxPushes /\ 0 \in 0..MaxEdits /\ 0 \in 0..MaxChanges
  BY DigestAssumption
<1>3. pushed \in [Tagged -> 0..MaxPushes]
  BY <1>2 DEF Init
<1> QED
  BY <1>1, <1>2, <1>3 DEF Init, Types

\* What a reconcile starts with.
LEMMA BeginTypes ==
    ASSUME Types, Begin
    PROVE  Types'
<1> DEFINE new == [state |-> [v \in Versions |-> cache.spec[v].state],
                   digest |-> [t \in Tagged |-> NoDigest]]
<1>1. new \in StackStatus
  BY ResourceFields DEF Types, StackStatus
<1>2. Activated(cache.spec) \in SUBSET Tagged
  BY DEF Activated
<1> HIDE DEF new
<1>3. [pc |-> "capture", read |-> cache, todo |-> Activated(cache.spec), new |-> new] \in Local
  BY <1>1, <1>2 DEF Types, Local
<1> QED
  BY <1>3 DEF Begin, Types, worldVars, new

\* The local state after an image was dealt with: the status in the making has
\* got a digest, or a version in it an error.
WithDigest(r, t, d) == [r EXCEPT !.todo = @ \ {t}, !.new.digest[t] = d]
WithError(r, t) == [r EXCEPT !.todo = @ \ {t}, !.new.state[t[1]] = "error"]

\* What that changes: a digest ...
LEMMA DigestEffect ==
    ASSUME NEW r \in Local, NEW t \in Tagged, NEW d \in Digest \cup {NoDigest}, NEW l,
           l = WithDigest(r, t, d)
    PROVE  /\ l \in Local /\ l.pc = r.pc /\ l.read = r.read
           /\ l.todo = r.todo \ {t} /\ l.new.state = r.new.state
           /\ \A x \in Tagged : l.new.digest[x] = IF x = t THEN d ELSE r.new.digest[x]
<1>1. r.new \in StackStatus /\ r.read \in Resource /\ r.todo \subseteq Tagged
  BY DEF Local
<1>2. /\ l.pc = r.pc /\ l.read = r.read /\ l.todo = r.todo \ {t}
      /\ l.new = [r.new EXCEPT !.digest = [r.new.digest EXCEPT ![t] = d]]
      /\ l = [pc |-> r.pc, read |-> r.read, new |-> l.new, todo |-> r.todo \ {t}]
  BY DEF Local, WithDigest
<1>3. /\ l.new \in StackStatus /\ l.new.digest = [r.new.digest EXCEPT ![t] = d]
      /\ l.new.state = r.new.state
  BY <1>1, <1>2 DEF StackStatus
<1>4. PICK new \in StackStatus :
         l = [pc |-> r.pc, read |-> r.read, new |-> new, todo |-> r.todo \ {t}]
  BY <1>2, <1>3
<1>5. l \in Local
  BY <1>1, <1>4 DEF Local
<1>6. \A x \in Tagged : l.new.digest[x] = IF x = t THEN d ELSE r.new.digest[x]
  BY <1>1, <1>3 DEF StackStatus
<1> QED
  BY <1>2, <1>3, <1>5, <1>6

\* ... or the state of a version.
LEMMA ErrorEffect ==
    ASSUME NEW r \in Local, NEW t \in Tagged, NEW l,
           l = WithError(r, t)
    PROVE  /\ l \in Local /\ l.pc = r.pc /\ l.read = r.read
           /\ l.todo = r.todo \ {t} /\ l.new.digest = r.new.digest
           /\ \A v \in Versions :
                 l.new.state[v] = IF v = t[1] THEN "error" ELSE r.new.state[v]
<1>1. r.new \in StackStatus /\ r.read \in Resource /\ r.todo \subseteq Tagged /\ t[1] \in Versions
  BY DEF Local, Tagged
<1>2. /\ l.pc = r.pc /\ l.read = r.read /\ l.todo = r.todo \ {t}
      /\ l.new = [r.new EXCEPT !.state = [r.new.state EXCEPT ![t[1]] = "error"]]
      /\ l = [pc |-> r.pc, read |-> r.read, new |-> l.new, todo |-> r.todo \ {t}]
  BY DEF Local, WithError
<1>3. /\ l.new \in StackStatus /\ l.new.digest = r.new.digest
      /\ l.new.state = [r.new.state EXCEPT ![t[1]] = "error"]
  BY <1>1, <1>2 DEF StackStatus
<1>4. PICK new \in StackStatus :
         l = [pc |-> r.pc, read |-> r.read, new |-> new, todo |-> r.todo \ {t}]
  BY <1>2, <1>3
<1>5. l \in Local
  BY <1>1, <1>4 DEF Local
<1>6. \A v \in Versions : l.new.state[v] = IF v = t[1] THEN "error" ELSE r.new.state[v]
  BY <1>1, <1>3 DEF StackStatus
<1> QED
  BY <1>2, <1>3, <1>5, <1>6

\* What is found out about an image is a digest.
LEMMA DigestTypes ==
    ASSUME Types, NEW t \in Tagged
    PROVE  KnownDigest(t) \in Digest \cup {NoDigest} /\ CurrentDigest(t) \in Digest
<1>1. KnownDigest(t) \in Digest \cup {NoDigest}
  BY ResourceFields DEF Types, Local, KnownDigest
<1>2. pushed[t] \in 0..MaxPushes
  BY DEF Types
<1> QED
  BY <1>1, <1>2 DEF CurrentDigest, Digest

\* What a reconcile does about an image.
LEMMA CaptureTypes ==
    ASSUME Types, NEW t \in Tagged, KeepDigest(t) \/ CaptureDigest(t) \/ CaptureFails(t)
    PROVE  Types'
<1>1. loc \in Local
  BY DEF Types
<1>2. ASSUME NEW d \in Digest \cup {NoDigest},
             loc' = WithDigest(loc, t, d)
      PROVE  loc' \in Local
  BY <1>1, <1>2, DigestEffect
<1>3. loc' \in Local
  <2>1. CASE KeepDigest(t)
    BY <1>2, <2>1, DigestTypes DEF WithDigest, KeepDigest
  <2>2. CASE CaptureDigest(t)
    BY <1>2, <2>2, DigestTypes DEF WithDigest, CaptureDigest
  <2>3. CASE CaptureFails(t)
    <3>1. loc' = WithError(loc, t)
      BY <2>3 DEF CaptureFails, WithError
    <3> QED
      BY <1>1, <3>1, ErrorEffect
  <2> QED
    BY <2>1, <2>2, <2>3
<1> QED
  BY <1>3 DEF KeepDigest, CaptureDigest, CaptureFails, Types, worldVars

\* The end of a reconcile.
LEMMA EndTypes ==
    ASSUME Types, EndReconcile
    PROVE  Types'
<1>1. [cr EXCEPT !.status = loc.new] \in Resource
  BY DEF Types, Local, Resource
<1>2. NeedsRetry \in BOOLEAN
  BY DEF NeedsRetry
<1> QED
  BY <1>1, <1>2, NewTypes DEF EndReconcile, Store, Types, worldVars

\* A user edits the Stack.
LEMMA EditTypes ==
    ASSUME Types, EditStack
    PROVE  Types'
<1>1. PICK v \in Versions, state \in {"absent", "active", "inactive"},
           images \in SUBSET Images \ {{}} :
         LET spec == [cr.spec EXCEPT ![v] = [state |-> state, images |->
                                              IF state = "absent" THEN {} ELSE images]]
         IN  spec # cr.spec /\ Store([cr EXCEPT !.spec = spec])
  BY DEF EditStack
<1> DEFINE entry == [state |-> state, images |-> IF state = "absent" THEN {} ELSE images]
           spec == [cr.spec EXCEPT ![v] = entry]
<1>2. cr' = [cr EXCEPT !.spec = spec] /\ synced' \in BOOLEAN /\ cache' = cache
  BY <1>1 DEF Store, Types
<1>3. spec \in StackSpec
  BY ResourceFields DEF Types, StackSpec
<1> HIDE DEF spec
<1>4. cr' \in Resource
  BY <1>2, <1>3 DEF Types, Resource
<1>5. edits' \in 0..MaxEdits
  BY DigestAssumption DEF EditStack, Types
<1> QED
  BY <1>2, <1>4, <1>5 DEF EditStack, Types, worldVars

\* Registries, image streams, secrets and images change.
LEMMA WorldTypes ==
    ASSUME Types, ChangeWorld \/ \E t \in Tagged : Push(t)
    PROVE  Types'
<1>1. CASE ChangeWorld
  <2>1. changes' \in 0..MaxChanges
    BY <1>1, DigestAssumption DEF ChangeWorld, Types
  <2>2. streams' \subseteq Tagged /\ up' \subseteq Hosts /\ secrets' \subseteq Secrets
    BY <1>1 DEF ChangeWorld, Types
  <2> QED
    BY <1>1, <2>1, <2>2 DEF ChangeWorld, Types
<1>2. ASSUME NEW t \in Tagged, Push(t)
      PROVE  Types'
  <2>1. pushed[t] + 1 \in 0..MaxPushes
    BY <1>2, DigestAssumption DEF Push, Types
  <2> QED
    BY <1>2, <2>1 DEF Push, Types
<1> QED
  BY <1>1, <1>2

\* Every step keeps the types.
LEMMA StepTypes ==
    ASSUME Types, [Next]_vars
    PROVE  Types'
<1>1. CASE UNCHANGED vars
  BY <1>1 DEF vars, Types
<1>2. CASE DeliverEvent
  BY <1>2 DEF DeliverEvent, Types, worldVars
<1>3. CASE Wake \/ FireTimer
  BY <1>3 DEF Wake, FireTimer, Types, worldVars
<1> QED
  BY <1>1, <1>2, <1>3, BeginTypes, CaptureTypes, EndTypes, EditTypes, WorldTypes DEF Next, Reconcile

-----------------------------------------------------------------------------
(* Digests stay *)

\* Every digest is one of the image and the tag it is given for.
Named(digest) == \A t \in Tagged : digest[t] # NoDigest => digest[t].of = t

\* 1. What the cache has, what a reconcile has read and what it is going to
\*    write give a version and an image no digest but one of theirs.
\* 2. The cache and the copy are what is stored unless they are known not to be.
\* 3. A digest that was read is not exchanged.
DigestInv ==
    /\ Named(cr.status.digest) /\ Named(cache.status.digest)
    /\ Named(loc.read.status.digest) /\ Named(loc.new.digest)
    /\ synced => cache = cr
    /\ fresh /\ loc.pc = "capture" => loc.read = cr
    /\ loc.pc = "capture" =>
          \A t \in Tagged : loc.read.status.digest[t] # NoDigest =>
              loc.new.digest[t] \in {loc.read.status.digest[t], NoDigest}

\* In the beginning there is no digest.
LEMMA InitDigest == Init => DigestInv
  BY DEF Init, DigestInv, Named, IdleState, NewResource

\* A reconcile starts.
LEMMA BeginDigest ==
    ASSUME Types, DigestInv, Begin
    PROVE  DigestInv'
<1>1. /\ UNCHANGED <<cr, cache, synced>> /\ fresh' = synced
      /\ loc'.read = cache /\ loc'.new.digest = [t \in Tagged |-> NoDigest]
  BY DEF Begin
<1> QED
  BY <1>1 DEF DigestInv, Named

\* Something is found out about an image.
LEMMA CaptureDigests ==
    ASSUME Types, DigestInv, NEW t \in Tagged,
           KeepDigest(t) \/ CaptureDigest(t) \/ CaptureFails(t)
    PROVE  DigestInv'
<1>1. /\ UNCHANGED <<cr, cache, synced, fresh>> /\ loc.pc = "capture"
  BY DEF KeepDigest, CaptureDigest, CaptureFails
<1>2. loc \in Local
  BY DEF Types
<1>3. ASSUME NEW d \in Digest \cup {NoDigest}, d.of = t,
             loc.read.status.digest[t] # NoDigest => d = loc.read.status.digest[t],
             loc' = WithDigest(loc, t, d)
      PROVE  DigestInv'
  <2>1. /\ loc'.pc = loc.pc /\ loc'.read = loc.read
        /\ \A x \in Tagged : loc'.new.digest[x] = IF x = t THEN d ELSE loc.new.digest[x]
    BY <1>2, <1>3, DigestEffect
  <2>2. Named(loc'.new.digest)
    BY <1>3, <2>1 DEF DigestInv, Named
  <2>3. \A x \in Tagged : loc.read.status.digest[x] # NoDigest =>
              loc'.new.digest[x] \in {loc.read.status.digest[x], NoDigest}
    BY <1>1, <1>3, <2>1 DEF DigestInv
  <2> QED
    BY <1>1, <2>1, <2>2, <2>3 DEF DigestInv
<1>4. CASE KeepDigest(t)
  <2>1. KnownDigest(t).of = t
    BY <1>4 DEF KeepDigest, KnownDigest, DigestInv, Named
  <2> QED
    BY <1>3, <1>4, <2>1, DigestTypes DEF WithDigest, KeepDigest, KnownDigest
<1>5. CASE CaptureDigest(t)
  <2>1. CurrentDigest(t).of = t
    BY DEF CurrentDigest
  <2> QED
    BY <1>3, <1>5, <2>1, DigestTypes DEF WithDigest, CaptureDigest, KnownDigest
<1>6. CASE CaptureFails(t)
  <2>1. loc' = WithError(loc, t)
    BY <1>6 DEF CaptureFails, WithError
  <2>2. /\ loc'.pc = loc.pc /\ loc'.read = loc.read /\ loc'.new.digest = loc.new.digest
    BY <1>2, <2>1, ErrorEffect
  <2> QED
    BY <1>1, <2>2 DEF DigestInv, Named
<1> QED
  BY <1>4, <1>5, <1>6

\* The status is written, or not.
LEMMA EndDigest ==
    ASSUME Types, DigestInv, EndReconcile
    PROVE  /\ DigestInv'
           /\ \A t \in Tagged : cr.status.digest[t] # NoDigest =>
                                    cr'.status.digest[t] \in {cr.status.digest[t], NoDigest}
<1>1. /\ loc' = IdleState /\ fresh' = FALSE /\ loc.pc = "capture" /\ cache' = cache
      /\ \/ /\ fresh /\ cr' = [cr EXCEPT !.status = loc.new] /\ (synced' => synced /\ cr' = cr)
         \/ UNCHANGED <<cr, synced>>
  BY DEF EndReconcile, MayStore, Store
<1>2. IdleState.pc = "idle" /\ Named(IdleState.read.status.digest) /\ Named(IdleState.new.digest)
  BY DEF IdleState, NewResource, Named
<1>3. CASE UNCHANGED <<cr, synced>>
  BY <1>1, <1>2, <1>3 DEF DigestInv
<1>4. CASE fresh /\ cr' = [cr EXCEPT !.status = loc.new] /\ (synced' => synced /\ cr' = cr)
  <2>1. cr'.status = loc.new /\ loc.read = cr
    BY <1>1, <1>4 DEF Types, Resource, DigestInv
  <2> QED
    BY <1>1, <1>2, <1>4, <2>1 DEF DigestInv
<1> QED
  BY <1>1, <1>3, <1>4

\* A user edits the Stack.
LEMMA EditDigest ==
    ASSUME Types, DigestInv, EditStack
    PROVE  DigestInv' /\ cr'.status = cr.status
<1>1. \E spec : cr' = [cr EXCEPT !.spec = spec]
  BY DEF EditStack, Store
<1>2. cr'.status = cr.status /\ (synced' => synced /\ cr' = cr) /\ cache' = cache
  BY <1>1 DEF Types, Resource, EditStack, Store
<1>3. fresh' = FALSE /\ loc' = loc
  BY DEF EditStack
<1> QED
  BY <1>2, <1>3 DEF DigestInv

\* Every step keeps the invariant, and the digests on record.
LEMMA StepDigest ==
    ASSUME Types, DigestInv, [Next]_vars
    PROVE  /\ DigestInv'
           /\ \A t \in Tagged : cr.status.digest[t] # NoDigest =>
                                    cr'.status.digest[t] \in {cr.status.digest[t], NoDigest}
<1>1. CASE UNCHANGED <<cr, cache, synced, loc, fresh>>
  BY <1>1 DEF DigestInv
<1>2. CASE DeliverEvent
  BY <1>2 DEF DeliverEvent, DigestInv
<1>3. CASE Reconcile
  <2>1. CASE Begin
    BY <2>1, BeginDigest DEF Begin
  <2>2. ASSUME NEW t \in Tagged, KeepDigest(t) \/ CaptureDigest(t) \/ CaptureFails(t)
        PROVE  DigestInv' /\ cr' = cr
    BY <2>2, CaptureDigests DEF KeepDigest, CaptureDigest, CaptureFails
  <2> QED
    BY <1>3, <2>1, <2>2, EndDigest DEF Reconcile
<1>4. CASE EditStack
  BY <1>4, EditDigest
<1> QED
  BY <1>1, <1>2, <1>3, <1>4 DEF Next, vars, ChangeWorld, Wake, FireTimer, Push

\* The invariant holds throughout.
LEMMA DigestsStay == Spec => [](Types /\ DigestInv)
<1>1. Types /\ DigestInv /\ [Next]_vars => (Types /\ DigestInv)'
  BY StepTypes, StepDigest
<1> QED
  BY <1>1, InitTypes, InitDigest, PTL DEF Spec

\* Every variable keeps its type, and the digest on record for a version and an
\* image is one of that image with that tag, whatever is pushed in between.
THEOREM TypeCorrect == Spec => []TypeOK
<1>1. Types /\ DigestInv => TypeOK
  BY DEF Types, DigestInv, Named, TypeOK
<1> QED
  BY <1>1, DigestsStay, PTL

\* No digest on record is exchanged for another one.
THEOREM AlwaysCapturedOnce == Spec => CapturedOnce
<1> DEFINE Once == \A t \in Tagged : cr.status.digest[t] # NoDigest =>
                       cr'.status.digest[t] \in {cr.status.digest[t], NoDigest}
<1>1. Types /\ DigestInv /\ [Next]_vars => [Once]_vars
  BY StepDigest
<1> QED
  BY <1>1, DigestsStay, PTL DEF Spec, CapturedOnce

-----------------------------------------------------------------------------
(* No digest is forgotten *)

\* The controller has nothing to do and the watch has nothing to tell.
AtRest == loc.pc = "idle" /\ ~queue /\ ~timer /\ synced

\* Every image of an active version has its digest on record.
Captured == \A t \in Activated(cr.spec) : cr.status.digest[t] # NoDigest

\* 1. As long as a digest is missing, something is under way that will ask for
\*    it: an edit, a request in the workqueue, a timer, or a reconcile whose
\*    status will be written.
\* 2. A request that is served too early, with a stale copy, is not the last.
\* 3. The watch still has to tell of an edit.
\* 4. An image that a reconcile is done with has its digest, or has left an
\*    error in the status, which sets the timer.
RetryInv ==
    /\ Captured \/ news \/ queue \/ timer \/ (loc.pc = "capture" /\ fresh)
    /\ ~synced => Captured \/ news \/ timer
    /\ news => ~synced
    /\ loc.pc = "capture" =>
          \A t \in Activated(loc.read.spec) \ loc.todo :
              loc.new.digest[t] # NoDigest \/ loc.new.state[t[1]] = "error"

\* At first there is no image.
LEMMA InitRetry == Init => RetryInv
<1> SUFFICES ASSUME Init PROVE RetryInv
  OBVIOUS
<1>1. \A v \in Versions : cr.spec[v].state = "absent"
  BY DEF Init, NewResource
<1>2. Captured
  BY <1>1 DEF Captured, Activated, Tagged
<1>3. loc.pc = "idle" /\ news = FALSE
  BY DEF Init, IdleState
<1> QED
  BY <1>2, <1>3 DEF RetryInv

\* A reconcile starts: its copy is the latest, or else the request is not the
\* last one.
LEMMA BeginRetry ==
    ASSUME RetryInv, Begin
    PROVE  RetryInv'
<1>1. /\ UNCHANGED <<cr, synced, news, timer>> /\ fresh' = synced
      /\ loc'.pc = "capture" /\ loc'.read = cache /\ loc'.todo = Activated(cache.spec)
  BY DEF Begin
<1>2. Captured' <=> Captured
  BY <1>1 DEF Captured
<1> QED
  BY <1>1, <1>2 DEF RetryInv

\* Something is found out about an image: its digest, or an error.
LEMMA CaptureRetry ==
    ASSUME Types, RetryInv, NEW t \in Tagged,
           KeepDigest(t) \/ CaptureDigest(t) \/ CaptureFails(t)
    PROVE  RetryInv'
<1>1. UNCHANGED <<cr, synced, news, queue, timer, fresh>> /\ loc.pc = "capture"
  BY DEF KeepDigest, CaptureDigest, CaptureFails
<1>2. loc \in Local
  BY DEF Types
<1>3. SUFFICES /\ loc'.pc = "capture"
               /\ \A x \in Activated(loc'.read.spec) \ loc'.todo :
                     loc'.new.digest[x] # NoDigest \/ loc'.new.state[x[1]] = "error"
  BY <1>1 DEF RetryInv, Captured
<1>4. \A x \in Activated(loc.read.spec) : x \in Tagged /\ x[1] \in Versions
  BY DEF Activated, Tagged
<1>5. ASSUME NEW d \in Digest \cup {NoDigest}, d # NoDigest, loc' = WithDigest(loc, t, d)
      PROVE  /\ loc'.pc = "capture"
             /\ \A x \in Activated(loc'.read.spec) \ loc'.todo :
                   loc'.new.digest[x] # NoDigest \/ loc'.new.state[x[1]] = "error"
  <2>1. /\ loc'.pc = loc.pc /\ loc'.read = loc.read
        /\ loc'.todo = loc.todo \ {t} /\ loc'.new.state = loc.new.state
        /\ \A x \in Tagged : loc'.new.digest[x] = IF x = t THEN d ELSE loc.new.digest[x]
    BY <1>2, <1>5, DigestEffect
  <2> QED
    BY <1>1, <1>4, <1>5, <2>1 DEF RetryInv
<1>6. CASE KeepDigest(t)
  BY <1>5, <1>6, DigestTypes DEF WithDigest, KeepDigest
<1>7. CASE CaptureDigest(t)
  <2>1. t # <<>>
    BY DEF Tagged
  <2>2. CurrentDigest(t) # NoDigest
    BY <2>1 DEF CurrentDigest, NoDigest
  <2> QED
    BY <1>5, <1>7, <2>2, DigestTypes DEF WithDigest, CaptureDigest
<1>8. CASE CaptureFails(t)
  <2>1. loc' = WithError(loc, t)
    BY <1>8 DEF CaptureFails, WithError
  <2>2. /\ loc'.pc = loc.pc /\ loc'.read = loc.read
        /\ loc'.todo = loc.todo \ {t} /\ loc'.new.digest = loc.new.digest
        /\ \A v \in Versions :
              loc'.new.state[v] = IF v = t[1] THEN "error" ELSE loc.new.state[v]
    BY <1>2, <2>1, ErrorEffect
  <2> QED
    BY <1>1, <1>4, <2>2 DEF RetryInv
<1> QED
  BY <1>6, <1>7, <1>8

\* A reconcile that writes its status has the digests, or sets the timer; one
\* that does not leaves everything as it was.
LEMMA EndRetry ==
    ASSUME Types, DigestInv, RetryInv, EndReconcile
    PROVE  RetryInv'
<1>1. /\ loc.pc = "capture" /\ loc.todo = {} /\ loc'.pc = "idle"
      /\ UNCHANGED <<news, queue>> /\ timer' = (timer \/ NeedsRetry)
      /\ IF fresh THEN Store([cr EXCEPT !.status = loc.new]) ELSE UNCHANGED <<cr, cache, synced>>
  BY DEF EndReconcile, IdleState, MayStore
<1>2. CASE fresh
  <2>1. cr'.spec = cr.spec /\ cr'.status = loc.new /\ loc.read = cr
    BY <1>1, <1>2 DEF Store, Types, Resource, DigestInv
  <2>2. ASSUME NEW t \in Activated(cr.spec), loc.new.digest[t] = NoDigest
        PROVE  NeedsRetry
    <3>1. loc.new.state[t[1]] = "error"
      BY <1>1, <2>1, <2>2 DEF RetryInv
    <3> QED
      BY <3>1 DEF NeedsRetry, Activated, Tagged
  <2>3. Captured' \/ timer'
    BY <1>1, <2>1, <2>2 DEF Captured
  <2>4. synced' => synced
    BY <1>1, <1>2 DEF Store
  <2> QED
    BY <1>1, <2>3, <2>4 DEF RetryInv
<1>3. CASE ~fresh
  <2>1. UNCHANGED <<cr, synced>> /\ (timer => timer')
    BY <1>1, <1>3
  <2> QED
    BY <1>1, <1>3, <2>1 DEF RetryInv, Captured
<1> QED
  BY <1>2, <1>3

\* Every step keeps the promise.
LEMMA StepRetry ==
    ASSUME Types, DigestInv, RetryInv, [Next]_vars
    PROVE  RetryInv'
<1>1. CASE UNCHANGED <<cr, synced, news, queue, timer, loc, fresh>>
  BY <1>1 DEF RetryInv, Captured
<1>2. CASE EditStack
  <2>1. news' /\ UNCHANGED loc
    BY <1>2 DEF EditStack
  <2>2. PICK spec : spec # cr.spec /\ Store([cr EXCEPT !.spec = spec])
    BY <1>2 DEF EditStack
  <2>3. [cr EXCEPT !.spec = spec].spec = spec
    BY DEF Types, Resource
  <2>4. synced' = FALSE
    BY <2>2, <2>3 DEF Store
  <2> QED
    BY <2>1, <2>4 DEF RetryInv
<1>3. CASE DeliverEvent
  BY <1>3 DEF DeliverEvent, RetryInv, Captured
<1>4. CASE Wake
  BY <1>4 DEF Wake, RetryInv, Captured
<1>5. CASE FireTimer
  BY <1>5 DEF FireTimer, RetryInv, Captured
<1> QED
  BY <1>1, <1>2, <1>3, <1>4, <1>5, BeginRetry, CaptureRetry, EndRetry
  DEF Next, Reconcile, vars, ChangeWorld, Push

\* When the controller has come to rest, with no reconcile, request, timer or
\* news pending, the digest of every image of every active version is on record:
\* no registry that was away, no conflict of the status update, no edit that was
\* taken back before the watch delivered it makes the controller forget one.
THEOREM RestsCaptured == Spec => [](AtRest => Captured)
<1>1. Types /\ DigestInv /\ RetryInv /\ [Next]_vars => RetryInv'
  BY StepRetry
<1>2. RetryInv => (AtRest => Captured)
  <2> SUFFICES ASSUME RetryInv, AtRest PROVE Captured
    OBVIOUS
  <2>1. loc.pc # "capture" /\ ~queue /\ ~timer /\ synced
    BY DEF AtRest
  <2> QED
    BY <2>1 DEF RetryInv
<1> QED
  BY <1>1, <1>2, InitRetry, DigestsStay, PTL DEF Spec
=============================================================================
