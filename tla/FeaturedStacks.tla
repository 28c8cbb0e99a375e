----------------------------- MODULE FeaturedStacks -----------------------------
(****************************************************************************)
(* How the Kabanero operator keeps the Stack resources in line with the     *)
(* stack hubs: it resolves the indexes of all repositories, removes what is *)
(* no longer featured, and creates or updates the rest, always on a cached  *)
(* view of the Stacks, which users edit and the stack controller writes at  *)
(* the same time.  Every write of a Stack passes the admission webhook.     *)
(*                                                                          *)
(* What brings the operator back is the subject of KabaneroReconcile.  Here *)
(* it may start at any time, and does so again and again, at the latest     *)
(* when the informers resync.                                               *)
(****************************************************************************)
EXTENDS Integers, FiniteSets

CONSTANTS
    Stacks,         \* names of Stacks, which are also the ids in an index
    Versions,
    None,           \* a version that is not there
    Contents,       \* what a version may consist of, apart from its state
    UserContents,   \* what users write
    UserStates,     \* the desired states that users write
    RepositoryCount,
    RepoPipelines,  \* the pipelines that each repository prescribes, if any
    Hubs,           \* the states of the hubs: for each repository, its index
    FirstHubs,      \* those at the start
    MaxEdits,       \* how often users create, edit or delete a Stack
    MaxChanges,     \* how often a hub changes, or is reachable or not
    MaxFaults       \* what disturbs the operator: a status that the stack controller
                    \* writes, a write that fails, a restart

\* An image reference is plain, has a tag, cannot be parsed, or is empty.  A
\* pipeline is an archive with or without its digest, a yaml file, another
\* kind of file, or names no location.
ImageKinds == {"plain", "tagged", "malformed", "empty"}
PipelineKinds == {"digested archive", "archive", "yaml", "other", "nowhere"}

Content == [images : SUBSET ImageKinds, pipelines : SUBSET PipelineKinds, revision : Nat]

\* In the order of spec.stacks.repositories.
Repositories == 1..RepositoryCount

Entry == [stack : Stacks, version : Versions, content : Content]

States == {"", "active", "inactive"}

ASSUME FeaturedAssumption ==
    /\ Contents \subseteq Content /\ UserContents \subseteq Contents
    /\ None \notin Content /\ UserStates \subseteq States
    /\ RepositoryCount \in Nat
    /\ RepoPipelines \in [Repositories -> SUBSET PipelineKinds]
    /\ Hubs \subseteq [Repositories -> SUBSET Entry] /\ FirstHubs \subseteq Hubs
    /\ MaxEdits \in Nat /\ MaxChanges \in Nat /\ MaxFaults \in Nat

VARIABLES
    cr,      \* the Stacks, as the API server stores them
    cache,   \* the same in the operator's informer cache
    synced,  \* the Stacks whose cached version is the latest
    hub,     \* what each repository serves
    down,    \* the repositories that cannot be reached
    loc,     \* the local state of reconcileFeaturedStacks
    edits, changes, faults

vars == <<cr, cache, synced, hub, down, loc, edits, changes, faults>>
worldVars == <<hub, down>>
counters == <<edits, changes, faults>>

NoVersion == [content |-> None, desired |-> ""]
NoVersions == [v \in Versions |-> NoVersion]

StackSpec == [Versions -> [content : Content \cup {None}, desired : States]]

\* "live" has the stack controller's finalizer, "new" has not.
Resource == [phase : {"absent", "new", "live", "deleting"}, spec : StackSpec]

NoStack == [phase |-> "absent", spec |-> NoVersions]

\* What the operator has resolved: the content of each version that is featured.
Index == [Stacks -> [Versions -> Content \cup {None}]]

\* `refused': the Stacks with an image that cannot be parsed in some entry.
Local == [pc : {"idle", "trim", "apply"}, index : Index, refused : SUBSET Stacks,
          todo : SUBSET Stacks]

IdleState == [pc |-> "idle", refused |-> {}, todo |-> {},
              index |-> [s \in Stacks |-> [v \in Versions |-> None]]]

Init ==
    /\ cr = [s \in Stacks |-> NoStack]
    /\ cache = cr
    /\ synced = Stacks
    /\ hub \in FirstHubs
    /\ down = {}
    /\ loc = IdleState
    /\ edits = 0 /\ changes = 0 /\ faults = 0

-----------------------------------------------------------------------------
(* Contents, admission, indexes *)

\* RemoveTagFromStackImages parses every image, or fails; what is left is the
\* repository.
CanUntag(c) == c.images \cap {"malformed", "empty"} = {}

Untag(c) ==
    IF "tagged" \in c.images
    THEN [c EXCEPT !.images = (@ \ {"tagged"}) \cup {"plain"}]
    ELSE c

\* validateStackFn, for one version.
AdmissibleVersion(c) ==
    /\ c.images # {} /\ c.images \subseteq {"plain"}
    /\ c.pipelines \subseteq {"digested archive", "yaml"}

\* The webhook takes a Stack that has versions, all of them in order.
Admissible(spec) ==
    /\ spec # NoVersions
    /\ \A v \in Versions : spec[v] # NoVersion => AdmissibleVersion(spec[v].content)

\* processIndexPostRead passes over an entry without any image and puts the
\* pipelines of the repository, or of the Kabanero, in place of the entry's.
IsUsable(c) == c.images \ {"empty"} # {}

WithPipelines(r, c) ==
    IF RepoPipelines[r] = {} THEN c ELSE [c EXCEPT !.pipelines = RepoPipelines[r]]

\* The entries for a version, and the one that counts: that of the last
\* repository, since each overwrites what those before it have left.
EntriesFor(s, v) ==
    {p \in UNION {{r} \X hub[r] : r \in Repositories} :
        p[2].stack = s /\ p[2].version = v /\ IsUsable(p[2].content)}

Featured(s, v) ==
    IF EntriesFor(s, v) = {} THEN None
    ELSE LET last == CHOOSE p \in EntriesFor(s, v) :
                        \A q \in EntriesFor(s, v) : q[1] <= p[1]
         IN  WithPipelines(last[1], last[2].content)

\* The images of every entry are parsed, those of the overwritten ones as well.
Refused ==
    {s \in Stacks : \E v \in Versions : \E p \in EntriesFor(s, v) : ~CanUntag(p[2].content)}

\* featuredStacks
Resolved == [s \in Stacks |-> [v \in Versions |-> Featured(s, v)]]

-----------------------------------------------------------------------------
(* The API server, users, the hubs, the stack controller *)

\* Only an unequal resource makes a new version.
Store(s, r) ==
    /\ cr' = [cr EXCEPT ![s] = r]
    /\ synced' = IF r = cr[s] THEN synced ELSE synced \ {s}
    /\ UNCHANGED cache

DeliverEvent(s) ==
    /\ s \notin synced
    /\ cache' = [cache EXCEPT ![s] = cr[s]]
    /\ synced' = synced \cup {s}
    /\ UNCHANGED <<cr, worldVars, loc, counters>>

\* Users write one version, or take it out; tags are stripped on the way in.
EditStack(s) ==
    /\ edits < MaxEdits
    /\ cr[s].phase # "deleting"
    /\ \E v \in Versions :
         \E n \in [content : {Untag(c) : c \in UserContents}, desired : UserStates] \cup {NoVersion} :
           LET spec == [cr[s].spec EXCEPT ![v] = n]
           IN  /\ n # cr[s].spec[v]
               /\ Admissible(spec)
               /\ Store(s, [phase |-> IF cr[s].phase = "absent" THEN "new" ELSE cr[s].phase,
                            spec |-> spec])
    /\ edits' = edits + 1
    /\ UNCHANGED <<worldVars, loc, changes, faults>>

\* A resource goes at once unless the stack controller's finalizer holds it.
Deleted(r) == IF r.phase = "new" THEN NoStack ELSE [r EXCEPT !.phase = "deleting"]

DeleteStack(s) ==
    /\ edits < MaxEdits
    /\ cr[s].phase \in {"new", "live"}
    /\ Store(s, Deleted(cr[s]))
    /\ edits' = edits + 1
    /\ UNCHANGED <<worldVars, loc, changes, faults>>

ChangeHub ==
    /\ changes < MaxChanges
    /\ \/ hub' \in Hubs \ {hub} /\ UNCHANGED down
       \/ \E r \in Repositories : down' = (down \cup {r}) \ (down \cap {r}) /\ UNCHANGED hub
    /\ changes' = changes + 1
    /\ UNCHANGED <<cr, cache, synced, loc, edits, faults>>

\* The stack controller adds its finalizer, writes a status (a new version
\* with the same spec), and completes deletions.
AddFinalizer(s) ==
    /\ cr[s].phase = "new"
    /\ Store(s, [cr[s] EXCEPT !.phase = "live"])
    /\ UNCHANGED <<worldVars, loc, counters>>

WriteStatus(s) ==
    /\ faults < MaxFaults
    /\ cr[s].phase = "live"
    /\ synced' = synced \ {s}
    /\ faults' = faults + 1
    /\ UNCHANGED <<cr, cache, worldVars, loc, edits, changes>>

FinishDeletion(s) ==
    /\ cr[s].phase = "deleting"
    /\ Store(s, NoStack)
    /\ UNCHANGED <<worldVars, loc, counters>>

-----------------------------------------------------------------------------
(* reconcileFeaturedStacks *)

\* It ends, done or with an error, which the caller sees to.
EndReconcile == loc' = IdleState

\* The indexes are read, then the Stacks are listed.  If one repository cannot
\* be reached, nothing is done.
Resolve ==
    /\ loc.pc = "idle"
    /\ down = {}
    /\ loc' = [pc |-> "trim", index |-> Resolved, refused |-> Refused,
               todo |-> {s \in Stacks : cache[s].phase # "absent"}]
    /\ UNCHANGED <<cr, cache, synced, worldVars, counters>>

\* preProcessCurrentStacks keeps the versions that are featured and those with
\* a desired state.
Kept(s) ==
    [v \in Versions |->
        IF loc.index[s][v] # None \/ cache[s].spec[v].desired # ""
        THEN cache[s].spec[v] ELSE NoVersion]

Featuring == {s \in Stacks : \E v \in Versions : loc.index[s][v] # None}

Trimmed(s) == loc' = [loc EXCEPT !.todo = @ \ {s}]

TrimNothing(s) ==
    /\ loc.pc = "trim" /\ s \in loc.todo
    /\ cache[s].phase = "absent" \/ Kept(s) = cache[s].spec
    /\ Trimmed(s)
    /\ UNCHANGED <<cr, cache, synced, worldVars, counters>>

\* (A variant with a fault: a Stack may be left without versions.)
TrimVersionsToNothing(s) ==
    /\ loc.pc = "trim" /\ s \in loc.todo
    /\ Kept(s) # cache[s].spec
    /\ s \in synced
    /\ Store(s, [cr[s] EXCEPT !.spec = Kept(s)])
    /\ Trimmed(s)
    /\ UNCHANGED <<worldVars, counters>>

TrimVersions(s) ==
    /\ loc.pc = "trim" /\ s \in loc.todo
    /\ Kept(s) \notin {cache[s].spec, NoVersions}
    /\ s \in synced
    /\ Store(s, [cr[s] EXCEPT !.spec = Kept(s)])
    /\ Trimmed(s)
    /\ UNCHANGED <<worldVars, counters>>

\* The error of that Update is ignored: a conflict, or another one.
TrimIgnored(s) ==
    /\ loc.pc = "trim" /\ s \in loc.todo
    /\ Kept(s) \notin {cache[s].spec, NoVersions}
    /\ \/ s \notin synced /\ UNCHANGED faults
       \/ faults < MaxFaults /\ faults' = faults + 1
    /\ Trimmed(s)
    /\ UNCHANGED <<cr, cache, synced, worldVars, edits, changes>>

\* Nothing is kept: the Stack is deleted, whatever has become of it since it
\* was read, and the loop ends, whoever is left.
DeleteStale(s) ==
    /\ loc.pc = "trim" /\ s \in loc.todo
    /\ cache[s].phase # "absent" /\ Kept(s) = NoVersions
    /\ cr[s].phase # "absent"
    /\ Store(s, Deleted(cr[s]))
    /\ loc' = [loc EXCEPT !.pc = "apply", !.todo = Featuring]
    /\ UNCHANGED <<worldVars, counters>>

\* ... or the deletion fails, because the Stack is gone or otherwise.
DeleteFails(s) ==
    /\ loc.pc = "trim" /\ s \in loc.todo
    /\ cache[s].phase # "absent" /\ Kept(s) = NoVersions
    /\ \/ cr[s].phase = "absent" /\ UNCHANGED faults
       \/ faults < MaxFaults /\ faults' = faults + 1
    /\ EndReconcile
    /\ UNCHANGED <<cr, cache, synced, worldVars, edits, changes>>

EndTrim ==
    /\ loc.pc = "trim" /\ loc.todo = {}
    /\ loc' = [loc EXCEPT !.pc = "apply", !.todo = Featuring]
    /\ UNCHANGED <<cr, cache, synced, worldVars, counters>>

-----------------------------------------------------------------------------

\* The featured versions are added, or replace what is there, unless that has
\* a desired state.
Merged(s) ==
    [v \in Versions |->
        IF loc.index[s][v] = None \/ cache[s].spec[v].desired # "" THEN cache[s].spec[v]
        ELSE [content |-> Untag(loc.index[s][v]), desired |-> ""]]

\* (A variant with a fault: a write from an old copy is accepted.)
MayStoreAny(s) == cr[s].phase # "absent" <=> cache[s].phase # "absent"

\* Create finds no such Stack, or Update the version that was read.
MayStore(s) == s \in synced

\* The images of all entries of s can be parsed, those that are overwritten by a
\* later repository or give way to a desired state among them; then the webhook
\* takes what has come out.
MayApply(s) == s \notin loc.refused /\ Admissible(Merged(s))

\* (A variant with a fault: the write that is due is never made.)
ApplyStackAbsent(s) ==
    /\ loc.pc = "apply" /\ s \in loc.todo
    /\ cr[s].phase = "absent"
    /\ MayApply(s)
    /\ Store(s, [phase |-> "new", spec |-> Merged(s)])
    /\ loc' = [loc EXCEPT !.todo = @ \ {s}]
    /\ UNCHANGED <<worldVars, counters>>

ApplyStack(s) ==
    /\ loc.pc = "apply" /\ s \in loc.todo
    /\ MayStore(s)
    /\ MayApply(s)
    /\ Store(s, [phase |-> IF cache[s].phase = "absent" THEN "new" ELSE cr[s].phase,
                 spec |-> Merged(s)])
    /\ loc' = [loc EXCEPT !.todo = @ \ {s}]
    /\ UNCHANGED <<worldVars, counters>>

\* An image that cannot be parsed, a refusal by the webhook, a conflict, a
\* Stack of that name that has come or gone since, or another error: those
\* that have not had their turn must wait for the next reconcile.
ApplyFails(s) ==
    /\ loc.pc = "apply" /\ s \in loc.todo
    /\ \/ (s \notin synced \/ ~MayApply(s)) /\ UNCHANGED faults
       \/ faults < MaxFaults /\ faults' = faults + 1
    /\ EndReconcile
    /\ UNCHANGED <<cr, cache, synced, worldVars, edits, changes>>

EndApply ==
    /\ loc.pc = "apply" /\ loc.todo = {}
    /\ EndReconcile
    /\ UNCHANGED <<cr, cache, synced, worldVars, counters>>

Restart ==
    /\ faults < MaxFaults
    /\ loc.pc # "idle"
    /\ EndReconcile
    /\ cache' = cr /\ synced' = Stacks
    /\ faults' = faults + 1
    /\ UNCHANGED <<cr, worldVars, edits, changes>>

-----------------------------------------------------------------------------

TrimStep(s) ==
    TrimNothing(s) \/ TrimVersions(s) \/ TrimIgnored(s) \/ DeleteStale(s) \/ DeleteFails(s)

Reconcile ==
    \/ Resolve \/ EndTrim \/ EndApply
    \/ \E s \in Stacks : TrimStep(s) \/ ApplyStack(s) \/ ApplyFails(s)

Environment(s) ==
    DeliverEvent(s) \/ EditStack(s) \/ DeleteStack(s) \/ AddFinalizer(s) \/ WriteStatus(s)
        \/ FinishDeletion(s)

Next == Reconcile \/ ChangeHub \/ Restart \/ \E s \in Stacks : Environment(s)

\* The worker goes on, watches deliver, the stack controller does its work.
\* Go's order of a map is a new one each time, so each Stack is among the
\* first again and again.
Fairness ==
    /\ WF_vars(Reconcile)
    /\ \A s \in Stacks :
         /\ WF_vars(DeliverEvent(s)) /\ WF_vars(FinishDeletion(s))
         /\ SF_vars(ApplyStack(s))

Spec == Init /\ [][Next]_vars /\ Fairness

-----------------------------------------------------------------------------
(* Properties *)

\* The types; a Stack that is stored has versions, and none that are not
\* well-formed, whoever wrote it last.
TypeOK ==
    /\ cr \in [Stacks -> Resource] /\ cache \in [Stacks -> Resource]
    /\ \A s \in Stacks : cr[s] # NoStack => cr[s].phase # "absent" /\ Admissible(cr[s].spec)
    /\ synced \subseteq Stacks
    /\ hub \in Hubs /\ down \subseteq Repositories
    /\ loc \in Local
    /\ edits \in 0..MaxEdits /\ changes \in 0..MaxChanges
    /\ faults \in 0..MaxFaults

\* A version with a desired state is the user's: no step of the operator that
\* leaves the Stack in place changes or removes it, however old the operator's
\* view of the Stack is ("do not update any existing stacks if the desired
\* state is set").
KeepsDesired(s) ==
    loc' # loc /\ cr'[s].phase = cr[s].phase =>
        \A v \in Versions : cr[s].spec[v].desired # "" => cr'[s].spec[v] = cr[s].spec[v]

DesiredVersionsKept == [][\A s \in Stacks : KeepsDesired(s)]_vars

\* Whether all that is featured of s can be stored, and whether it is: apart
\* from versions with a desired state, the Stack has what the last repository
\* features, and nothing else.  One image that cannot be parsed, in whichever
\* repository, keeps all versions of s from being stored.
CanBeStored(s) ==
    /\ s \notin Refused
    /\ \A v \in Versions :
         LET c == Featured(s, v) IN c # None => AdmissibleVersion(Untag(c))

InStep(s) ==
    /\ cr[s].phase # "deleting"
    /\ \A v \in Versions :
         \/ cr[s].spec[v].desired # ""
         \/ cr[s].spec[v].content = IF Featured(s, v) = None THEN None ELSE Untag(Featured(s, v))

\* When the hubs can be reached, every Stack that can be stored comes to agree
\* with them and stays so: in spite of refused Stacks beside it, of a loop that
\* ends with the first deletion, ignored errors, conflicts and restarts.
FollowsHub ==
    \A s \in Stacks : <>[](down = {} /\ CanBeStored(s)) => <>[]InStep(s)
=============================================================================
